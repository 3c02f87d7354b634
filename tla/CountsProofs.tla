---------------------------- MODULE CountsProofs ----------------------------
(***************************************************************************)
(* What holds of the counts and the measures on the dashboard's pages, for *)
(* every season of matches, every map and mode, and every player: one      *)
(* season is counted alike on a player's page, in the teams' records       *)
(* beside it, in the tables of a division and on a team's sheet, no panel  *)
(* of a sheet contradicts another, and players and teams are measured      *)
(* alike wherever they are.                                                *)
(***************************************************************************)
EXTENDS League, Scout, Sheet, Ratings, FiniteSetTheorems, WellFoundedInduction, TLAPS

-----------------------------------------------------------------------------
(* Finite sets *)

\* Of numbers there is a least one.
LEMMA LeastOf ==
    ASSUME NEW Xs, Xs \subseteq Nat, Xs # {}
    PROVE  \E i \in Xs : \A j \in Xs : i <= j
<1>1. PICK i \in Xs : \A j \in Xs : ~ (<<j, i>> \in OpToRel(<, Nat))
  BY NatLessThanWellFounded, WFMin, Zenon
<1>2. \A j \in Xs : ~ (j < i)
  BY <1>1 DEF OpToRel
<1> QED BY <1>2

\* What holds of no element and is kept by one element more holds of a finite set.
LEMMA OneByOne ==
    ASSUME NEW Xs, IsFiniteSet(Xs), NEW Good, {} \in Good,
           \A Rs \in SUBSET Xs : \A x \in Xs \ Rs : Rs \in Good => Rs \cup {x} \in Good
    PROVE  Xs \in Good
<1> DEFINE Bad == {n \in Nat : \E Rs \in SUBSET Xs : Cardinality(Rs) = n /\ Rs \notin Good}
<1>1. SUFFICES ASSUME Xs \notin Good PROVE FALSE
  OBVIOUS
<1>2. Bad # {}
  <2>1. Cardinality(Xs) \in Nat
    BY FS_CardinalityType
  <2> QED BY <1>1, <2>1
<1>3. PICK n \in Bad : \A m \in Bad : n <= m
  BY <1>2, LeastOf
<1>4. PICK Rs \in SUBSET Xs : Cardinality(Rs) = n /\ Rs \notin Good
  BY <1>3
<1>5. PICK x \in Rs : TRUE
  BY <1>4
<1>6. IsFiniteSet(Rs) /\ IsFiniteSet(Rs \ {x}) /\ Cardinality(Rs \ {x}) = n - 1
  BY <1>4, FS_Subset, FS_RemoveElement
<1>7. n - 1 \in Nat
  BY <1>6, FS_CardinalityType
<1>8. Rs \ {x} \in Good
  <2>1. n - 1 \notin Bad
    BY <1>3, <1>7
  <2> QED BY <1>6, <1>7, <2>1
<1>9. (Rs \ {x}) \cup {x} = Rs
  OBVIOUS
<1> QED BY <1>4, <1>8, <1>9

-----------------------------------------------------------------------------
(* Sums *)

\* A function that gives each subset the sum over it, element by element.
Some(Rs) == CHOOSE x \in Rs : TRUE
Sums(Xs, f, g) ==
    g = [Rs \in SUBSET Xs |-> IF Rs = {} THEN 0 ELSE f[Some(Rs)] + g[Rs \ {Some(Rs)}]]

\* There is one.
LEMMA SumsExist ==
    ASSUME NEW Xs, IsFiniteSet(Xs), NEW f
    PROVE  \E g : Sums(Xs, f, g)
<1> DEFINE Small(n) == {Rs \in SUBSET Xs : Cardinality(Rs) <= n}
           To(n, g) == g = [Rs \in Small(n) |-> IF Rs = {} THEN 0 ELSE f[Some(Rs)] + g[Rs \ {Some(Rs)}]]
           Bad == {n \in Nat : ~\E g : To(n, g)}
<1>1. \A Rs \in SUBSET Xs : IsFiniteSet(Rs) /\ Cardinality(Rs) \in Nat
  BY FS_Subset, FS_CardinalityType
<1>2. \A Rs \in SUBSET Xs : Rs # {} =>
        /\ Rs \ {Some(Rs)} \in SUBSET Xs
        /\ Cardinality(Rs \ {Some(Rs)}) = Cardinality(Rs) - 1
  BY <1>1, FS_RemoveElement DEF Some
<1>3. Bad = {}
  <2>1. SUFFICES ASSUME Bad # {} PROVE FALSE
    OBVIOUS
  <2>2. PICK n \in Bad : \A m \in Bad : n <= m
    BY <2>1, LeastOf
  <2>3. CASE n = 0
    <3>1. \A Rs \in Small(0) : Rs = {}
      BY <1>1, FS_EmptySet
    <3>2. PICK g : g = [Rs \in Small(0) |-> 0]
      OBVIOUS
    <3>3. To(0, g)
      BY <3>1, <3>2
    <3> HIDE DEF To
    <3> QED BY <2>2, <2>3, <3>3
  <2>4. CASE n # 0
    <3>1. n - 1 \in Nat /\ ~(n <= n - 1)
      BY <2>4
    <3>2. PICK h : To(n - 1, h)
      <4> HIDE DEF To
      <4> QED BY <2>2, <3>1
    <3>3. PICK g : g = [Rs \in Small(n) |->
                          IF Rs = {} THEN 0
                          ELSE f[Some(Rs)] + h[Rs \ {Some(Rs)}]]
      OBVIOUS
    <3>4. ASSUME NEW Rs \in Small(n), Rs # {}
          PROVE  /\ Rs \ {Some(Rs)} \in Small(n - 1)
                 /\ g[Rs \ {Some(Rs)}] = h[Rs \ {Some(Rs)}]
      <4>1. Rs \ {Some(Rs)} \in Small(n - 1)
        BY <1>1, <1>2, <3>1, <3>4
      <4>2. PICK Vs \in Small(n - 1) : Vs = Rs \ {Some(Rs)}
        BY <4>1
      <4>3. Vs \in Small(n)
        BY <1>1, <3>1
      <4>4. g[Vs] = IF Vs = {} THEN 0 ELSE f[Some(Vs)] + h[Vs \ {Some(Vs)}]
        BY <3>3, <4>3
      <4>5. h[Vs] = IF Vs = {} THEN 0 ELSE f[Some(Vs)] + h[Vs \ {Some(Vs)}]
        BY <3>2, <4>2
      <4> QED BY <4>1, <4>2, <4>4, <4>5
    <3>5. To(n, g)
      BY <3>3, <3>4
    <3> HIDE DEF To
    <3> QED BY <2>2, <3>5
  <2> QED BY <2>3, <2>4
<1>4. PICK N \in Nat : N = Cardinality(Xs)
  BY FS_CardinalityType
<1>5. Small(N) = SUBSET Xs
  BY <1>4, FS_Subset
<1>6. PICK g : To(N, g)
  <2> HIDE DEF To
  <2> QED BY <1>3, <1>4
<1>7. Sums(Xs, f, g)
  BY <1>5, <1>6 DEF Sums
<1> QED BY <1>7

\* Two of them say the same of a set.
LEMMA SumsAgree ==
    ASSUME NEW Xs, NEW Ys, IsFiniteSet(Xs), NEW f, NEW g, NEW h, Sums(Xs, f, g), Sums(Ys, f, h), Xs \subseteq Ys
    PROVE  g[Xs] = h[Xs]
<1> DEFINE Bad == {n \in Nat : \E Rs \in SUBSET Xs : Cardinality(Rs) = n /\ g[Rs] # h[Rs]}
<1>1. SUFFICES ASSUME g[Xs] # h[Xs] PROVE FALSE
  OBVIOUS
<1>2. Bad # {}
  <2>1. Cardinality(Xs) \in Nat
    BY FS_CardinalityType
  <2> QED BY <1>1, <2>1
<1>3. PICK n \in Bad : \A m \in Bad : n <= m
  BY <1>2, LeastOf
<1>4. PICK Rs \in SUBSET Xs : Cardinality(Rs) = n /\ g[Rs] # h[Rs]
  BY <1>3
<1>5. /\ g[Rs] = IF Rs = {} THEN 0 ELSE f[Some(Rs)] + g[Rs \ {Some(Rs)}]
      /\ h[Rs] = IF Rs = {} THEN 0 ELSE f[Some(Rs)] + h[Rs \ {Some(Rs)}]
  BY <1>4 DEF Sums
<1>6. Rs # {} /\ g[Rs \ {Some(Rs)}] # h[Rs \ {Some(Rs)}]
  BY <1>4, <1>5
<1>7. Some(Rs) \in Rs
  BY <1>6 DEF Some
<1>8. IsFiniteSet(Rs \ {Some(Rs)}) /\ Cardinality(Rs \ {Some(Rs)}) = n - 1
  BY <1>4, <1>7, FS_Subset, FS_RemoveElement
<1>9. n - 1 \in Nat
  BY <1>8, FS_CardinalityType
<1>10. n - 1 \in Bad
  BY <1>6, <1>8, <1>9
<1> QED BY <1>3, <1>9, <1>10

\* The sum is one of them.
LEMMA SumIs ==
    ASSUME NEW Xs, IsFiniteSet(Xs), NEW f, NEW g, Sums(Xs, f, g)
    PROVE  \A Rs \in SUBSET Xs : SumOver(Rs, f) = g[Rs]
<1> SUFFICES ASSUME NEW Rs \in SUBSET Xs PROVE SumOver(Rs, f) = g[Rs]
  OBVIOUS
<1>1. IsFiniteSet(Rs)
  BY FS_Subset
<1>2. PICK iter : iter = CHOOSE h : Sums(Rs, f, h)
  OBVIOUS
<1>3. Sums(Rs, f, iter)
  BY <1>1, <1>2, SumsExist
<1>4. SumOver(Rs, f) = iter[Rs]
  BY <1>2 DEF SumOver, MapThenSumSet, MapThenFoldSet, Sums, Some
<1> QED BY <1>1, <1>3, <1>4, SumsAgree

\* The sum over nothing, and over one element more.
LEMMA SumOfNone == \A f : SumOver({}, f) = 0
<1> SUFFICES ASSUME NEW f PROVE SumOver({}, f) = 0
  OBVIOUS
<1>1. IsFiniteSet({})
  BY FS_EmptySet
<1>2. PICK g : Sums({}, f, g)
  BY <1>1, SumsExist
<1>3. g[{}] = 0
  BY <1>2 DEF Sums
<1> QED BY <1>1, <1>2, <1>3, SumIs

\* Of one element that it takes first.
LEMMA SumTakesOne ==
    ASSUME NEW Xs, IsFiniteSet(Xs), NEW f, Xs # {}
    PROVE  SumOver(Xs, f) = f[Some(Xs)] + SumOver(Xs \ {Some(Xs)}, f)
<1>1. PICK g : Sums(Xs, f, g)
  BY SumsExist
<1>2. g[Xs] = f[Some(Xs)] + g[Xs \ {Some(Xs)}]
  BY <1>1 DEF Sums
<1> QED BY <1>1, <1>2, SumIs

\* The terms of a sum are integers.
Ints(Xs, f) == \A x \in Xs : f[x] \in Int

\* A sum of integers is one, and any element can be taken first.
LEMMA SumAdds ==
    ASSUME NEW Xs, IsFiniteSet(Xs), NEW f, Ints(Xs, f)
    PROVE  /\ SumOver(Xs, f) \in Int
           /\ \A x \in Xs : SumOver(Xs, f) = f[x] + SumOver(Xs \ {x}, f)
<1> DEFINE Fine(Rs) == /\ SumOver(Rs, f) \in Int
                       /\ \A x \in Rs : SumOver(Rs, f) = f[x] + SumOver(Rs \ {x}, f)
           Bad == {n \in Nat : \E Rs \in SUBSET Xs : Cardinality(Rs) = n /\ ~Fine(Rs)}
<1>1. SUFFICES ASSUME ~Fine(Xs) PROVE FALSE
  OBVIOUS
<1>2. Bad # {}
  <2>1. Cardinality(Xs) \in Nat
    BY FS_CardinalityType
  <2> QED BY <1>1, <2>1
<1>3. PICK n \in Bad : \A m \in Bad : n <= m
  BY <1>2, LeastOf
<1>4. PICK Rs \in SUBSET Xs : Cardinality(Rs) = n /\ ~Fine(Rs)
  BY <1>3
<1>5. IsFiniteSet(Rs)
  BY FS_Subset
<1>6. ASSUME NEW Vs \in SUBSET Rs, NEW x \in Rs, x \notin Vs
      PROVE  Fine(Vs)
  <2>1. Vs \in SUBSET Xs /\ IsFiniteSet(Vs)
    BY <1>5, FS_Subset
  <2>2. Cardinality(Vs) \in Nat /\ Cardinality(Vs) < n
    BY <1>4, <1>5, <1>6, <2>1, FS_Subset, FS_CardinalityType
  <2>3. Cardinality(Vs) \notin Bad
    BY <1>3, <2>2
  <2> HIDE DEF Fine
  <2> QED BY <2>1, <2>2, <2>3
<1>7. CASE Rs = {}
  BY <1>4, <1>7, SumOfNone
<1>8. CASE Rs # {}
  <2>1. PICK c \in Rs : c = Some(Rs)
    BY <1>8 DEF Some
  <2>2. SumOver(Rs, f) = f[c] + SumOver(Rs \ {c}, f)
    BY <1>5, <1>8, <2>1, SumTakesOne
  <2>3. f[c] \in Int /\ SumOver(Rs \ {c}, f) \in Int
    BY <1>6 DEF Ints
  <2>4. ASSUME NEW x \in Rs
        PROVE  SumOver(Rs, f) = f[x] + SumOver(Rs \ {x}, f)
    <3>1. CASE x = c
      BY <2>2, <3>1
    <3>2. CASE x # c
      <4>1. Fine(Rs \ {c}) /\ Fine(Rs \ {x}) /\ Fine((Rs \ {c}) \ {x})
        BY <1>6
      <4>2. PICK Vs : Vs = (Rs \ {c}) \ {x} /\ Vs = (Rs \ {x}) \ {c}
        OBVIOUS
      <4>3. x \in Rs \ {c} /\ c \in Rs \ {x}
        BY <3>2
      <4>4. SumOver(Rs \ {c}, f) = f[x] + SumOver(Vs, f) /\ SumOver(Rs \ {x}, f) = f[c] + SumOver(Vs, f)
        BY <4>1, <4>2, <4>3
      <4>5. f[x] \in Int /\ f[c] \in Int /\ SumOver(Vs, f) \in Int
        BY <4>1, <4>2 DEF Ints
      <4> QED BY <2>2, <4>4, <4>5
    <3> QED BY <3>1, <3>2
  <2> QED BY <1>4, <2>2, <2>3, <2>4
<1> QED BY <1>7, <1>8

\* One element more, one term more.
LEMMA SumGrows ==
    ASSUME NEW Xs, IsFiniteSet(Xs), NEW x, x \notin Xs, NEW f, Ints(Xs \cup {x}, f)
    PROVE  SumOver(Xs \cup {x}, f) = f[x] + SumOver(Xs, f)
<1>1. IsFiniteSet(Xs \cup {x}) /\ (Xs \cup {x}) \ {x} = Xs
  BY FS_AddElement
<1> QED BY <1>1, SumAdds

\* Sums that are term by term alike, or no less, or the difference of two.
LEMMA SumsCompare ==
    ASSUME NEW Xs, IsFiniteSet(Xs), NEW f, NEW g, Ints(Xs, f), Ints(Xs, g)
    PROVE  /\ (\A x \in Xs : f[x] = g[x]) => SumOver(Xs, f) = SumOver(Xs, g)
           /\ (\A x \in Xs : f[x] <= g[x]) => SumOver(Xs, f) <= SumOver(Xs, g)
<1>1. ASSUME \A x \in Xs : f[x] <= g[x]
      PROVE  SumOver(Xs, f) <= SumOver(Xs, g)
  <2> DEFINE Good == {Rs \in SUBSET Xs : SumOver(Rs, f) <= SumOver(Rs, g)}
  <2>1. {} \in Good
    BY SumOfNone
  <2>2. ASSUME NEW Rs \in SUBSET Xs, NEW x \in Xs \ Rs, Rs \in Good
        PROVE  Rs \cup {x} \in Good
    <3>1. IsFiniteSet(Rs) /\ Ints(Rs, f) /\ Ints(Rs, g) /\ Ints(Rs \cup {x}, f) /\ Ints(Rs \cup {x}, g)
      BY FS_Subset DEF Ints
    <3>2. SumOver(Rs, f) \in Int /\ SumOver(Rs, g) \in Int
      BY <3>1, SumAdds
    <3>3. SumOver(Rs \cup {x}, f) = f[x] + SumOver(Rs, f) /\ SumOver(Rs \cup {x}, g) = g[x] + SumOver(Rs, g)
      BY <3>1, SumGrows
    <3>4. f[x] \in Int /\ g[x] \in Int /\ f[x] <= g[x]
      BY <1>1 DEF Ints
    <3>5. SumOver(Rs, f) <= SumOver(Rs, g)
      BY <2>2
    <3>6. SumOver(Rs \cup {x}, f) <= SumOver(Rs \cup {x}, g)
      BY <3>2, <3>3, <3>4, <3>5
    <3> QED BY <3>6
  <2> HIDE DEF Good
  <2>3. Xs \in Good
    BY <2>1, <2>2, OneByOne
  <2> QED BY <2>3 DEF Good
<1>2. ASSUME \A x \in Xs : f[x] = g[x]
      PROVE  SumOver(Xs, f) = SumOver(Xs, g)
  <2> DEFINE Good == {Rs \in SUBSET Xs : SumOver(Rs, f) = SumOver(Rs, g)}
  <2>1. {} \in Good
    BY SumOfNone
  <2>2. ASSUME NEW Rs \in SUBSET Xs, NEW x \in Xs \ Rs, Rs \in Good
        PROVE  Rs \cup {x} \in Good
    <3>1. IsFiniteSet(Rs) /\ Ints(Rs \cup {x}, f) /\ Ints(Rs \cup {x}, g)
      BY FS_Subset DEF Ints
    <3>2. SumOver(Rs \cup {x}, f) = f[x] + SumOver(Rs, f) /\ SumOver(Rs \cup {x}, g) = g[x] + SumOver(Rs, g)
      BY <3>1, SumGrows
    <3> QED BY <1>2, <2>2, <3>2
  <2> HIDE DEF Good
  <2>3. Xs \in Good
    BY <2>1, <2>2, OneByOne
  <2> QED BY <2>3 DEF Good
<1> QED BY <1>1, <1>2

\* The sum of the differences is the difference of the sums.
LEMMA SumsSubtract ==
    ASSUME NEW Xs, IsFiniteSet(Xs), NEW f, NEW g, NEW h, Ints(Xs, f), Ints(Xs, g),
           \A x \in Xs : h[x] = f[x] - g[x]
    PROVE  SumOver(Xs, h) = SumOver(Xs, f) - SumOver(Xs, g)
<1> DEFINE Good == {Rs \in SUBSET Xs : SumOver(Rs, h) = SumOver(Rs, f) - SumOver(Rs, g)}
<1>1. {} \in Good
  BY SumOfNone
<1>2. ASSUME NEW Rs \in SUBSET Xs, NEW x \in Xs \ Rs, Rs \in Good
      PROVE  Rs \cup {x} \in Good
  <2>1. IsFiniteSet(Rs) /\ Ints(Rs, f) /\ Ints(Rs, g) /\ Ints(Rs \cup {x}, f) /\ Ints(Rs \cup {x}, g)
        /\ Ints(Rs \cup {x}, h)
    BY FS_Subset DEF Ints
  <2>2. SumOver(Rs, f) \in Int /\ SumOver(Rs, g) \in Int
    BY <2>1, SumAdds
  <2>3. /\ SumOver(Rs \cup {x}, f) = f[x] + SumOver(Rs, f)
        /\ SumOver(Rs \cup {x}, g) = g[x] + SumOver(Rs, g)
        /\ SumOver(Rs \cup {x}, h) = h[x] + SumOver(Rs, h)
    BY <2>1, SumGrows
  <2>4. f[x] \in Int /\ g[x] \in Int /\ h[x] = f[x] - g[x] /\ SumOver(Rs, h) = SumOver(Rs, f) - SumOver(Rs, g)
    BY <1>2 DEF Ints
  <2>5. SumOver(Rs \cup {x}, h) = SumOver(Rs \cup {x}, f) - SumOver(Rs \cup {x}, g)
    BY <2>2, <2>3, <2>4
  <2> QED BY <2>5
<1> HIDE DEF Good
<1>3. Xs \in Good
  BY <1>1, <1>2, OneByOne
<1> QED BY <1>3 DEF Good

\* Things put into finitely many classes: Each(Ks, of, f) is what f counts of each, and
\* All(Ks, of) what is in any.
Each(Ks, of, f) == \A k \in Ks : IsFiniteSet(of[k]) /\ f[k] = Cardinality(of[k])
All(Ks, of) == UNION {of[k] : k \in Ks}

\* All of them are counted, and no more than once where the classes are apart.
LEMMA SumOfClasses ==
    ASSUME NEW Ks, IsFiniteSet(Ks), NEW of, NEW f, Each(Ks, of, f)
    PROVE  /\ IsFiniteSet(All(Ks, of))
           /\ Cardinality(All(Ks, of)) <= SumOver(Ks, f)
           /\ (\A k, l \in Ks : k # l => of[k] \cap of[l] = {}) => SumOver(Ks, f) = Cardinality(All(Ks, of))
<1> DEFINE Apart == \A k, l \in Ks : k # l => of[k] \cap of[l] = {}
           Good == {Rs \in SUBSET Ks : /\ IsFiniteSet(All(Rs, of))
                                       /\ Cardinality(All(Rs, of)) <= SumOver(Rs, f)
                                       /\ Apart => SumOver(Rs, f) = Cardinality(All(Rs, of))}
<1>1. {} \in Good
  <2>1. All({}, of) = {}
    BY DEF All
  <2> QED BY <2>1, SumOfNone, FS_EmptySet
<1>2. ASSUME NEW Rs \in SUBSET Ks, NEW k \in Ks \ Rs, Rs \in Good
      PROVE  Rs \cup {k} \in Good
  <2>1. All(Rs \cup {k}, of) = All(Rs, of) \cup of[k]
    BY DEF All
  <2>2. IsFiniteSet(of[k]) /\ f[k] = Cardinality(of[k]) /\ IsFiniteSet(All(Rs, of))
    BY <1>2 DEF Each
  <2>3. /\ IsFiniteSet(All(Rs, of) \cup of[k])
        /\ Cardinality(All(Rs, of) \cup of[k])
             = Cardinality(All(Rs, of)) + Cardinality(of[k]) - Cardinality(All(Rs, of) \cap of[k])
    BY <2>2, FS_Union
  <2>4. IsFiniteSet(All(Rs, of) \cap of[k])
    BY <2>2, FS_Subset
  <2>5. PICK a \in Nat, b \in Nat, c \in Nat :
          a = Cardinality(All(Rs, of)) /\ b = Cardinality(of[k]) /\ c = Cardinality(All(Rs, of) \cap of[k])
    BY <2>2, <2>4, FS_CardinalityType
  <2>6. IsFiniteSet(Rs) /\ Ints(Rs \cup {k}, f) /\ Ints(Rs, f)
    <3>1. \A l \in Ks : f[l] \in Int
      BY FS_CardinalityType DEF Each
    <3> QED BY <3>1, FS_Subset DEF Ints
  <2>7. SumOver(Rs \cup {k}, f) = b + SumOver(Rs, f) /\ SumOver(Rs, f) \in Int
    BY <2>2, <2>5, <2>6, SumGrows, SumAdds
  <2>8. a <= SumOver(Rs, f) /\ (Apart => SumOver(Rs, f) = a)
    BY <1>2, <2>5
  <2>9. ASSUME Apart PROVE c = 0
    <3>1. All(Rs, of) \cap of[k] = {}
      BY <2>9 DEF All
    <3> QED BY <2>5, <3>1, FS_EmptySet
  <2>10. Cardinality(All(Rs \cup {k}, of)) = a + b - c
    BY <2>1, <2>3, <2>5
  <2> HIDE DEF Apart
  <2>11. /\ Cardinality(All(Rs \cup {k}, of)) <= SumOver(Rs \cup {k}, f)
         /\ Apart => SumOver(Rs \cup {k}, f) = Cardinality(All(Rs \cup {k}, of))
    BY <2>5, <2>7, <2>8, <2>9, <2>10
  <2>12. IsFiniteSet(All(Rs \cup {k}, of))
    BY <2>1, <2>3
  <2> QED BY <2>11, <2>12
<1> HIDE DEF Good
<1>3. Ks \in Good
  BY <1>1, <1>2, OneByOne
<1> QED BY <1>3 DEF Good

-----------------------------------------------------------------------------
(* Lists by an order *)

\* The number of what comes before a thing, by a strict order of finitely many.
Orders(order, Xs) ==
    /\ \A x \in Xs : <<x, x>> \notin order
    /\ \A x, y, z \in Xs : <<x, y>> \in order /\ <<y, z>> \in order => <<x, z>> \in order
    /\ \A x, y \in Xs : x = y \/ <<x, y>> \in order \/ <<y, x>> \in order
NoBefore(order, Xs, x) == Cardinality({y \in Xs : <<y, x>> \in order})

LEMMA Enumerated ==
    ASSUME NEW Xs, IsFiniteSet(Xs), NEW order, Orders(order, Xs)
    PROVE  /\ Cardinality(Xs) \in Nat
           /\ \A x \in Xs : NoBefore(order, Xs, x) \in 0..Cardinality(Xs) - 1
           /\ \A x, y \in Xs : <<x, y>> \in order => NoBefore(order, Xs, x) < NoBefore(order, Xs, y)
           /\ \A x, y \in Xs : NoBefore(order, Xs, x) = NoBefore(order, Xs, y) => x = y
           /\ \A n \in 1..Cardinality(Xs) : \E x \in Xs : NoBefore(order, Xs, x) = n - 1
<1>0. PICK rank : rank = [x \in Xs |-> NoBefore(order, Xs, x)]
  OBVIOUS
<1> DEFINE Below(x) == {y \in Xs : <<y, x>> \in order}
           N == Cardinality(Xs)
<1>1. N \in Nat
  BY FS_CardinalityType
<1>2. ASSUME NEW x \in Xs
      PROVE  IsFiniteSet(Below(x)) /\ Cardinality(Below(x)) \in 0..N - 1
  <2>1. Below(x) \in SUBSET Xs /\ x \notin Below(x)
    BY DEF Orders
  <2>2. IsFiniteSet(Below(x)) /\ Cardinality(Below(x)) <= N /\ Cardinality(Below(x)) # N
    BY <2>1, FS_Subset
  <2>3. Cardinality(Below(x)) \in Nat
    BY <2>2, FS_CardinalityType
  <2> QED BY <1>1, <2>2, <2>3
<1>a. \A x \in Xs : rank[x] = Cardinality(Below(x))
  BY <1>0 DEF NoBefore
<1>3. ASSUME NEW x \in Xs, NEW y \in Xs, <<x, y>> \in order
      PROVE  rank[x] < rank[y]
  <2>1. Below(x) \in SUBSET Below(y) /\ x \in Below(y) /\ x \notin Below(x)
    BY <1>3 DEF Orders
  <2>2. IsFiniteSet(Below(y))
    BY <1>2
  <2>3. Cardinality(Below(x)) <= Cardinality(Below(y)) /\ Cardinality(Below(x)) # Cardinality(Below(y))
    BY <2>1, <2>2, FS_Subset
  <2>4. rank[x] = Cardinality(Below(x)) /\ rank[y] = Cardinality(Below(y))
    BY <1>a
  <2>5. Cardinality(Below(x)) \in 0..N - 1 /\ Cardinality(Below(y)) \in 0..N - 1
    BY <1>2, Zenon
  <2> HIDE DEF Below, N
  <2> QED BY <1>1, <2>3, <2>4, <2>5
<1>4. \A x \in Xs : rank[x] \in 0..N - 1
  BY <1>2, <1>a, Zenon
<1> HIDE DEF N
<1>5. \A x, y \in Xs : rank[x] = rank[y] => x = y
  <2> SUFFICES ASSUME NEW x \in Xs, NEW y \in Xs, rank[x] = rank[y], x # y PROVE FALSE
    OBVIOUS
  <2>1. <<x, y>> \in order \/ <<y, x>> \in order
    BY DEF Orders
  <2>2. rank[x] < rank[y] \/ rank[y] < rank[x]
    BY <1>3, <2>1
  <2> QED BY <1>1, <1>4, <2>2
<1>6. rank \in Injection(Xs, 0..N - 1)
  <2>1. rank \in [Xs -> 0..N - 1]
    BY <1>0, <1>4
  <2> QED BY <1>5, <2>1 DEF Injection, IsInjective
<1>7. rank \in Surjection(Xs, 0..N - 1)
  <2>1. IsFiniteSet(0..N - 1) /\ Cardinality(0..N - 1) = N
    BY <1>1, FS_Interval
  <2> QED BY <1>6, <2>1, FS_Injection DEF N
<1>8. \A n \in 1..N : \E x \in Xs : rank[x] = n - 1
  <2> SUFFICES ASSUME NEW n \in 1..N PROVE \E x \in Xs : rank[x] = n - 1
    OBVIOUS
  <2>1. n - 1 \in 0..N - 1
    BY <1>1
  <2> QED BY <1>7, <2>1 DEF Surjection
<1>9. \A x \in Xs : rank[x] = NoBefore(order, Xs, x)
  BY <1>0
<1> QED BY <1>1, <1>3, <1>4, <1>5, <1>8, <1>9 DEF N

\* A finite set and its list by a strict order: every element is in it once, and one that
\* comes before another does so in the list.
Lists(order, Xs, list) ==
    /\ Orders(order, Xs)
    /\ list = [n \in 1..Cardinality(Xs) |-> CHOOSE x \in Xs : NoBefore(order, Xs, x) = n - 1]

LEMMA Listed ==
    ASSUME NEW Xs, IsFiniteSet(Xs), NEW order, NEW list, Lists(order, Xs, list)
    PROVE  /\ Cardinality(Xs) \in Nat
           /\ list \in [1..Cardinality(Xs) -> Xs]
           /\ \A x \in Xs : \E n \in 1..Cardinality(Xs) : list[n] = x
           /\ \A m, n \in 1..Cardinality(Xs) : <<list[m], list[n]>> \in order => m < n
<1>1. PICK rank : rank = [x \in Xs |-> NoBefore(order, Xs, x)]
  OBVIOUS
<1> DEFINE N == Cardinality(Xs)
<1>a. Orders(order, Xs)
  BY DEF Lists
<1>2. /\ N \in Nat
      /\ \A x \in Xs : rank[x] \in 0..N - 1
      /\ \A x, y \in Xs : <<x, y>> \in order => rank[x] < rank[y]
      /\ \A x, y \in Xs : rank[x] = rank[y] => x = y
      /\ \A n \in 1..N : \E x \in Xs : rank[x] = n - 1
  BY <1>1, <1>a, Enumerated
<1>3. \A n \in 1..N : list[n] = CHOOSE x \in Xs : rank[x] = n - 1
  BY <1>1 DEF Lists
<1>4. \A n \in 1..N : list[n] \in Xs /\ rank[list[n]] = n - 1
  BY <1>2, <1>3
<1> HIDE DEF N
<1>5. \A x \in Xs : \E n \in 1..N : list[n] = x
  <2> SUFFICES ASSUME NEW x \in Xs PROVE \E n \in 1..N : list[n] = x
    OBVIOUS
  <2>1. PICK n \in 1..N : n - 1 = rank[x]
    <3>1. PICK k \in 0..N - 1 : k = rank[x]
      BY <1>2
    <3>2. k + 1 \in 1..N /\ k + 1 - 1 = k
      BY <1>2
    <3> QED BY <3>1, <3>2
  <2>2. rank[list[n]] = rank[x] /\ list[n] \in Xs
    BY <1>4, <2>1
  <2> QED BY <1>2, <2>2
<1>6. ASSUME NEW m \in 1..N, NEW n \in 1..N, <<list[m], list[n]>> \in order
      PROVE  m < n
  <2>1. rank[list[m]] < rank[list[n]]
    BY <1>2, <1>4, <1>6
  <2> QED BY <1>2, <1>4, <2>1
<1>7. list \in [1..N -> Xs]
  <2>1. list = [n \in 1..N |-> CHOOSE x \in Xs : NoBefore(order, Xs, x) = n - 1]
    BY DEF Lists, N
  <2> QED BY <1>4, <2>1
<1> QED BY <1>2, <1>5, <1>6, <1>7 DEF N

-----------------------------------------------------------------------------
(* The maps of a season *)

\* What a function makes of a set.
Image(Xs, f) == {f[x] : x \in Xs}

\* It is finite, and as large where the function tells things apart.
LEMMA ImageOf ==
    ASSUME NEW Xs, IsFiniteSet(Xs), NEW f
    PROVE  /\ IsFiniteSet(Image(Xs, f))
           /\ Cardinality(Image(Xs, f)) <= Cardinality(Xs)
           /\ (\A x, y \in Xs : f[x] = f[y] => x = y) => Cardinality(Image(Xs, f)) = Cardinality(Xs)
<1>1. PICK h : h = [x \in Xs |-> f[x]]
  OBVIOUS
<1>2. PICK Ys : Ys = Image(Xs, f)
  OBVIOUS
<1>3. h \in Surjection(Xs, Ys)
  BY <1>1, <1>2 DEF Image, Surjection
<1>4. IsFiniteSet(Ys) /\ Cardinality(Ys) <= Cardinality(Xs)
  BY <1>3, FS_Surjection
<1>5. ASSUME \A x, y \in Xs : f[x] = f[y] => x = y
      PROVE  Cardinality(Ys) = Cardinality(Xs)
  <2>1. h \in Injection(Xs, Ys)
    BY <1>1, <1>3, <1>5 DEF Injection, IsInjective, Surjection
  <2>2. h \in Bijection(Xs, Ys)
    BY <1>3, <2>1 DEF Bijection
  <2>3. ExistsBijection(Xs, Ys)
    BY <2>2 DEF ExistsBijection
  <2> QED BY <2>3, FS_Bijection
<1> QED BY <1>2, <1>4, <1>5

\* What was played of a season, and what a roster names a player in.
Rows(s) == MapGames({m \in s : m.finished})
RowsFor(s, n) == {r \in Rows(s) : n \in DOMAIN r.g.side}
PickOf(r) == <<r.m.id, r.g.no>>
PlayedIn(r, n) ==
    [cid |-> r.m.cid, team |-> r.g.side[n], id |-> r.m.id, no |-> r.g.no, map |-> r.g.map,
     won |-> r.g.winner = r.g.side[n],
     hero |-> IF n \in DOMAIN r.g.hero THEN r.g.hero[n] ELSE "unseen"]

\* The maps of matches are their games that were played.
LEMMA MapGamesAre ==
    ASSUME NEW ms
    PROVE  /\ \A r \in MapGames(ms) : /\ r.m \in ms /\ r.g \in r.m.games /\ r.g.map # Unplayed
                                      /\ r = [m |-> r.m, g |-> r.g]
           /\ \A m \in ms : \A g \in m.games : g.map # Unplayed => [m |-> m, g |-> g] \in MapGames(ms)
BY DEF MapGames

\* The maps of some of the matches are those of the maps that are of these.
LEMMA MapGamesOfSome ==
    ASSUME NEW ms, NEW ls, ls \subseteq ms
    PROVE  MapGames(ls) = {r \in MapGames(ms) : r.m \in ls}
<1>1. ASSUME NEW r \in MapGames(ls) PROVE r \in MapGames(ms) /\ r.m \in ls
  BY <1>1, MapGamesAre
<1>2. ASSUME NEW r \in MapGames(ms), r.m \in ls PROVE r \in MapGames(ls)
  BY <1>2, MapGamesAre
<1> QED BY <1>1, <1>2

\* They are finitely many.
LEMMA MapGamesFinite ==
    ASSUME NEW ms, IsFiniteSet(ms), \A m \in ms : IsFiniteSet(m.games)
    PROVE  IsFiniteSet(MapGames(ms))
<1>1. PICK of : of = [m \in ms |-> {[m |-> m, g |-> g] : g \in {h \in m.games : h.map # Unplayed}}]
  OBVIOUS
<1>2. ASSUME NEW m \in ms PROVE IsFiniteSet(of[m])
  <2>1. PICK Gs : Gs = {h \in m.games : h.map # Unplayed}
    OBVIOUS
  <2>2. IsFiniteSet(Gs)
    BY <2>1, FS_Subset
  <2>3. PICK f : f = [g \in Gs |-> [m |-> m, g |-> g]]
    OBVIOUS
  <2>4. of[m] = Image(Gs, f)
    BY <1>1, <2>1, <2>3 DEF Image
  <2> QED BY <2>2, <2>4, ImageOf
<1>3. IsFiniteSet(Image(ms, of))
  BY ImageOf
<1>4. \A X \in Image(ms, of) : IsFiniteSet(X)
  BY <1>2 DEF Image
<1>5. MapGames(ms) = UNION Image(ms, of)
  BY <1>1 DEF MapGames, Image
<1> QED BY <1>3, <1>4, <1>5, FS_UNION

\* The maps of a season: each a match that is over and a game of it, finitely many, told
\* apart by their numbers.
LEMMA RowsAre ==
    ASSUME NEW s, IsSeason(s)
    PROVE  /\ IsFiniteSet(Rows(s))
           /\ \A r \in Rows(s) : /\ r.m \in s /\ r.m.finished /\ r.g \in r.m.games /\ r.g.map # Unplayed
                                 /\ IsGame(r.m, r.g)
           /\ \A q, r \in Rows(s) : q.m.id = r.m.id /\ q.g.no = r.g.no => q = r
<1>1. PICK ms : ms = {m \in s : m.finished}
  OBVIOUS
<1>2. IsFiniteSet(ms) /\ \A m \in ms : IsFiniteSet(m.games)
  BY <1>1, FS_Subset DEF IsSeason
<1>3. IsFiniteSet(Rows(s))
  BY <1>1, <1>2, MapGamesFinite DEF Rows
<1>4. \A r \in Rows(s) : /\ r.m \in s /\ r.m.finished /\ r.g \in r.m.games /\ r.g.map # Unplayed
                         /\ r = [m |-> r.m, g |-> r.g]
  BY <1>1, MapGamesAre DEF Rows
<1>5. \A r \in Rows(s) : IsGame(r.m, r.g)
  BY <1>4 DEF IsSeason
<1>6. ASSUME NEW q \in Rows(s), NEW r \in Rows(s), q.m.id = r.m.id, q.g.no = r.g.no
      PROVE  q = r
  <2>1. q.m = r.m
    BY <1>4, <1>6 DEF IsSeason
  <2>2. q.g = r.g
    BY <1>4, <1>6, <2>1 DEF IsSeason
  <2> QED BY <1>4, <2>1, <2>2
<1> QED BY <1>3, <1>4, <1>5, <1>6

\* Those of a division are the maps of its matches.
LEMMA RowsOfDivision ==
    ASSUME NEW s, NEW c
    PROVE  MapGames(leagueMatches(s, c)) = {r \in Rows(s) : r.m.cid = c}
<1>1. PICK ms : ms = {m \in s : m.finished}
  OBVIOUS
<1>2. PICK ls : ls = leagueMatches(s, c)
  OBVIOUS
<1>3. ls \subseteq ms /\ \A m \in ms : m \in ls <=> m.cid = c
  BY <1>1, <1>2 DEF leagueMatches
<1>4. MapGames(ls) = {r \in MapGames(ms) : r.m \in ls}
  BY <1>3, MapGamesOfSome
<1>5. \A r \in MapGames(ms) : r.m \in ms
  BY MapGamesAre
<1> QED BY <1>1, <1>2, <1>3, <1>4, <1>5 DEF Rows

\* A player's games are the maps a roster names the player in, one for one.
LEMMA GamesAre ==
    ASSUME NEW s, IsSeason(s), NEW n
    PROVE  playerGames(s, n) = {PlayedIn(r, n) : r \in RowsFor(s, n)}
<1>1. ASSUME NEW c \in Divisions(s), NEW r \in MapGames(leagueMatches(s, c)), n \in DOMAIN r.g.side
      PROVE  r \in RowsFor(s, n) /\ r.m.cid = c
  BY <1>1, RowsOfDivision DEF RowsFor
<1>2. ASSUME NEW r \in RowsFor(s, n)
      PROVE  /\ r.m.cid \in Divisions(s) /\ n \in DOMAIN r.g.side
             /\ r \in MapGames(leagueMatches(s, r.m.cid))
  <2>1. r \in Rows(s) /\ n \in DOMAIN r.g.side /\ r.m \in s
    BY RowsAre DEF RowsFor
  <2> QED BY <2>1, RowsOfDivision DEF Divisions
<1>3. ASSUME NEW x \in playerGames(s, n) PROVE \E r \in RowsFor(s, n) : x = PlayedIn(r, n)
  <2>1. PICK c \in Divisions(s) : \E r \in {q \in MapGames(leagueMatches(s, c)) : n \in DOMAIN q.g.side} :
          x = [cid |-> c, team |-> r.g.side[n], id |-> r.m.id, no |-> r.g.no, map |-> r.g.map,
               won |-> r.g.winner = r.g.side[n],
               hero |-> IF n \in DOMAIN r.g.hero THEN r.g.hero[n] ELSE "unseen"]
    BY <1>3 DEF playerGames
  <2>2. PICK r \in {q \in MapGames(leagueMatches(s, c)) : n \in DOMAIN q.g.side} :
          x = [cid |-> c, team |-> r.g.side[n], id |-> r.m.id, no |-> r.g.no, map |-> r.g.map,
               won |-> r.g.winner = r.g.side[n],
               hero |-> IF n \in DOMAIN r.g.hero THEN r.g.hero[n] ELSE "unseen"]
    BY <2>1
  <2>3. r \in RowsFor(s, n) /\ r.m.cid = c
    BY <1>1
  <2> QED BY <2>2, <2>3 DEF PlayedIn
<1>4. ASSUME NEW r \in RowsFor(s, n) PROVE PlayedIn(r, n) \in playerGames(s, n)
  <2>1. PICK c \in Divisions(s) : c = r.m.cid
    BY <1>2
  <2>2. r \in {q \in MapGames(leagueMatches(s, c)) : n \in DOMAIN q.g.side}
    BY <1>2, <2>1
  <2> QED BY <2>1, <2>2 DEF playerGames, PlayedIn
<1> QED BY <1>3, <1>4

\* Some maps of a player, as games of the player's.
GamesOfSome(Rs, n) == {PlayedIn(r, n) : r \in Rs}

\* There are as many of them.
LEMMA GamesCount ==
    ASSUME NEW s, IsSeason(s), NEW n, NEW Rs \in SUBSET RowsFor(s, n)
    PROVE  IsFiniteSet(Rs) /\ IsFiniteSet(GamesOfSome(Rs, n)) /\ Cardinality(GamesOfSome(Rs, n)) = Cardinality(Rs)
<1>1. Rs \in SUBSET Rows(s) /\ IsFiniteSet(Rs)
  BY RowsAre, FS_Subset DEF RowsFor
<1>2. PICK f : f = [r \in Rs |-> PlayedIn(r, n)]
  OBVIOUS
<1>3. Image(Rs, f) = GamesOfSome(Rs, n)
  BY <1>2 DEF Image, GamesOfSome
<1>4. ASSUME NEW q \in Rs, NEW r \in Rs, f[q] = f[r] PROVE q = r
  <2>1. PlayedIn(q, n) = PlayedIn(r, n)
    BY <1>2, <1>4
  <2>2. q.m.id = r.m.id /\ q.g.no = r.g.no
    BY <2>1 DEF PlayedIn
  <2> QED BY <1>1, <2>2, RowsAre
<1> QED BY <1>1, <1>3, <1>4, ImageOf

-----------------------------------------------------------------------------
(* A player's record, beside those of the teams *)

\* The maps of a division a team was on, by a key.
TeamRows(s, c, t, key, k) == {r \in Rows(s) : r.m.cid = c /\ t \in TeamsIn(r) /\ key[r.g.map] = k}
TeamWon(s, c, t, key, k) == {r \in TeamRows(s, c, t, key, k) : r.g.winner = t}

\* A team's record counts them.
LEMMA TeamRecordsAre ==
    ASSUME NEW s, IsSeason(s), NEW c, NEW t, NEW key, NEW k
    PROVE  /\ IsFiniteSet(TeamRows(s, c, t, key, k))
           /\ teamRecords(s, c, t, key, k).games = Cardinality(TeamRows(s, c, t, key, k))
           /\ teamRecords(s, c, t, key, k).wins = Cardinality(TeamWon(s, c, t, key, k))
<1>1. PICK rs : rs = {r \in MapGames(leagueMatches(s, c)) : t \in TeamsIn(r) /\ key[r.g.map] = k}
  OBVIOUS
<1>2. rs = TeamRows(s, c, t, key, k)
  BY <1>1, RowsOfDivision DEF TeamRows
<1>3. rs \cap WonRows(rs, t) = TeamWon(s, c, t, key, k)
  BY <1>2 DEF WonRows, TeamWon
<1>4. teamRecords(s, c, t, key, k) = [games |-> Cardinality(rs), wins |-> Cardinality(rs \cap WonRows(rs, t))]
  BY <1>1 DEF teamRecords, Tally
<1>5. IsFiniteSet(TeamRows(s, c, t, key, k))
  BY RowsAre, FS_Subset DEF TeamRows
<1> QED BY <1>2, <1>3, <1>4, <1>5

\* A row of a player's record, and the teams it was made in.
RowsOf(games, key) == {key[g.map] : g \in games}
MineAt(games, key, k) == {g \in games : key[g.map] = k}
WonAt(games, key, k) == {g \in MineAt(games, key, k) : g.won}
SpellPlaces(games, key, k) == {<<g.cid, g.team>> : g \in MineAt(games, key, k)}
TheirGames(s, games, key, k) == [p \in SpellPlaces(games, key, k) |-> teamRecords(s, p[1], p[2], key, k).games]
TheirWins(s, games, key, k) == [p \in SpellPlaces(games, key, k) |-> teamRecords(s, p[1], p[2], key, k).wins]

\* The record is of such rows.
LEMMA RecordIs ==
    ASSUME NEW s, NEW games, NEW key
    PROVE  /\ DOMAIN RecordOf(s, games, key) = RowsOf(games, key)
           /\ \A k \in RowsOf(games, key) :
                RecordOf(s, games, key)[k] =
                  [games |-> Cardinality(MineAt(games, key, k)), wins |-> Cardinality(WonAt(games, key, k)),
                   teamGames |-> SumOver(SpellPlaces(games, key, k), TheirGames(s, games, key, k)),
                   teamWins |-> SumOver(SpellPlaces(games, key, k), TheirWins(s, games, key, k))]
BY DEF RecordOf, RowsOf, MineAt, WonAt, SpellPlaces, TheirGames, TheirWins

\* The games of a record add up to the player's, and its wins to those won.
RecordSums(games, rec) ==
    /\ IsFiniteSet(DOMAIN rec)
    /\ SumOver(DOMAIN rec, [k \in DOMAIN rec |-> rec[k].games]) = Cardinality(games)
    /\ SumOver(DOMAIN rec, [k \in DOMAIN rec |-> rec[k].wins]) = Cardinality({g \in games : g.won})

LEMMA RecordAdds ==
    ASSUME NEW s, NEW games, IsFiniteSet(games), NEW key, NEW rec, rec = RecordOf(s, games, key)
    PROVE  RecordSums(games, rec)
<1>1. PICK Ks : Ks = RowsOf(games, key)
  OBVIOUS
<1>2. IsFiniteSet(Ks)
  <2>1. PICK f : f = [g \in games |-> key[g.map]]
    OBVIOUS
  <2>2. Ks = Image(games, f)
    BY <1>1, <2>1 DEF Image, RowsOf
  <2> QED BY <2>2, ImageOf
<1>3. DOMAIN rec = Ks
  <2>1. DOMAIN RecordOf(s, games, key) = RowsOf(games, key)
    BY RecordIs, Zenon
  <2> QED BY <1>1, <2>1
<1>4. \A k \in Ks : rec[k].games = Cardinality(MineAt(games, key, k)) /\ rec[k].wins = Cardinality(WonAt(games, key, k))
  <2> SUFFICES ASSUME NEW k \in RowsOf(games, key)
               PROVE  /\ rec[k].games = Cardinality(MineAt(games, key, k))
                      /\ rec[k].wins = Cardinality(WonAt(games, key, k))
    BY <1>1
  <2>1. RecordOf(s, games, key)[k] =
          [games |-> Cardinality(MineAt(games, key, k)), wins |-> Cardinality(WonAt(games, key, k)),
           teamGames |-> SumOver(SpellPlaces(games, key, k), TheirGames(s, games, key, k)),
           teamWins |-> SumOver(SpellPlaces(games, key, k), TheirWins(s, games, key, k))]
    BY RecordIs, Zenon
  <2> QED BY <2>1
<1>5. PICK of : of = [k \in Ks |-> MineAt(games, key, k)]
  OBVIOUS
<1>6. PICK f : f = [k \in Ks |-> rec[k].games]
  OBVIOUS
<1>7. Each(Ks, of, f)
  <2>1. \A k \in Ks : IsFiniteSet(MineAt(games, key, k))
    BY FS_Subset DEF MineAt
  <2> QED BY <1>4, <1>5, <1>6, <2>1 DEF Each
<1>8. All(Ks, of) = games
  <2>1. \A k \in Ks : \A g \in of[k] : g \in games
    BY <1>5 DEF MineAt
  <2>2. \A g \in games : key[g.map] \in Ks /\ g \in of[key[g.map]]
    BY <1>1, <1>5 DEF MineAt, RowsOf
  <2> QED BY <2>1, <2>2 DEF All
<1>9. \A k, l \in Ks : k # l => of[k] \cap of[l] = {}
  BY <1>5 DEF MineAt
<1>10. SumOver(Ks, f) = Cardinality(games)
  BY <1>2, <1>7, <1>8, <1>9, SumOfClasses
<1>11. PICK ow : ow = [k \in Ks |-> WonAt(games, key, k)]
  OBVIOUS
<1>12. PICK w : w = [k \in Ks |-> rec[k].wins]
  OBVIOUS
<1>13. Each(Ks, ow, w)
  <2>1. \A k \in Ks : IsFiniteSet(WonAt(games, key, k))
    BY FS_Subset DEF MineAt, WonAt
  <2> QED BY <1>4, <1>11, <1>12, <2>1 DEF Each
<1>14. All(Ks, ow) = {g \in games : g.won}
  <2>1. \A k \in Ks : \A g \in ow[k] : g \in games /\ g.won
    BY <1>11 DEF MineAt, WonAt
  <2>2. \A g \in games : g.won => key[g.map] \in Ks /\ g \in ow[key[g.map]]
    BY <1>1, <1>11 DEF MineAt, WonAt, RowsOf
  <2> QED BY <2>1, <2>2 DEF All
<1>15. \A k, l \in Ks : k # l => ow[k] \cap ow[l] = {}
  BY <1>11 DEF MineAt, WonAt
<1>16. SumOver(Ks, w) = Cardinality({g \in games : g.won})
  BY <1>2, <1>13, <1>14, <1>15, SumOfClasses
<1> QED BY <1>2, <1>3, <1>6, <1>10, <1>12, <1>16 DEF RecordSums

\* What is inside the classes is no more than the sum over them.
LEMMA InsideClasses ==
    ASSUME NEW Ks, IsFiniteSet(Ks), NEW of, NEW f, Each(Ks, of, f), NEW Rs, Rs \subseteq All(Ks, of)
    PROVE  Cardinality(Rs) <= SumOver(Ks, f)
<1>1. IsFiniteSet(All(Ks, of)) /\ Cardinality(All(Ks, of)) <= SumOver(Ks, f)
  BY SumOfClasses
<1>2. IsFiniteSet(Rs) /\ Cardinality(Rs) <= Cardinality(All(Ks, of))
  BY <1>1, FS_Subset
<1>3. Cardinality(Rs) \in Nat /\ Cardinality(All(Ks, of)) \in Nat
  BY <1>1, <1>2, FS_CardinalityType
<1>4. SumOver(Ks, f) \in Int
  <2>1. Ints(Ks, f)
    BY FS_CardinalityType DEF Ints, Each
  <2> QED BY <2>1, SumAdds
<1> QED BY <1>1, <1>2, <1>3, <1>4

\* No row holds more games, wins or losses than the records of the teams beside it.
LEMMA RecordInside ==
    ASSUME NEW s, IsSeason(s), NEW n, NEW key, NEW rec, rec = RecordOf(s, playerGames(s, n), key),
           NEW k \in DOMAIN rec
    PROVE  /\ rec[k].games <= rec[k].teamGames
           /\ rec[k].wins <= rec[k].teamWins
           /\ rec[k].games - rec[k].wins <= rec[k].teamGames - rec[k].teamWins
<1>1. PICK games : games = playerGames(s, n)
  OBVIOUS
<1>2. PICK Rs : Rs = {r \in RowsFor(s, n) : key[r.g.map] = k}
  OBVIOUS
<1>3. PICK Ws : Ws = {r \in Rs : r.g.winner = r.g.side[n]}
  OBVIOUS
<1>4. PICK Ps : Ps = SpellPlaces(games, key, k)
  OBVIOUS
<1>5. Rs \in SUBSET RowsFor(s, n) /\ Ws \in SUBSET RowsFor(s, n) /\ Ws \subseteq Rs
  BY <1>2, <1>3
<1>6. MineAt(games, key, k) = GamesOfSome(Rs, n)
  BY <1>1, <1>2, GamesAre DEF MineAt, GamesOfSome, PlayedIn
<1>7. WonAt(games, key, k) = GamesOfSome(Ws, n)
  <2>1. \A r \in Rs : PlayedIn(r, n).won <=> r \in Ws
    BY <1>3 DEF PlayedIn
  <2>2. \A g \in WonAt(games, key, k) : \E r \in Ws : g = PlayedIn(r, n)
    BY <1>6, <2>1 DEF WonAt, GamesOfSome
  <2>3. \A r \in Ws : PlayedIn(r, n) \in WonAt(games, key, k)
    BY <1>5, <1>6, <2>1 DEF WonAt, GamesOfSome
  <2> QED BY <2>2, <2>3 DEF GamesOfSome
<1>8. /\ IsFiniteSet(Rs) /\ Cardinality(MineAt(games, key, k)) = Cardinality(Rs)
      /\ IsFiniteSet(Ws) /\ Cardinality(WonAt(games, key, k)) = Cardinality(Ws)
      /\ IsFiniteSet(MineAt(games, key, k))
  BY <1>5, <1>6, <1>7, GamesCount
<1>9. IsFiniteSet(Ps)
  <2>1. PICK f : f = [g \in MineAt(games, key, k) |-> <<g.cid, g.team>>]
    OBVIOUS
  <2>2. Ps = Image(MineAt(games, key, k), f)
    BY <1>4, <2>1 DEF Image, SpellPlaces
  <2> QED BY <1>8, <2>2, ImageOf
<1>10. ASSUME NEW r \in Rs
       PROVE  <<r.m.cid, r.g.side[n]>> \in Ps /\ r \in TeamRows(s, r.m.cid, r.g.side[n], key, k)
  <2>1. PlayedIn(r, n) \in MineAt(games, key, k)
    BY <1>6 DEF GamesOfSome
  <2>2. <<r.m.cid, r.g.side[n]>> \in Ps
    BY <1>4, <2>1 DEF SpellPlaces, PlayedIn
  <2>3. r \in Rows(s) /\ n \in DOMAIN r.g.side /\ key[r.g.map] = k
    BY <1>2 DEF RowsFor
  <2>4. r.g.side[n] \in TeamsIn(r)
    BY <2>3 DEF TeamsIn
  <2> QED BY <2>2, <2>3, <2>4 DEF TeamRows
<1>11. PICK of : of = [p \in Ps |-> TeamRows(s, p[1], p[2], key, k)]
  OBVIOUS
<1>12. PICK ow : ow = [p \in Ps |-> TeamWon(s, p[1], p[2], key, k)]
  OBVIOUS
<1>13. PICK ol : ol = [p \in Ps |-> of[p] \ ow[p]]
  OBVIOUS
<1>14. PICK f : f = TheirGames(s, games, key, k)
  OBVIOUS
<1>15. PICK w : w = TheirWins(s, games, key, k)
  OBVIOUS
<1>16. PICK l : l = [p \in Ps |-> f[p] - w[p]]
  OBVIOUS
<1>17. ASSUME NEW p \in Ps
       PROVE  /\ IsFiniteSet(of[p]) /\ f[p] = Cardinality(of[p])
              /\ IsFiniteSet(ow[p]) /\ w[p] = Cardinality(ow[p])
              /\ IsFiniteSet(ol[p]) /\ l[p] = Cardinality(ol[p])
  <2>1. IsFiniteSet(of[p]) /\ f[p] = Cardinality(of[p])
    <3>1. f[p] = teamRecords(s, p[1], p[2], key, k).games
      BY <1>4, <1>14 DEF TheirGames
    <3>2. of[p] = TeamRows(s, p[1], p[2], key, k)
      BY <1>11
    <3>3. PICK c, t : c = p[1] /\ t = p[2]
      OBVIOUS
    <3>4. /\ IsFiniteSet(TeamRows(s, c, t, key, k))
          /\ teamRecords(s, c, t, key, k).games = Cardinality(TeamRows(s, c, t, key, k))
      BY TeamRecordsAre
    <3> QED BY <3>1, <3>2, <3>3, <3>4
  <2>2. w[p] = Cardinality(ow[p])
    BY <1>4, <1>12, <1>15, TeamRecordsAre DEF TheirWins
  <2>3. ow[p] \subseteq of[p]
    BY <1>11, <1>12 DEF TeamWon
  <2>4. IsFiniteSet(ow[p])
    BY <2>1, <2>3, FS_Subset
  <2>5. of[p] \cap ow[p] = ow[p]
    BY <2>3
  <2>6. IsFiniteSet(of[p] \ ow[p])
        /\ Cardinality(of[p] \ ow[p]) = Cardinality(of[p]) - Cardinality(of[p] \cap ow[p])
    BY <2>1, FS_Difference
  <2>7. IsFiniteSet(ol[p]) /\ l[p] = Cardinality(ol[p])
    BY <1>13, <1>16, <2>1, <2>2, <2>5, <2>6
  <2> QED BY <2>1, <2>2, <2>4, <2>7
<1>18. Each(Ps, of, f) /\ Each(Ps, ow, w) /\ Each(Ps, ol, l)
  BY <1>17 DEF Each
<1>19. Rs \subseteq All(Ps, of) /\ Ws \subseteq All(Ps, ow) /\ Rs \ Ws \subseteq All(Ps, ol)
  <2>1. ASSUME NEW r \in Rs
        PROVE  \E p \in Ps : /\ r \in of[p]
                             /\ r \in Ws => r \in ow[p]
                             /\ r \notin Ws => r \in ol[p]
    <3>1. PICK p \in Ps : p = <<r.m.cid, r.g.side[n]>> /\ r \in TeamRows(s, p[1], p[2], key, k)
      BY <1>10
    <3>2. r \in Ws <=> r.g.winner = p[2]
      BY <1>3, <3>1
    <3>3. r \in of[p] /\ (r \in ow[p] <=> r.g.winner = p[2])
      BY <1>11, <1>12, <3>1 DEF TeamWon
    <3> QED BY <1>13, <3>2, <3>3
  <2> QED BY <1>5, <2>1 DEF All
<1>20. /\ Cardinality(Rs) <= SumOver(Ps, f) /\ Cardinality(Ws) <= SumOver(Ps, w)
       /\ Cardinality(Rs \ Ws) <= SumOver(Ps, l)
  BY <1>9, <1>18, <1>19, InsideClasses
<1>21. SumOver(Ps, l) = SumOver(Ps, f) - SumOver(Ps, w)
  <2>1. Ints(Ps, f) /\ Ints(Ps, w)
    BY <1>17, FS_CardinalityType DEF Ints
  <2> QED BY <1>9, <1>16, <2>1, SumsSubtract
<1>22. Cardinality(Rs \ Ws) = Cardinality(Rs) - Cardinality(Ws)
  <2>1. Rs \cap Ws = Ws
    BY <1>5
  <2> QED BY <1>8, <2>1, FS_Difference
<1>23. /\ rec[k].games = Cardinality(Rs) /\ rec[k].wins = Cardinality(Ws)
       /\ rec[k].teamGames = SumOver(Ps, f) /\ rec[k].teamWins = SumOver(Ps, w)
  <2>1. k \in RowsOf(games, key)
    BY <1>1, RecordIs
  <2>2. rec[k] = [games |-> Cardinality(MineAt(games, key, k)), wins |-> Cardinality(WonAt(games, key, k)),
                   teamGames |-> SumOver(SpellPlaces(games, key, k), TheirGames(s, games, key, k)),
                   teamWins |-> SumOver(SpellPlaces(games, key, k), TheirWins(s, games, key, k))]
    BY <1>1, <2>1, RecordIs
  <2> QED BY <1>4, <1>8, <1>14, <1>15, <2>2
<1> QED BY <1>20, <1>21, <1>22, <1>23

-----------------------------------------------------------------------------
(* The games the rosters name a player in, the spells, the heroes, the sheet *)

NamedIn(s, n) ==
    UNION {{<<m.id, g.no>> : g \in {h \in m.games : h.map # Unplayed /\ n \in DOMAIN h.side}}
             : m \in {l \in s : l.finished}}

\* A player's games are finitely many, as many as the rosters name the player in.
LEMMA GamesNamed ==
    ASSUME NEW s, IsSeason(s), NEW n
    PROVE  /\ IsFiniteSet(playerGames(s, n)) /\ Cardinality(playerGames(s, n)) = Cardinality(NamedIn(s, n))
           /\ NamedIn(s, n) = {} <=> playerGames(s, n) = {}
           /\ \A x \in playerGames(s, n) : x.id \in Int /\ x.no \in Int
           /\ \A x, y \in playerGames(s, n) : x.id = y.id /\ x.no = y.no => x = y
<1>1. PICK rs : rs = RowsFor(s, n)
  OBVIOUS
<1>2. rs \in SUBSET RowsFor(s, n) /\ rs \in SUBSET Rows(s)
  BY <1>1 DEF RowsFor
<1>3. playerGames(s, n) = GamesOfSome(rs, n)
  BY <1>1, GamesAre DEF GamesOfSome
<1>4. IsFiniteSet(rs) /\ IsFiniteSet(playerGames(s, n)) /\ Cardinality(playerGames(s, n)) = Cardinality(rs)
  BY <1>2, <1>3, GamesCount
<1>5. PICK f : f = [r \in rs |-> PickOf(r)]
  OBVIOUS
<1>6. Image(rs, f) = NamedIn(s, n)
  <2>1. ASSUME NEW r \in rs PROVE f[r] \in NamedIn(s, n)
    <3>1. r.m \in s /\ r.m.finished /\ r.g \in r.m.games /\ r.g.map # Unplayed /\ n \in DOMAIN r.g.side
      BY <1>1, <1>2, RowsAre DEF RowsFor
    <3>2. f[r] = <<r.m.id, r.g.no>>
      BY <1>5 DEF PickOf
    <3>3. PICK m \in {l \in s : l.finished} : m = r.m
      BY <3>1
    <3>4. f[r] \in {<<m.id, g.no>> : g \in {h \in m.games : h.map # Unplayed /\ n \in DOMAIN h.side}}
      BY <3>1, <3>2, <3>3
    <3> QED BY <3>4 DEF NamedIn
  <2>2. ASSUME NEW x \in NamedIn(s, n) PROVE x \in Image(rs, f)
    <3>1. PICK m \in {l \in s : l.finished} :
            x \in {<<m.id, g.no>> : g \in {h \in m.games : h.map # Unplayed /\ n \in DOMAIN h.side}}
      BY <2>2 DEF NamedIn
    <3>2. PICK g \in m.games : g.map # Unplayed /\ n \in DOMAIN g.side /\ x = <<m.id, g.no>>
      BY <3>1
    <3>3. PICK r : r = [m |-> m, g |-> g]
      OBVIOUS
    <3>4. r \in Rows(s)
      <4>1. PICK ms : ms = {l \in s : l.finished}
        OBVIOUS
      <4>2. m \in ms
        BY <4>1
      <4>3. r \in MapGames(ms)
        BY <3>2, <3>3, <4>2, MapGamesAre
      <4> QED BY <4>1, <4>3 DEF Rows
    <3>5. r \in rs
      BY <1>1, <3>2, <3>3, <3>4 DEF RowsFor
    <3>6. f[r] = x
      BY <1>5, <3>2, <3>3, <3>5 DEF PickOf
    <3> QED BY <3>5, <3>6 DEF Image
  <2>3. \A x \in Image(rs, f) : \E r \in rs : x = f[r]
    BY DEF Image
  <2> QED BY <2>1, <2>2, <2>3
<1>7. ASSUME NEW q \in rs, NEW r \in rs, f[q] = f[r] PROVE q = r
  <2>1. q.m.id = r.m.id /\ q.g.no = r.g.no
    BY <1>5, <1>7 DEF PickOf
  <2> QED BY <1>2, <2>1, RowsAre
<1>8. Cardinality(NamedIn(s, n)) = Cardinality(rs)
  BY <1>4, <1>6, <1>7, ImageOf
<1>9. NamedIn(s, n) = {} <=> playerGames(s, n) = {}
  BY <1>3, <1>6 DEF Image, GamesOfSome
<1>10. ASSUME NEW x \in playerGames(s, n)
       PROVE  \E r \in rs : x = PlayedIn(r, n) /\ x.id = r.m.id /\ x.no = r.g.no /\ r.m.id \in Int /\ r.g.no \in Int
  <2>1. PICK r \in rs : x = PlayedIn(r, n)
    BY <1>3 DEF GamesOfSome
  <2>2. r.m \in s /\ IsGame(r.m, r.g)
    BY <1>2, RowsAre
  <2>3. r.m.id \in Int /\ r.g.no \in Int
    BY <2>2 DEF IsSeason, IsGame
  <2> QED BY <2>1, <2>3 DEF PlayedIn
<1>11. ASSUME NEW x \in playerGames(s, n), NEW y \in playerGames(s, n), x.id = y.id, x.no = y.no
       PROVE  x = y
  <2>1. PICK q \in rs : x = PlayedIn(q, n) /\ x.id = q.m.id /\ x.no = q.g.no
    BY <1>10
  <2>2. PICK r \in rs : y = PlayedIn(r, n) /\ y.id = r.m.id /\ y.no = r.g.no
    BY <1>10
  <2>3. q = r
    BY <1>2, <1>11, <2>1, <2>2, RowsAre
  <2> QED BY <2>1, <2>2, <2>3
<1> QED BY <1>4, <1>8, <1>9, <1>10, <1>11

\* The spell of a game, and the games of a spell.
OfSpell(games, x) == {g \in games : g.cid = x.cid /\ g.team = x.team}
IdsOf(games, x) == {g.id : g \in OfSpell(games, x)}
SpellOf(games, x) ==
    [cid |-> x.cid, team |-> x.team, games |-> Cardinality(OfSpell(games, x)),
     first |-> Min(IdsOf(games, x)), last |-> Max(IdsOf(games, x))]

\* The spells are those of the games, finitely many, and their games add up.
LEMMA SpellsAdd ==
    ASSUME NEW games, IsFiniteSet(games)
    PROVE  /\ playerSpells(games) = {SpellOf(games, x) : x \in games}
           /\ IsFiniteSet(playerSpells(games))
           /\ SumOver(playerSpells(games), [x \in playerSpells(games) |-> x.games]) = Cardinality(games)
<1>1. PICK Ks : Ks = playerSpells(games)
  OBVIOUS
<1>2. Ks = {SpellOf(games, x) : x \in games}
  BY <1>1 DEF playerSpells, SpellOf, IdsOf, OfSpell
<1>3. IsFiniteSet(Ks)
  <2>1. PICK f : f = [x \in games |-> SpellOf(games, x)]
    OBVIOUS
  <2>2. Ks = Image(games, f)
    BY <1>2, <2>1 DEF Image
  <2> QED BY <2>2, ImageOf
<1>4. PICK of : of = [x \in Ks |-> OfSpell(games, x)]
  OBVIOUS
<1>5. PICK f : f = [x \in Ks |-> x.games]
  OBVIOUS
<1>6. ASSUME NEW g, NEW x, g.cid = x.cid, g.team = x.team
      PROVE  OfSpell(games, g) = OfSpell(games, x) /\ SpellOf(games, g) = SpellOf(games, x)
  <2>1. OfSpell(games, g) = OfSpell(games, x)
    BY <1>6 DEF OfSpell
  <2> QED BY <1>6, <2>1 DEF SpellOf, IdsOf
<1>7. ASSUME NEW x \in Ks
      PROVE  of[x] = OfSpell(games, x) /\ x = SpellOf(games, x) /\ IsFiniteSet(of[x]) /\ f[x] = Cardinality(of[x])
  <2>1. PICK g \in games : x = SpellOf(games, g)
    BY <1>2
  <2>2. x.cid = g.cid /\ x.team = g.team /\ x.games = Cardinality(OfSpell(games, g))
    BY <2>1 DEF SpellOf
  <2>3. OfSpell(games, g) = OfSpell(games, x) /\ SpellOf(games, g) = SpellOf(games, x)
    BY <1>6, <2>2
  <2>4. IsFiniteSet(OfSpell(games, x))
    BY FS_Subset DEF OfSpell
  <2> QED BY <1>4, <1>5, <2>1, <2>2, <2>3, <2>4
<1>8. Each(Ks, of, f)
  BY <1>7 DEF Each
<1>9. All(Ks, of) = games
  <2>1. \A x \in Ks : \A g \in of[x] : g \in games
    BY <1>4 DEF OfSpell
  <2>2. ASSUME NEW g \in games PROVE \E x \in Ks : g \in of[x]
    <3>1. SpellOf(games, g) \in Ks
      BY <1>2
    <3>2. PICK x \in Ks : x = SpellOf(games, g)
      BY <3>1
    <3>3. x.cid = g.cid /\ x.team = g.team
      BY <3>2 DEF SpellOf
    <3> QED BY <1>4, <3>3 DEF OfSpell
  <2> QED BY <2>1, <2>2 DEF All
<1>10. ASSUME NEW x \in Ks, NEW y \in Ks, x # y PROVE of[x] \cap of[y] = {}
  <2>1. SUFFICES ASSUME NEW g, g \in of[x], g \in of[y] PROVE FALSE
    OBVIOUS
  <2>2. x.cid = y.cid /\ x.team = y.team
    BY <1>4, <2>1 DEF OfSpell
  <2>3. SpellOf(games, x) = SpellOf(games, y)
    BY <1>6, <2>2
  <2> QED BY <1>7, <1>10, <2>3
<1>11. SumOver(Ks, f) = Cardinality(games)
  BY <1>3, <1>8, <1>9, <1>10, SumOfClasses
<1> QED BY <1>1, <1>2, <1>3, <1>5, <1>11

\* No hero wins more than it was played, nor was played in more games than there are.
LEMMA HeroesInside ==
    ASSUME NEW s, IsSeason(s), NEW n, NEW heroes, heroes = playerHeroPool(s, n), NEW h \in DOMAIN heroes
    PROVE  heroes[h].wins <= heroes[h].games /\ heroes[h].games <= Cardinality(NamedIn(s, n))
<1>1. PICK games : games = playerGames(s, n)
  OBVIOUS
<1>2. PICK on : on = {g \in games : g.hero = h}
  OBVIOUS
<1>3. PICK won : won = {g \in games : g.won}
  OBVIOUS
<1>4. heroes[h] = [games |-> Cardinality(on), wins |-> Cardinality(on \cap won)]
  BY <1>1, <1>2, <1>3 DEF playerHeroPool, Tally
<1>5. IsFiniteSet(games) /\ Cardinality(games) = Cardinality(NamedIn(s, n))
  BY <1>1, GamesNamed
<1>6. IsFiniteSet(on) /\ Cardinality(on) <= Cardinality(games)
  BY <1>2, <1>5, FS_Subset
<1>7. Cardinality(on \cap won) <= Cardinality(on)
  BY <1>6, FS_Subset
<1> QED BY <1>4, <1>5, <1>6, <1>7

\* The maps of a team by its matches.
SheetRows(s, t, mp) == {r \in Rows(s) : t \in {r.m.f1, r.m.f2} /\ r.g.map = mp}

\* The sheet of a team adds up the records it has in the divisions.
LEMMA SheetAdds ==
    ASSUME NEW s, IsSeason(s), NEW t, NEW mp \in DOMAIN CategoryOf, NEW sheet, sheet = scoutData(s, Divisions(s), t, mp)
    PROVE  /\ sheet.games = SumOver(Divisions(s), [c \in Divisions(s) |-> teamRecords(s, c, t, MapKey, mp).games])
           /\ sheet.wins = SumOver(Divisions(s), [c \in Divisions(s) |-> teamRecords(s, c, t, MapKey, mp).wins])
<1>1. PICK Ds : Ds = Divisions(s)
  OBVIOUS
<1>2. PICK ms : ms = {m \in s : m.finished}
  OBVIOUS
<1>3. PICK ls : ls = UNION {leagueMatches(s, c) : c \in Ds}
  OBVIOUS
<1>4. ls = ms
  <2>1. ASSUME NEW m \in ls PROVE m \in ms
    <3>1. PICK c \in Ds : m \in leagueMatches(s, c)
      BY <1>3
    <3> QED BY <1>2, <3>1 DEF leagueMatches
  <2>2. ASSUME NEW m \in ms PROVE m \in ls
    <3>1. PICK c \in Ds : c = m.cid
      BY <1>1, <1>2 DEF Divisions
    <3>2. m \in leagueMatches(s, c)
      BY <1>2, <3>1 DEF leagueMatches
    <3> QED BY <1>3, <3>2
  <2> QED BY <2>1, <2>2
<1>5. PICK rs : rs = {r \in MapGames(ls) : t \in {r.m.f1, r.m.f2} /\ r.g.map = mp}
  OBVIOUS
<1>6. rs = SheetRows(s, t, mp)
  BY <1>2, <1>4, <1>5 DEF SheetRows, Rows
<1>7. sheet = [games |-> Cardinality(rs), wins |-> Cardinality(rs \cap WonRows(rs, t))]
  BY <1>1, <1>3, <1>5 DEF scoutData, mapStats, Tally
<1>8. PICK ws : ws = {r \in rs : r.g.winner = t}
  OBVIOUS
<1>9. rs \cap WonRows(rs, t) = ws
  BY <1>8 DEF WonRows
<1>10. IsFiniteSet(Ds)
  <2>1. PICK f : f = [m \in s |-> m.cid]
    OBVIOUS
  <2>2. Ds = Image(s, f)
    BY <1>1, <2>1 DEF Image, Divisions
  <2> QED BY <2>2, ImageOf DEF IsSeason
<1>11. PICK of : of = [c \in Ds |-> TeamRows(s, c, t, MapKey, mp)]
  OBVIOUS
<1>12. PICK ow : ow = [c \in Ds |-> TeamWon(s, c, t, MapKey, mp)]
  OBVIOUS
<1>13. PICK f : f = [c \in Ds |-> teamRecords(s, c, t, MapKey, mp).games]
  OBVIOUS
<1>14. PICK w : w = [c \in Ds |-> teamRecords(s, c, t, MapKey, mp).wins]
  OBVIOUS
<1>15. Each(Ds, of, f) /\ Each(Ds, ow, w)
  <2> SUFFICES ASSUME NEW c \in Ds
               PROVE  /\ IsFiniteSet(of[c]) /\ f[c] = Cardinality(of[c])
                      /\ IsFiniteSet(ow[c]) /\ w[c] = Cardinality(ow[c])
    BY DEF Each
  <2>1. /\ IsFiniteSet(TeamRows(s, c, t, MapKey, mp))
        /\ teamRecords(s, c, t, MapKey, mp).games = Cardinality(TeamRows(s, c, t, MapKey, mp))
        /\ teamRecords(s, c, t, MapKey, mp).wins = Cardinality(TeamWon(s, c, t, MapKey, mp))
    BY TeamRecordsAre
  <2>2. IsFiniteSet(TeamWon(s, c, t, MapKey, mp))
    BY <2>1, FS_Subset DEF TeamWon
  <2> QED BY <1>11, <1>12, <1>13, <1>14, <2>1, <2>2
<1>16. ASSUME NEW r \in Rows(s)
       PROVE  /\ r.m.cid \in Ds
              /\ \A c \in Ds : r \in of[c] <=> r.m.cid = c /\ r \in rs
              /\ \A c \in Ds : r \in ow[c] <=> r.m.cid = c /\ r \in ws
  <2>1. r.m \in s /\ IsGame(r.m, r.g) /\ r.g.map # Unplayed
    BY RowsAre
  <2>2. r.m.cid \in Ds
    BY <1>1, <2>1 DEF Divisions
  <2>3. TeamsIn(r) = {r.m.f1, r.m.f2} /\ MapKey[r.g.map] = r.g.map
    BY <2>1 DEF IsGame, TeamsIn, MapKey
  <2>4. r \in rs <=> t \in TeamsIn(r) /\ MapKey[r.g.map] = mp
    BY <1>6, <2>3 DEF SheetRows
  <2>5. \A c \in Ds : r \in of[c] <=> r.m.cid = c /\ r \in rs
    BY <1>11, <2>4 DEF TeamRows
  <2>6. \A c \in Ds : r \in ow[c] <=> r \in of[c] /\ r.g.winner = t
    BY <1>11, <1>12 DEF TeamWon
  <2> QED BY <1>8, <2>2, <2>5, <2>6
<1>17. All(Ds, of) = rs /\ All(Ds, ow) = ws
  <2>1. \A c \in Ds : of[c] \subseteq Rows(s) /\ ow[c] \subseteq Rows(s)
    BY <1>11, <1>12 DEF TeamRows, TeamWon
  <2>2. rs \subseteq Rows(s) /\ ws \subseteq rs
    BY <1>6, <1>8 DEF SheetRows
  <2> QED BY <1>16, <2>1, <2>2 DEF All
<1>18. \A c, d \in Ds : c # d => of[c] \cap of[d] = {} /\ ow[c] \cap ow[d] = {}
  <2>1. \A c \in Ds : \A r \in of[c] : r.m.cid = c
    BY <1>11 DEF TeamRows
  <2>2. \A c \in Ds : \A r \in ow[c] : r.m.cid = c
    BY <1>12 DEF TeamRows, TeamWon
  <2> QED BY <2>1, <2>2
<1>19. SumOver(Ds, f) = Cardinality(rs) /\ SumOver(Ds, w) = Cardinality(ws)
  BY <1>10, <1>15, <1>17, <1>18, SumOfClasses
<1>20. sheet.games = SumOver(Ds, f) /\ sheet.wins = SumOver(Ds, w)
  BY <1>7, <1>9, <1>19
<1> QED BY <1>1, <1>13, <1>14, <1>20

-----------------------------------------------------------------------------
(* A player's page *)

\* Of finitely many things one has the largest number, and one the least.
LEMMA MostOf ==
    ASSUME NEW Xs, IsFiniteSet(Xs), Xs # {}, NEW f, Ints(Xs, f)
    PROVE  /\ \E x \in Xs : \A y \in Xs : f[y] <= f[x]
           /\ \E x \in Xs : \A y \in Xs : f[x] <= f[y]
<1> DEFINE Most(Rs) == \E x \in Rs : \A y \in Rs : f[y] <= f[x]
           Least(Rs) == \E x \in Rs : \A y \in Rs : f[x] <= f[y]
           Good == {Rs \in SUBSET Xs : Rs = {} \/ (Most(Rs) /\ Least(Rs))}
<1>1. {} \in Good
  OBVIOUS
<1>2. ASSUME NEW Rs \in SUBSET Xs, NEW x \in Xs \ Rs, Rs \in Good
      PROVE  Rs \cup {x} \in Good
  <2>1. CASE Rs = {}
    <3>1. f[x] <= f[x]
      BY DEF Ints
    <3> QED BY <2>1, <3>1
  <2>2. CASE Rs # {}
    <3>1. PICK a \in Rs : \A y \in Rs : f[y] <= f[a]
      BY <1>2, <2>2
    <3>2. PICK b \in Rs : \A y \in Rs : f[b] <= f[y]
      BY <1>2, <2>2
    <3>3. f[x] \in Int /\ f[a] \in Int /\ f[b] \in Int /\ \A y \in Rs : f[y] \in Int
      BY DEF Ints
    <3>4. Most(Rs \cup {x})
      <4>1. CASE f[x] <= f[a]
        BY <3>1, <4>1
      <4>2. CASE ~(f[x] <= f[a])
        <5>1. \A y \in Rs \cup {x} : f[y] <= f[x]
          BY <3>1, <3>3, <4>2
        <5> QED BY <5>1
      <4> QED BY <4>1, <4>2
    <3>5. Least(Rs \cup {x})
      <4>1. CASE f[b] <= f[x]
        BY <3>2, <4>1
      <4>2. CASE ~(f[b] <= f[x])
        <5>1. \A y \in Rs \cup {x} : f[x] <= f[y]
          BY <3>2, <3>3, <4>2
        <5> QED BY <5>1
      <4> QED BY <4>1, <4>2
    <3> QED BY <3>4, <3>5
  <2> QED BY <2>1, <2>2
<1>3. Xs \in Good
  <2> HIDE DEF Good
  <2> QED BY <1>1, <1>2, OneByOne
<1> QED BY <1>3

\* Games of a season: finitely many, told apart by their numbers.
AreGames(games) ==
    /\ IsFiniteSet(games)
    /\ \A x \in games : x.id \in Int /\ x.no \in Int
    /\ \A x, y \in games : x.id = y.id /\ x.no = y.no => x = y

\* The list of the games has each once, the newest first.
LEMMA SortedGames ==
    ASSUME NEW games, AreGames(games), NEW list, list = Sorted(games)
    PROVE  /\ Cardinality(games) \in Nat
           /\ list \in [1..Cardinality(games) -> games]
           /\ \A x \in games : \E i \in 1..Cardinality(games) : list[i] = x
           /\ \A i, j \in 1..Cardinality(games) : i <= j => list[j].id <= list[i].id
<1>1. PICK order : order = {e \in games \X games : NewerMap(e[1], e[2])}
  OBVIOUS
<1>2. \A x, y \in games : <<x, y>> \in order <=> NewerMap(x, y)
  BY <1>1
<1>3. Orders(order, games)
  <2>1. \A x, y \in games : NewerMap(x, y) <=> x.id > y.id \/ (x.id = y.id /\ x.no < y.no)
    BY DEF NewerMap
  <2>2. \A x \in games : x.id \in Int /\ x.no \in Int
    BY DEF AreGames
  <2>3. \A x \in games : ~NewerMap(x, x)
    BY <2>1, <2>2
  <2>4. ASSUME NEW x \in games, NEW y \in games, NEW z \in games, NewerMap(x, y), NewerMap(y, z) PROVE NewerMap(x, z)
    <3>1. /\ x.id > y.id \/ (x.id = y.id /\ x.no < y.no)
          /\ y.id > z.id \/ (y.id = z.id /\ y.no < z.no)
      BY <2>1, <2>4
    <3>2. x.id > z.id \/ (x.id = z.id /\ x.no < z.no)
      BY <2>2, <3>1
    <3> QED BY <2>1, <3>2
  <2>5. ASSUME NEW x \in games, NEW y \in games PROVE x = y \/ NewerMap(x, y) \/ NewerMap(y, x)
    <3>1. CASE x.id = y.id /\ x.no = y.no
      BY <3>1 DEF AreGames
    <3>2. CASE ~(x.id = y.id /\ x.no = y.no)
      BY <2>1, <2>2, <3>2
    <3> QED BY <3>1, <3>2
  <2> QED BY <1>2, <2>3, <2>4, <2>5 DEF Orders
<1>4. ASSUME NEW x \in games
      PROVE  Cardinality({y \in games : NewerMap(y, x)}) = NoBefore(order, games, x)
  <2>1. {y \in games : NewerMap(y, x)} = {y \in games : <<y, x>> \in order}
    BY <1>2
  <2> QED BY <2>1 DEF NoBefore
<1>5. Lists(order, games, list)
  <2>1. PICK other : other = [n \in 1..Cardinality(games) |-> CHOOSE x \in games : NoBefore(order, games, x) = n - 1]
    OBVIOUS
  <2>2. [n \in 1..Cardinality(games) |-> CHOOSE x \in games : Cardinality({y \in games : NewerMap(y, x)}) = n - 1]
          = other
    BY <1>4, <2>1
  <2>3. list = other
    BY <2>2 DEF Sorted
  <2> QED BY <1>3, <2>1, <2>3 DEF Lists
<1>6. IsFiniteSet(games)
  BY DEF AreGames
<1>7. /\ Cardinality(games) \in Nat
      /\ list \in [1..Cardinality(games) -> games]
      /\ \A x \in games : \E i \in 1..Cardinality(games) : list[i] = x
      /\ \A i, j \in 1..Cardinality(games) : <<list[i], list[j]>> \in order => i < j
  BY <1>5, <1>6, Listed
<1>8. ASSUME NEW i \in 1..Cardinality(games), NEW j \in 1..Cardinality(games), i <= j
      PROVE  list[j].id <= list[i].id
  <2>1. list[i] \in games /\ list[j] \in games
    BY <1>7
  <2>2. ~NewerMap(list[j], list[i])
    <3>1. ~(j < i)
      BY <1>7, <1>8
    <3> QED BY <1>2, <1>7, <2>1, <3>1
  <2>3. list[i].id \in Int /\ list[j].id \in Int
    BY <2>1 DEF AreGames
  <2> QED BY <2>2, <2>3 DEF NewerMap
<1> QED BY <1>7, <1>8

\* The newest of them: all there are, or ten.
RecentOf(games) == Recent(Sorted(games))

\* A list of what is not newer than the first and not older than what it leaves out.
LEMMA RecentGames ==
    ASSUME NEW games, AreGames(games), NEW latest, latest = RecentOf(games)
    PROVE  /\ games = {} => latest = <<>>
           /\ games # {} => latest[1] \in games /\ \A g \in games : g.id <= latest[1].id
           /\ \A g \in games \ Range(latest) : Len(latest) = 10 /\ \A r \in Range(latest) : r.id >= g.id
<1>1. PICK list : list = Sorted(games)
  OBVIOUS
<1>2. PICK N : N = Cardinality(games)
  OBVIOUS
<1>3. /\ N \in Nat /\ list \in [1..N -> games]
      /\ \A x \in games : \E i \in 1..N : list[i] = x
      /\ \A i, j \in 1..N : i <= j => list[j].id <= list[i].id
  BY <1>1, <1>2, SortedGames
<1>4. list \in Seq(games) /\ Len(list) = N
  BY <1>3
<1>5. PICK k : k = IF N < 10 THEN N ELSE 10
  OBVIOUS
<1>6. k \in 0..N /\ k <= 10 /\ k = Min({10, N})
  <2>1. k \in {10, N} /\ \A y \in {10, N} : k <= y
    BY <1>3, <1>5
  <2>2. \A x \in {10, N} : (\A y \in {10, N} : x <= y) => x = k
    BY <1>3, <1>5
  <2>3. Min({10, N}) = k
    BY <2>1, <2>2 DEF Min
  <2> QED BY <1>3, <1>5, <2>3
<1>7. latest = SubSeq(list, 1, k)
  BY <1>1, <1>4, <1>6 DEF RecentOf, Recent
<1>8. /\ Len(latest) = k /\ DOMAIN latest = 1..k /\ \A i \in 1..k : latest[i] = list[i]
  <2>1. k \in Nat /\ k <= Len(list) /\ \A i \in 1..k : i \in Nat /\ i >= 1 /\ i <= k
    BY <1>3, <1>4, <1>6
  <2>2. latest = [i \in 1..k |-> list[i]]
    BY <1>4, <1>7, <2>1
  <2> QED BY <2>1, <2>2
<1>9. ASSUME games = {} PROVE latest = <<>>
  <2>1. N = 0
    BY <1>2, <1>9, FS_EmptySet
  <2>2. k = 0
    BY <1>5, <2>1
  <2> QED BY <1>3, <1>4, <1>7, <2>2
<1>10. ASSUME games # {} PROVE latest[1] \in games /\ \A g \in games : g.id <= latest[1].id
  <2>1. N # 0
    BY <1>3, <1>10
  <2>2. 1 \in 1..k /\ 1 \in 1..N
    BY <1>3, <1>5, <2>1
  <2>3. latest[1] = list[1] /\ list[1] \in games
    BY <1>3, <1>8, <2>2
  <2>4. ASSUME NEW g \in games PROVE g.id <= list[1].id
    <3>1. PICK i \in 1..N : list[i] = g
      BY <1>3
    <3>2. 1 <= i
      BY <1>3
    <3> QED BY <1>3, <2>2, <3>1, <3>2
  <2> QED BY <2>3, <2>4
<1>11. ASSUME NEW g \in games, g \notin Range(latest)
       PROVE  Len(latest) = 10 /\ \A r \in Range(latest) : r.id >= g.id
  <2>1. PICK i \in 1..N : list[i] = g
    BY <1>3
  <2>2. i \notin 1..k
    BY <1>8, <1>11, <2>1 DEF Range
  <2>3. k < i /\ k = 10
    BY <1>3, <1>5, <2>2
  <2>4. ASSUME NEW r \in Range(latest) PROVE r.id >= g.id
    <3>1. PICK j \in 1..k : r = list[j]
      BY <1>8 DEF Range
    <3>2. j \in 1..N /\ j <= i
      BY <1>3, <1>6, <2>3
    <3>3. g.id <= r.id
      BY <1>3, <2>1, <3>1, <3>2
    <3>4. g.id \in Int /\ r.id \in Int
      <4>1. r \in games
        BY <1>3, <3>1, <3>2
      <4> QED BY <4>1 DEF AreGames
    <3> QED BY <3>3, <3>4
  <2> QED BY <1>8, <2>3, <2>4
<1> QED BY <1>9, <1>10, <1>11

\* A spell goes from the first of its games to the last.
LEMMA SpellIs ==
    ASSUME NEW games, AreGames(games), NEW x \in games, NEW y, y = SpellOf(games, x)
    PROVE  /\ y.cid = x.cid /\ y.team = x.team /\ y.first \in Int /\ y.last \in Int /\ y.first <= y.last
           /\ x.id <= y.last
           /\ \E g \in games : g.team = y.team /\ g.id = y.last
<1>1. PICK Rs : Rs = OfSpell(games, x)
  OBVIOUS
<1>2. PICK ids : ids = IdsOf(games, x)
  OBVIOUS
<1>3. IsFiniteSet(Rs) /\ x \in Rs /\ Rs \subseteq games
  BY <1>1, FS_Subset DEF OfSpell, AreGames
<1>4. PICK f : f = [g \in Rs |-> g.id]
  OBVIOUS
<1>5. Ints(Rs, f)
  BY <1>3, <1>4 DEF Ints, AreGames
<1>6. ids = {f[g] : g \in Rs}
  BY <1>1, <1>2, <1>4 DEF IdsOf
<1>7. PICK a \in Rs : \A g \in Rs : f[g] <= f[a]
  BY <1>3, <1>5, MostOf
<1>8. PICK b \in Rs : \A g \in Rs : f[b] <= f[g]
  BY <1>3, <1>5, MostOf
<1>9. ids \subseteq Int /\ f[a] \in ids /\ f[b] \in ids /\ (\A i \in ids : i <= f[a]) /\ \A i \in ids : f[b] <= i
  BY <1>5, <1>6, <1>7, <1>8 DEF Ints
<1>10. Max(ids) = f[a]
  <2>1. ASSUME NEW i \in ids, \A j \in ids : i >= j PROVE i = f[a]
    <3>1. i \in Int /\ f[a] \in Int /\ i <= f[a] /\ i >= f[a]
      BY <1>9, <2>1
    <3> QED BY <3>1
  <2>2. \A j \in ids : f[a] >= j
    BY <1>9
  <2> QED BY <1>9, <2>1, <2>2 DEF Max
<1>11. Min(ids) = f[b]
  <2>1. ASSUME NEW i \in ids, \A j \in ids : i <= j PROVE i = f[b]
    <3>1. i \in Int /\ f[b] \in Int /\ f[b] <= i /\ i <= f[b]
      BY <1>9, <2>1
    <3> QED BY <3>1
  <2> QED BY <1>9, <2>1 DEF Min
<1>12. y.cid = x.cid /\ y.team = x.team /\ y.first = f[b] /\ y.last = f[a]
  BY <1>2, <1>10, <1>11 DEF SpellOf
<1>13. a \in games /\ a.team = x.team /\ f[a] = a.id /\ f[x] = x.id
  BY <1>1, <1>3, <1>4 DEF OfSpell
<1> QED BY <1>3, <1>7, <1>9, <1>12, <1>13

\* The spell a player is in is one that saw the last match, for a team of that match.
LEMMA CurrentSpell ==
    ASSUME NEW games, AreGames(games), games # {}, NEW c, c = currentSpell(playerSpells(games))
    PROVE  \E g \in games : g.team = c.team /\ \A h \in games : h.id <= g.id
<1>1. PICK Ks : Ks = playerSpells(games)
  OBVIOUS
<1>2. Ks = {SpellOf(games, x) : x \in games} /\ IsFiniteSet(Ks)
  BY <1>1, SpellsAdd DEF AreGames
<1>3. ASSUME NEW y \in Ks
      PROVE  /\ y.first \in Int /\ y.last \in Int
             /\ \E g \in games : g.team = y.team /\ g.id = y.last
  <2>1. PICK x \in games : y = SpellOf(games, x)
    BY <1>2
  <2> QED BY <2>1, SpellIs
<1>4. PICK lasts : lasts = {x \in Ks : \A y \in Ks : x.last >= y.last}
  OBVIOUS
<1>5. lasts # {} /\ lasts \subseteq Ks /\ IsFiniteSet(lasts)
  <2>1. PICK f : f = [y \in Ks |-> y.last]
    OBVIOUS
  <2>2. Ints(Ks, f) /\ Ks # {}
    BY <1>2, <1>3, <2>1 DEF Ints
  <2>3. PICK x \in Ks : \A y \in Ks : f[y] <= f[x]
    BY <1>2, <2>2, MostOf
  <2>4. \A y \in Ks : x.last >= y.last
    BY <1>3, <2>1, <2>3
  <2> QED BY <1>2, <1>4, <2>4, FS_Subset
<1>6. \E x \in lasts : \A y \in lasts : x.first <= y.first
  <2>1. PICK f : f = [y \in lasts |-> y.first]
    OBVIOUS
  <2>2. Ints(lasts, f)
    BY <1>3, <1>5, <2>1 DEF Ints
  <2>3. PICK x \in lasts : \A y \in lasts : f[x] <= f[y]
    BY <1>5, <2>2, MostOf
  <2> QED BY <2>1, <2>3
<1>7. c \in lasts
  <2>1. c = CHOOSE x \in lasts : \A y \in lasts : x.first <= y.first
    BY <1>1, <1>4 DEF currentSpell
  <2> QED BY <1>6, <2>1
<1>8. PICK g \in games : g.team = c.team /\ g.id = c.last
  BY <1>3, <1>5, <1>7
<1>9. ASSUME NEW h \in games PROVE h.id <= g.id
  <2>1. PICK y \in Ks : y = SpellOf(games, h)
    BY <1>2
  <2>2. h.id <= y.last
    BY <2>1, SpellIs
  <2>3. c.last >= y.last
    BY <1>4, <1>7
  <2>4. h.id \in Int /\ y.last \in Int /\ c.last \in Int
    BY <1>3, <1>5, <1>7 DEF AreGames
  <2> QED BY <1>8, <2>2, <2>3, <2>4
<1> QED BY <1>8, <1>9

\* What the page shows of a season.
LEMMA PageIs ==
    ASSUME NEW s, NEW n, NEW pg, pg = renderPlayer(s, n), NEW games, games = playerGames(s, n),
           NEW maps, maps = playerMapRecord(s, n, MapKey)
    PROVE  /\ pg.total = SumOver(DOMAIN maps, [k \in DOMAIN maps |-> maps[k].games])
           /\ pg.wins = SumOver(DOMAIN maps, [k \in DOMAIN maps |-> maps[k].wins])
           /\ pg.rate = playerRate(pg.wins, pg.total, 1)
           /\ pg.team = IF playerSpells(games) = {} THEN NoCurrentTeam ELSE currentSpell(playerSpells(games)).team
           /\ pg.timeline = IF Cardinality(playerSpells(games)) > 1 THEN playerSpells(games) ELSE {}
           /\ pg.recent = RecentOf(games)
<1>1. PICK p : p = playerSeason(s, n)
  OBVIOUS
<1>2. p.games = Sorted(games) /\ p.spells = playerSpells(games) /\ p.maps = maps
  BY <1>1 DEF playerSeason
<1>3. pg = PageOf(p)
  BY <1>1 DEF renderPlayer
<1>a. pg.total = SumOver(DOMAIN p.maps, [k \in DOMAIN p.maps |-> p.maps[k].games])
  BY <1>3 DEF PageOf
<1>b. pg.wins = SumOver(DOMAIN p.maps, [k \in DOMAIN p.maps |-> p.maps[k].wins])
  BY <1>3 DEF PageOf
<1>c. pg.rate = playerRate(SumOver(DOMAIN p.maps, [k \in DOMAIN p.maps |-> p.maps[k].wins]),
                             SumOver(DOMAIN p.maps, [k \in DOMAIN p.maps |-> p.maps[k].games]), 1)
  BY <1>3 DEF PageOf
<1>4. /\ pg.total = SumOver(DOMAIN p.maps, [k \in DOMAIN p.maps |-> p.maps[k].games])
      /\ pg.wins = SumOver(DOMAIN p.maps, [k \in DOMAIN p.maps |-> p.maps[k].wins])
      /\ pg.rate = playerRate(pg.wins, pg.total, 1)
  BY <1>a, <1>b, <1>c
<1>5. pg.team = IF p.spells = {} THEN NoCurrentTeam ELSE currentSpell(p.spells).team
  BY <1>3 DEF PageOf
<1>6. pg.timeline = IF Cardinality(p.spells) > 1 THEN p.spells ELSE {}
  BY <1>3 DEF PageOf
<1>7. pg.recent = Recent(p.games)
  BY <1>3 DEF PageOf
<1> QED BY <1>2, <1>4, <1>5, <1>6, <1>7 DEF RecentOf

\* The page tells one story of them.
LEMMA PagesTell ==
    ASSUME NEW s, IsSeason(s), NEW n
    PROVE  PageAgrees(s, n, NamedIn(s, n))
<1> SUFFICES ASSUME NEW pg, pg = renderPlayer(s, n), NEW games, games = playerGames(s, n)
             PROVE  /\ pg.total = Cardinality(NamedIn(s, n)) /\ pg.wins = Cardinality({g \in games : g.won})
                    /\ NamedIn(s, n) = {} => pg.rate = NoRate /\ pg.recent = <<>> /\ pg.team = NoCurrentTeam
                    /\ NamedIn(s, n) # {} => \E g \in games : g.id = pg.recent[1].id /\ g.team = pg.team
                    /\ \A x \in pg.timeline : x.first <= x.last /\ x.last <= pg.recent[1].id
                    /\ \A g \in games \ Range(pg.recent) :
                         Len(pg.recent) = 10 /\ \A r \in Range(pg.recent) : r.id >= g.id
  BY DEF PageAgrees
<1>1. PICK maps : maps = playerMapRecord(s, n, MapKey)
  OBVIOUS
<1>2. /\ pg.total = SumOver(DOMAIN maps, [k \in DOMAIN maps |-> maps[k].games])
      /\ pg.wins = SumOver(DOMAIN maps, [k \in DOMAIN maps |-> maps[k].wins])
      /\ pg.rate = playerRate(pg.wins, pg.total, 1)
      /\ pg.team = IF playerSpells(games) = {} THEN NoCurrentTeam ELSE currentSpell(playerSpells(games)).team
      /\ pg.timeline = IF Cardinality(playerSpells(games)) > 1 THEN playerSpells(games) ELSE {}
      /\ pg.recent = RecentOf(games)
  BY <1>1, PageIs
<1>3. /\ AreGames(games) /\ Cardinality(games) = Cardinality(NamedIn(s, n))
      /\ NamedIn(s, n) = {} <=> games = {}
  BY GamesNamed DEF AreGames
<1>4. pg.total = Cardinality(games) /\ pg.wins = Cardinality({g \in games : g.won})
  <2>1. maps = RecordOf(s, games, MapKey) /\ IsFiniteSet(games)
    BY <1>1, <1>3 DEF playerMapRecord, AreGames
  <2> QED BY <1>2, <2>1, RecordAdds DEF RecordSums
<1>5. PICK latest : latest = pg.recent
  OBVIOUS
<1>6. /\ games = {} => latest = <<>>
      /\ games # {} => latest[1] \in games /\ \A g \in games : g.id <= latest[1].id
      /\ \A g \in games \ Range(latest) : Len(latest) = 10 /\ \A r \in Range(latest) : r.id >= g.id
  BY <1>2, <1>3, <1>5, RecentGames
<1>7. playerSpells(games) = {SpellOf(games, x) : x \in games}
  <2>1. IsFiniteSet(games)
    BY <1>3 DEF AreGames
  <2> QED BY <2>1, SpellsAdd, ZenonT(30)
<1>8. ASSUME games = {} PROVE pg.rate = NoRate /\ pg.team = NoCurrentTeam
  <2>1. pg.total = 0
    BY <1>4, <1>8, FS_EmptySet
  <2>2. pg.rate = NoRate
    BY <1>2, <2>1 DEF playerRate
  <2>3. playerSpells(games) = {}
    BY <1>7, <1>8
  <2> QED BY <1>2, <2>2, <2>3
<1>9. ASSUME games # {} PROVE \E g \in games : g.id = latest[1].id /\ g.team = pg.team
  <2>1. playerSpells(games) # {}
    BY <1>7, <1>9
  <2>2. pg.team = currentSpell(playerSpells(games)).team
    BY <1>2, <2>1
  <2>3. PICK g \in games : g.team = pg.team /\ \A h \in games : h.id <= g.id
    BY <1>3, <1>9, <2>2, CurrentSpell
  <2>4. g.id <= latest[1].id /\ latest[1].id <= g.id /\ g.id \in Int /\ latest[1].id \in Int
    BY <1>3, <1>6, <1>9, <2>3 DEF AreGames
  <2>5. g.id = latest[1].id
    BY <2>4
  <2> QED BY <2>3, <2>5
<1>10. ASSUME NEW x \in pg.timeline PROVE x.first <= x.last /\ x.last <= latest[1].id
  <2>1. x \in playerSpells(games)
    BY <1>2
  <2>2. PICK g \in games : x = SpellOf(games, g)
    BY <1>7, <2>1
  <2>3. x.first <= x.last /\ \E h \in games : h.team = x.team /\ h.id = x.last
    BY <1>3, <2>2, SpellIs
  <2> QED BY <1>6, <2>2, <2>3
<1>11. /\ pg.total = Cardinality(NamedIn(s, n)) /\ pg.wins = Cardinality({g \in games : g.won})
       /\ NamedIn(s, n) = {} => pg.rate = NoRate /\ pg.recent = <<>> /\ pg.team = NoCurrentTeam
       /\ NamedIn(s, n) # {} => \E g \in games : g.id = pg.recent[1].id /\ g.team = pg.team
  BY <1>3, <1>4, <1>5, <1>6, <1>8, <1>9
<1>12. /\ \A x \in pg.timeline : x.first <= x.last /\ x.last <= pg.recent[1].id
       /\ \A g \in games \ Range(pg.recent) :
            Len(pg.recent) = 10 /\ \A r \in Range(pg.recent) : r.id >= g.id
  BY <1>5, <1>6, <1>10
<1> QED BY <1>11, <1>12

\* pure.js and app.js aggregate: whatever a season's matches, the modes of its maps and its
\* players, a player's record by mode, by map and by spell adds up to the games the rosters
\* name the player in, and the page's tiles to the same; each row lies inside the records of
\* the teams it was played for, in games, wins and losses; and a team's sheet adds up the
\* records its players are measured against.
THEOREM SeasonsAgree ==
    ASSUME NEW s, IsSeason(s)
    PROVE  PagesAgree(s)
<1> DEFINE nicks == UNION {UNION {DOMAIN g.side : g \in m.games} : m \in s}
           teams == {m.f1 : m \in s} \cup {m.f2 : m \in s}
<1>1. ASSUME NEW n, NEW key, NEW rec, rec = playerMapRecord(s, n, key)
      PROVE  /\ SumOver(DOMAIN rec, [k \in DOMAIN rec |-> rec[k].games]) = Cardinality(NamedIn(s, n))
             /\ \A k \in DOMAIN rec : /\ rec[k].games <= rec[k].teamGames
                                      /\ rec[k].wins <= rec[k].teamWins
                                      /\ rec[k].games - rec[k].wins <= rec[k].teamGames - rec[k].teamWins
  <2>1. PICK games : games = playerGames(s, n)
    OBVIOUS
  <2>2. IsFiniteSet(games) /\ Cardinality(games) = Cardinality(NamedIn(s, n))
    BY <2>1, GamesNamed
  <2>3. rec = RecordOf(s, games, key)
    BY <1>1, <2>1 DEF playerMapRecord
  <2>4. SumOver(DOMAIN rec, [k \in DOMAIN rec |-> rec[k].games]) = Cardinality(games)
    <3>1. RecordSums(games, rec)
      BY <2>2, <2>3, RecordAdds
    <3> QED BY <3>1 DEF RecordSums
  <2> QED BY <2>1, <2>2, <2>3, <2>4, RecordInside
<1>3. ASSUME NEW n, NEW spells, spells = playerSpells(playerGames(s, n))
      PROVE  SumOver(spells, [x \in spells |-> x.games]) = Cardinality(NamedIn(s, n))
  <2>1. PICK games : games = playerGames(s, n)
    OBVIOUS
  <2>2. IsFiniteSet(games) /\ Cardinality(games) = Cardinality(NamedIn(s, n))
    BY <2>1, GamesNamed
  <2> QED BY <1>3, <2>1, <2>2, SpellsAdd
<1>4. ASSUME NEW n \in nicks
      PROVE  /\ PageAgrees(s, n, NamedIn(s, n))
             /\ \A by \in {"mode", "map"} :
                  \A rec \in {playerMapRecord(s, n, IF by = "mode" THEN CategoryOf ELSE MapKey)} :
                    /\ SumOver(DOMAIN rec, [k \in DOMAIN rec |-> rec[k].games]) = Cardinality(NamedIn(s, n))
                    /\ \A k \in DOMAIN rec : /\ rec[k].games <= rec[k].teamGames
                                             /\ rec[k].wins <= rec[k].teamWins
                                             /\ rec[k].games - rec[k].wins <= rec[k].teamGames - rec[k].teamWins
             /\ \A spells \in {playerSpells(playerGames(s, n))} :
                  SumOver(spells, [x \in spells |-> x.games]) = Cardinality(NamedIn(s, n))
             /\ \A heroes \in {playerHeroPool(s, n)} :
                  \A h \in DOMAIN heroes : heroes[h].wins <= heroes[h].games
                                         /\ heroes[h].games <= Cardinality(NamedIn(s, n))
  <2>1. PageAgrees(s, n, NamedIn(s, n))
    BY PagesTell
  <2>2. ASSUME NEW by \in {"mode", "map"},
               NEW rec \in {playerMapRecord(s, n, IF by = "mode" THEN CategoryOf ELSE MapKey)}
        PROVE  /\ SumOver(DOMAIN rec, [k \in DOMAIN rec |-> rec[k].games]) = Cardinality(NamedIn(s, n))
               /\ \A k \in DOMAIN rec : /\ rec[k].games <= rec[k].teamGames
                                        /\ rec[k].wins <= rec[k].teamWins
                                        /\ rec[k].games - rec[k].wins <= rec[k].teamGames - rec[k].teamWins
    <3>1. PICK key : key = IF by = "mode" THEN CategoryOf ELSE MapKey
      OBVIOUS
    <3>2. rec = playerMapRecord(s, n, key)
      BY <3>1
    <3> QED BY <1>1, <3>2
  <2>3. \A spells \in {playerSpells(playerGames(s, n))} :
          SumOver(spells, [x \in spells |-> x.games]) = Cardinality(NamedIn(s, n))
    BY <1>3, Zenon
  <2>4. \A heroes \in {playerHeroPool(s, n)} :
          \A h \in DOMAIN heroes : heroes[h].wins <= heroes[h].games
                                 /\ heroes[h].games <= Cardinality(NamedIn(s, n))
    BY HeroesInside
  <2> QED BY <2>1, <2>2, <2>3, <2>4
<1>5. ASSUME NEW t \in teams, NEW mp \in DOMAIN CategoryOf
      PROVE  LET sheet == scoutData(s, Divisions(s), t, mp) IN
             /\ sheet.games = SumOver(Divisions(s), [c \in Divisions(s) |-> teamRecords(s, c, t, MapKey, mp).games])
             /\ sheet.wins = SumOver(Divisions(s), [c \in Divisions(s) |-> teamRecords(s, c, t, MapKey, mp).wins])
  BY SheetAdds
<1> QED BY <1>4, <1>5, Zenon DEF PagesAgree, NamedIn

-----------------------------------------------------------------------------
(* The lists of matches *)

\* The matches of a view, and which of them are on which list.
InView(x) == {m \in x.season : m.cid \in x.view}

LEMMA ListsAre ==
    ASSUME NEW x
    PROVE  /\ MATCHES_ALL(x) = {m \in InView(x) : m.finished}
           /\ Regular(x) = {m \in InView(x) : ~m.playoff /\ m.finished}
           /\ Bracket(x) = {m \in InView(x) : m.playoff}
           /\ Upcoming(x) = {m \in InView(x) : ~m.playoff /\ ~m.finished}
           /\ \A m \in InView(x) : m.f1 \in TeamNames(x) /\ m.f2 \in TeamNames(x)
<1>1. ASSUME NEW m PROVE m \in MATCHES_ALL(x) <=> m \in InView(x) /\ m.finished
  <2>1. ASSUME m \in MATCHES_ALL(x) PROVE m \in InView(x) /\ m.finished
    <3>1. PICK c \in x.view : m \in leagueMatches(x.season, c)
      BY <2>1 DEF MATCHES_ALL
    <3> QED BY <3>1 DEF leagueMatches, InView
  <2>2. ASSUME m \in InView(x), m.finished PROVE m \in MATCHES_ALL(x)
    <3>1. PICK c \in x.view : c = m.cid
      BY <2>2 DEF InView
    <3>2. m \in leagueMatches(x.season, c)
      BY <2>2, <3>1 DEF leagueMatches, InView
    <3> QED BY <3>2 DEF MATCHES_ALL
  <2> QED BY <2>1, <2>2
<1>2. ASSUME NEW m PROVE m \in Regular(x) <=> m \in InView(x) /\ ~m.playoff /\ m.finished
  <2>1. ASSUME m \in Regular(x) PROVE m \in InView(x) /\ ~m.playoff /\ m.finished
    <3>1. PICK c \in x.view : m \in MatchesAlone(x.season, c)
      BY <2>1 DEF Regular
    <3> QED BY <3>1 DEF MatchesAlone, InView
  <2>2. ASSUME m \in InView(x), ~m.playoff, m.finished PROVE m \in Regular(x)
    <3>1. PICK c \in x.view : c = m.cid
      BY <2>2 DEF InView
    <3>2. m \in MatchesAlone(x.season, c)
      BY <2>2, <3>1 DEF MatchesAlone, InView
    <3> QED BY <3>2 DEF Regular
  <2> QED BY <2>1, <2>2
<1>3. Bracket(x) = {m \in InView(x) : m.playoff}
  BY DEF Bracket, InView
<1>4. Upcoming(x) = {m \in InView(x) : ~m.playoff /\ ~m.finished}
  BY DEF Upcoming, InView
<1>5. ASSUME NEW m \in InView(x) PROVE m.f1 \in TeamNames(x) /\ m.f2 \in TeamNames(x)
  <2>1. \A y \in {m.f1, m.f2} : y \in TeamNames(x)
    BY DEF TeamNames, InView
  <2> QED BY <2>1
<1> QED BY <1>1, <1>2, <1>3, <1>4, <1>5

\* What the lists show where nothing is typed in, and where something is.
LEMMA ListsShow ==
    ASSUME NEW x
    PROVE  /\ renderMatches(x, "played", NoQuery) = MATCHES_ALL(x)
           /\ renderMatches(x, "upcoming", NoQuery) = Upcoming(x)
           /\ \A q : renderMatches(x, "playoffs", q) = IF Cardinality(x.view) = 1 THEN Bracket(x) ELSE {}
           /\ \A q : q # NoQuery => renderMatches(x, "played", q) = {m \in MATCHES_ALL(x) : q \in hay(m)}
           /\ \A q : \A m \in MATCHES_ALL(x) : q \in hay(m) => m \in renderMatches(x, "played", q)
BY DEF renderMatches, drawPlayed, drawUpcoming, drawPlayoffs

\* app.js renderMatches: whatever a season, a view of it and a player, no match of the view
\* is on none of its lists, but the bracket still to play of a combined view; none is on two
\* but those of the bracket; and a search finds all that the pages of who is searched count.
THEOREM EveryMatchIsFound ==
    ASSUME NEW x, IsLeague(x)
    PROVE  MatchesAreFound(x)
<1> DEFINE played == renderMatches(x, "played", NoQuery)
           upcoming == renderMatches(x, "upcoming", NoQuery)
           playoffs == renderMatches(x, "playoffs", NoQuery)
<1>0. IsSeason(x.season)
  BY DEF IsLeague
<1>1. /\ MATCHES_ALL(x) = {m \in InView(x) : m.finished}
      /\ Regular(x) = {m \in InView(x) : ~m.playoff /\ m.finished}
      /\ Bracket(x) = {m \in InView(x) : m.playoff}
      /\ Upcoming(x) = {m \in InView(x) : ~m.playoff /\ ~m.finished}
      /\ \A m \in InView(x) : m.f1 \in TeamNames(x) /\ m.f2 \in TeamNames(x)
  BY ListsAre
<1>2. /\ played = MATCHES_ALL(x) /\ upcoming = Upcoming(x)
      /\ playoffs = IF Cardinality(x.view) = 1 THEN Bracket(x) ELSE {}
  BY ListsShow
<1>3. Shown(x) = played \cup upcoming \cup playoffs
  BY DEF Shown
<1> HIDE DEF played, upcoming, playoffs
<1>4. Shown(x) = {m \in InView(x) : m.finished \/ ~m.playoff \/ Cardinality(x.view) = 1}
  <2>1. CASE Cardinality(x.view) = 1
    BY <1>1, <1>2, <1>3, <2>1
  <2>2. CASE Cardinality(x.view) # 1
    BY <1>1, <1>2, <1>3, <2>2
  <2> QED BY <2>1, <2>2
<1>5. played \cap upcoming = {}
  BY <1>1, <1>2
<1>6. Regular(x) \subseteq played
  BY <1>1, <1>2
<1>7. ASSUME Cardinality(x.view) = 1, renderMatches(x, defaultMatchesMode(x), NoQuery) = {}
      PROVE  Shown(x) \subseteq Upcoming(x)
  <2>1. CASE Bracket(x) # {}
    <3>1. defaultMatchesMode(x) = "playoffs"
      BY <2>1 DEF defaultMatchesMode
    <3> QED BY <1>2, <1>7, <2>1, <3>1 DEF playoffs
  <2>2. CASE Bracket(x) = {}
    <3>1. defaultMatchesMode(x) = "played"
      BY <2>2 DEF defaultMatchesMode
    <3>2. played = {}
      BY <1>7, <3>1 DEF played
    <3> QED BY <1>1, <1>2, <1>3, <2>2, <3>2
  <2> QED BY <2>1, <2>2
<1>8. ASSUME NEW t \in TeamNames(x)
      PROVE  renderMatches(x, "played", t) = {m \in MATCHES_ALL(x) : t \in {m.f1, m.f2}}
  <2>1. t # NoQuery
    BY DEF IsLeague
  <2>2. renderMatches(x, "played", t) = {m \in MATCHES_ALL(x) : t \in hay(m)}
    BY <2>1, ListsShow
  <2>3. ASSUME NEW m \in MATCHES_ALL(x) PROVE t \in hay(m) <=> t \in {m.f1, m.f2}
    <3>1. m \in x.season
      BY <1>1 DEF InView
    <3>2. \A g \in m.games : t \notin DOMAIN g.side /\ t \notin {g.hero[p] : p \in DOMAIN g.hero}
      <4>1. \A g \in m.games : t \notin DOMAIN g.side /\ t \notin Range(g.hero)
        BY <3>1 DEF IsLeague
      <4> QED BY <4>1 DEF Range
    <3>3. t \notin UNION {DOMAIN g.side : g \in m.games}
      BY <3>2
    <3>4. t \notin UNION {{g.hero[p] : p \in DOMAIN g.hero} : g \in m.games}
      BY <3>2
    <3> QED BY <3>3, <3>4 DEF hay
  <2> QED BY <2>2, <2>3
<1>9. ASSUME NEW g \in playerGames(x.season, x.asked), g.cid \in x.view
      PROVE  \E m \in renderMatches(x, "played", x.asked) : m.id = g.id
  <2>1. PICK r \in RowsFor(x.season, x.asked) : g = PlayedIn(r, x.asked)
    BY <1>0, GamesAre
  <2>2. r \in Rows(x.season) /\ x.asked \in DOMAIN r.g.side
    BY <2>1 DEF RowsFor
  <2>3. r.m \in x.season /\ r.m.finished /\ r.g \in r.m.games
    BY <1>0, <2>2, RowsAre
  <2>4. g.cid = r.m.cid /\ g.id = r.m.id
    BY <2>1 DEF PlayedIn
  <2>5. r.m \in MATCHES_ALL(x)
    BY <1>1, <1>9, <2>3, <2>4 DEF InView
  <2>6. x.asked \in hay(r.m)
    BY <2>2, <2>3 DEF hay
  <2> QED BY <2>4, <2>5, <2>6, ListsShow
<1>10. InView(x) = {m \in x.season : m.cid \in x.view}
  BY DEF InView
<1> QED BY <1>4, <1>5, <1>6, <1>7, <1>8, <1>9, <1>10 DEF MatchesAreFound, played, upcoming

-----------------------------------------------------------------------------
(* The comps of a division *)

\* The pairs of a thing and what is of it are as many as the sum counts.
PairsOf(Ks, of) == UNION {{<<k, r>> : r \in of[k]} : k \in Ks}

LEMMA PairsCount ==
    ASSUME NEW Ks, IsFiniteSet(Ks), NEW of, NEW f, Each(Ks, of, f)
    PROVE  IsFiniteSet(PairsOf(Ks, of)) /\ SumOver(Ks, f) = Cardinality(PairsOf(Ks, of))
<1>1. PICK op : op = [k \in Ks |-> {<<k, r>> : r \in of[k]}]
  OBVIOUS
<1>2. Each(Ks, op, f)
  <2> SUFFICES ASSUME NEW k \in Ks PROVE IsFiniteSet(op[k]) /\ f[k] = Cardinality(op[k])
    BY DEF Each
  <2>1. IsFiniteSet(of[k]) /\ f[k] = Cardinality(of[k])
    BY DEF Each
  <2>2. PICK g : g = [r \in of[k] |-> <<k, r>>]
    OBVIOUS
  <2>3. op[k] = Image(of[k], g)
    BY <1>1, <2>2 DEF Image
  <2>4. \A q, r \in of[k] : g[q] = g[r] => q = r
    BY <2>2
  <2>5. IsFiniteSet(Image(of[k], g)) /\ Cardinality(Image(of[k], g)) = Cardinality(of[k])
    BY <2>1, <2>4, ImageOf
  <2> QED BY <2>1, <2>3, <2>5
<1>3. All(Ks, op) = PairsOf(Ks, of)
  BY <1>1 DEF All, PairsOf
<1>4. \A k, l \in Ks : k # l => op[k] \cap op[l] = {}
  BY <1>1
<1> QED BY <1>2, <1>3, <1>4, SumOfClasses

\* A view has finitely many teams.
LEMMA TeamsFinite ==
    ASSUME NEW x, IsSeason(x.season)
    PROVE  IsFiniteSet(TeamNames(x)) /\ IsFiniteSet(InView(x))
<1>1. IsFiniteSet(InView(x))
  BY FS_Subset DEF InView, IsSeason
<1>2. PICK f, g : f = [m \in InView(x) |-> m.f1] /\ g = [m \in InView(x) |-> m.f2]
  OBVIOUS
<1>3. IsFiniteSet(Image(InView(x), f)) /\ IsFiniteSet(Image(InView(x), g))
  BY <1>1, ImageOf
<1>4. TeamNames(x) = Image(InView(x), f) \cup Image(InView(x), g)
  <2>1. ASSUME NEW t \in TeamNames(x) PROVE t \in Image(InView(x), f) \cup Image(InView(x), g)
    <3>1. PICK m \in InView(x) : t \in {m.f1, m.f2}
      BY DEF TeamNames, InView
    <3> QED BY <1>2, <3>1 DEF Image
  <2>2. ASSUME NEW t \in Image(InView(x), f) \cup Image(InView(x), g) PROVE t \in TeamNames(x)
    <3>1. \E m \in InView(x) : t = m.f1 \/ t = m.f2
      BY <1>2 DEF Image
    <3> QED BY <3>1, ListsAre
  <2> QED BY <2>1, <2>2
<1> QED BY <1>1, <1>3, <1>4, FS_Union

\* The captures are of maps that were played, and only of their two teams.
LEMMA CapturedAre ==
    ASSUME NEW s, IsSeason(s)
    PROVE  /\ IsFiniteSet(MapsCaptured(s)) /\ MapsCaptured(s) \subseteq Rows(s)
           /\ \A r \in Rows(s) : \A t : HeroesOf(r.g, t) # {} =>
                r \in MapsCaptured(s) /\ t \in TeamsIn(r) /\ t \in {r.m.f1, r.m.f2}
           /\ \A r \in Rows(s) : TeamsIn(r) = {r.m.f1, r.m.f2}
<1>1. IsFiniteSet(MapsCaptured(s)) /\ MapsCaptured(s) \subseteq Rows(s)
  <2>1. MapsCaptured(s) \subseteq Rows(s)
    BY DEF MapsCaptured, Rows
  <2> QED BY <2>1, RowsAre, FS_Subset
<1>2. ASSUME NEW r \in Rows(s) PROVE TeamsIn(r) = {r.m.f1, r.m.f2}
  <2>1. IsGame(r.m, r.g) /\ r.g.map # Unplayed
    BY RowsAre
  <2> QED BY <2>1 DEF IsGame, TeamsIn
<1>3. ASSUME NEW r \in Rows(s), NEW t, HeroesOf(r.g, t) # {}
      PROVE  r \in MapsCaptured(s) /\ t \in TeamsIn(r)
  <2>1. PICK p \in DOMAIN r.g.hero : r.g.side[p] = t
    BY <1>3 DEF HeroesOf
  <2>2. r.g.hero # <<>>
    <3>1. DOMAIN <<>> = {}
      OBVIOUS
    <3> QED BY <2>1, <3>1
  <2>3. p \in DOMAIN r.g.side
    <3>1. IsGame(r.m, r.g)
      BY RowsAre
    <3> QED BY <3>1 DEF IsGame
  <2>4. t \in TeamsIn(r)
    BY <2>1, <2>3 DEF TeamsIn
  <2>5. r \in MapsCaptured(s)
    BY <2>2 DEF MapsCaptured, Rows
  <2> QED BY <2>4, <2>5
<1> QED BY <1>1, <1>2, <1>3

\* A team of the view and a capture of it, and the comp it was on.
Lineup(p) == HeroesOf(p[2].g, p[1])
Pairs(x) == {p \in TeamNames(x) \X MapsCaptured(x.season) : Lineup(p) # {}}
PairsOn(x, c) == {p \in Pairs(x) : Lineup(p) = c}
PairsIn(x, Cs) == {p \in Pairs(x) : Lineup(p) \in Cs}
Won(ps) == {p \in ps : p[2].g.winner = p[1]}

\* The captures of a team on a comp.
CapturesOn(x, t, c) == {r \in CapturesOf(x.season, t) : HeroesOf(r.g, t) = c}
CapturesWon(x, t, c) == {r \in CapturesOn(x, t, c) : r.g.winner = t}
CompsOf(x, t) == {HeroesOf(r.g, t) : r \in CapturesOf(x.season, t)}

LEMMA PairsAre ==
    ASSUME NEW x, IsSeason(x.season)
    PROVE  /\ IsFiniteSet(Pairs(x))
           /\ \A p \in Pairs(x) : /\ p = <<p[1], p[2]>> /\ p[1] \in TeamNames(x) /\ p[2] \in Rows(x.season)
                                  /\ p[2] \in CapturesOf(x.season, p[1]) /\ p[1] \in {p[2].m.f1, p[2].m.f2}
           /\ \A t \in TeamNames(x) : \A r \in CapturesOf(x.season, t) : <<t, r>> \in Pairs(x)
<1>1. IsFiniteSet(TeamNames(x)) /\ IsFiniteSet(MapsCaptured(x.season))
  BY TeamsFinite, CapturedAre
<1>2. IsFiniteSet(TeamNames(x) \X MapsCaptured(x.season))
  BY <1>1, FS_Product
<1>3. IsFiniteSet(Pairs(x))
  BY <1>2, FS_Subset DEF Pairs
<1>4. ASSUME NEW p \in Pairs(x)
      PROVE  /\ p = <<p[1], p[2]>> /\ p[1] \in TeamNames(x) /\ p[2] \in Rows(x.season)
             /\ p[2] \in CapturesOf(x.season, p[1]) /\ p[1] \in {p[2].m.f1, p[2].m.f2}
  <2>1. p = <<p[1], p[2]>> /\ p[1] \in TeamNames(x) /\ p[2] \in MapsCaptured(x.season) /\ HeroesOf(p[2].g, p[1]) # {}
    BY DEF Pairs, Lineup
  <2> QED BY <2>1, CapturedAre DEF CapturesOf
<1>5. ASSUME NEW t \in TeamNames(x), NEW r \in CapturesOf(x.season, t) PROVE <<t, r>> \in Pairs(x)
  BY DEF Pairs, Lineup, CapturesOf
<1> QED BY <1>3, <1>4, <1>5

CompMaps(x, c) == SumOver(TeamNames(x), [t \in TeamNames(x) |-> Cardinality(CapturesOn(x, t, c))])
CompWins(x, c) == SumOver(TeamNames(x), [t \in TeamNames(x) |-> Cardinality(CapturesWon(x, t, c))])
TeamsOn(x, c) == {t \in TeamNames(x) : c \in CompsOf(x, t)}
CompKeys(x, c) == UNION {{<<r.m.id, r.g.no>> : r \in CapturesOn(x, t, c)} : t \in TeamNames(x)}

\* The comps count the captures of each team on them.
LEMMA CompsAre ==
    ASSUME NEW x, IsSeason(x.season), NEW comps, comps = mostPlayedComps(x)
    PROVE  /\ DOMAIN comps = UNION {CompsOf(x, t) : t \in TeamNames(x)}
           /\ \A c \in DOMAIN comps :
                /\ comps[c].maps = CompMaps(x, c) /\ comps[c].wins = CompWins(x, c)
                /\ comps[c].teams = TeamsOn(x, c)
                /\ comps[c].keys = CompKeys(x, c)
BY DEF mostPlayedComps, CompsOf, CapturesOn, CapturesWon, CompMaps, CompWins, CompKeys, TeamsOn

\* What a comp counts is its pairs, and its wins are those won.
LEMMA CompCounts ==
    ASSUME NEW x, IsSeason(x.season), NEW comps, comps = mostPlayedComps(x), NEW c \in DOMAIN comps
    PROVE  /\ IsFiniteSet(PairsOn(x, c)) /\ IsFiniteSet(Won(PairsOn(x, c)))
           /\ comps[c].maps = Cardinality(PairsOn(x, c)) /\ comps[c].wins = Cardinality(Won(PairsOn(x, c)))
<1>1. PICK Ts : Ts = TeamNames(x)
  OBVIOUS
<1>2. IsFiniteSet(Ts)
  BY <1>1, TeamsFinite
<1>3. PICK of : of = [t \in Ts |-> CapturesOn(x, t, c)]
  OBVIOUS
<1>4. PICK ow : ow = [t \in Ts |-> CapturesWon(x, t, c)]
  OBVIOUS
<1>5. PICK f : f = [t \in Ts |-> Cardinality(CapturesOn(x, t, c))]
  OBVIOUS
<1>6. PICK w : w = [t \in Ts |-> Cardinality(CapturesWon(x, t, c))]
  OBVIOUS
<1>7. Each(Ts, of, f) /\ Each(Ts, ow, w)
  <2>1. \A t \in Ts : IsFiniteSet(CapturesOn(x, t, c)) /\ IsFiniteSet(CapturesWon(x, t, c))
    <3>1. \A t \in Ts : /\ CapturesOn(x, t, c) \subseteq MapsCaptured(x.season)
                        /\ CapturesWon(x, t, c) \subseteq MapsCaptured(x.season)
      BY DEF CapturesWon, CapturesOn, CapturesOf
    <3> QED BY <3>1, CapturedAre, FS_Subset
  <2> QED BY <1>3, <1>4, <1>5, <1>6, <2>1 DEF Each
<1>8. ASSUME NEW p \in PairsOn(x, c)
      PROVE  p[1] \in Ts /\ p = <<p[1], p[2]>> /\ p[2] \in CapturesOn(x, p[1], c)
  BY <1>1, <1>8, PairsAre DEF PairsOn, CapturesOn, Lineup
<1>9. ASSUME NEW t \in Ts, NEW r \in CapturesOn(x, t, c)
      PROVE  <<t, r>> \in PairsOn(x, c)
  BY <1>1, PairsAre DEF PairsOn, CapturesOn, Lineup
<1>10. PairsOf(Ts, of) = PairsOn(x, c)
  <2>1. \A q \in PairsOf(Ts, of) : \E t \in Ts : \E r \in of[t] : q = <<t, r>>
    BY DEF PairsOf
  <2>2. \A t \in Ts : \A r \in of[t] : <<t, r>> \in PairsOf(Ts, of)
    BY DEF PairsOf
  <2> QED BY <1>3, <1>8, <1>9, <2>1, <2>2
<1>11. PairsOf(Ts, ow) = Won(PairsOn(x, c))
  <2>1. \A q \in PairsOf(Ts, ow) : \E t \in Ts : \E r \in ow[t] : q = <<t, r>>
    BY DEF PairsOf
  <2>2. \A t \in Ts : \A r \in ow[t] : <<t, r>> \in PairsOf(Ts, ow)
    BY DEF PairsOf
  <2>3. ASSUME NEW t \in Ts, NEW r \in ow[t] PROVE <<t, r>> \in Won(PairsOn(x, c))
    BY <1>4, <1>9 DEF CapturesWon, Won
  <2>4. ASSUME NEW p \in Won(PairsOn(x, c)) PROVE p \in PairsOf(Ts, ow)
    <3>1. p \in PairsOn(x, c) /\ p[2].g.winner = p[1]
      BY DEF Won
    <3>2. p[1] \in Ts /\ p = <<p[1], p[2]>> /\ p[2] \in ow[p[1]]
      BY <1>4, <1>8, <3>1 DEF CapturesWon
    <3> QED BY <2>2, <3>2
  <2> QED BY <2>1, <2>3, <2>4
<1>12. /\ IsFiniteSet(PairsOn(x, c)) /\ IsFiniteSet(Won(PairsOn(x, c)))
       /\ SumOver(Ts, f) = Cardinality(PairsOn(x, c)) /\ SumOver(Ts, w) = Cardinality(Won(PairsOn(x, c)))
  BY <1>2, <1>7, <1>10, <1>11, PairsCount
<1>13. comps[c].maps = SumOver(Ts, f)
  BY <1>1, <1>5, CompsAre DEF CompMaps
<1>14. comps[c].wins = SumOver(Ts, w)
  BY <1>1, <1>6, CompsAre DEF CompWins
<1> QED BY <1>12, <1>13, <1>14

\* The comps are those of the pairs.
LEMMA CompsOfPairs ==
    ASSUME NEW x, IsSeason(x.season), NEW comps, comps = mostPlayedComps(x)
    PROVE  /\ \A p \in Pairs(x) : Lineup(p) \in DOMAIN comps
           /\ \A c \in DOMAIN comps : \E p \in Pairs(x) : Lineup(p) = c
           /\ IsFiniteSet(DOMAIN comps)
<1>1. DOMAIN comps = UNION {CompsOf(x, t) : t \in TeamNames(x)}
  BY CompsAre
<1>2. ASSUME NEW p \in Pairs(x) PROVE Lineup(p) \in DOMAIN comps
  <2>1. p[1] \in TeamNames(x) /\ p[2] \in CapturesOf(x.season, p[1])
    BY PairsAre
  <2>2. Lineup(p) \in CompsOf(x, p[1])
    BY <2>1 DEF CompsOf, Lineup
  <2> QED BY <1>1, <2>1, <2>2
<1>3. ASSUME NEW c \in DOMAIN comps PROVE \E p \in Pairs(x) : Lineup(p) = c
  <2>1. PICK t \in TeamNames(x) : c \in CompsOf(x, t)
    BY <1>1
  <2>2. PICK r \in CapturesOf(x.season, t) : c = HeroesOf(r.g, t)
    BY <2>1 DEF CompsOf
  <2>3. <<t, r>> \in Pairs(x)
    BY PairsAre
  <2>4. Lineup(<<t, r>>) = c
    BY <2>2 DEF Lineup
  <2> QED BY <2>3, <2>4
<1>4. PICK f : f = [p \in Pairs(x) |-> Lineup(p)]
  OBVIOUS
<1>5. DOMAIN comps = Image(Pairs(x), f)
  BY <1>2, <1>3, <1>4 DEF Image
<1>6. IsFiniteSet(DOMAIN comps)
  BY <1>5, PairsAre, ImageOf
<1> QED BY <1>2, <1>3, <1>6

\* Of some of the comps, the maps and the wins add up to the pairs that are on them.
MapsOfComps(comps, Cs) == SumOver(Cs, [c \in Cs |-> comps[c].maps])
WinsOfComps(comps, Cs) == SumOver(Cs, [c \in Cs |-> comps[c].wins])

LEMMA CompSums ==
    ASSUME NEW x, IsSeason(x.season), NEW comps, comps = mostPlayedComps(x), NEW Cs \in SUBSET DOMAIN comps
    PROVE  /\ IsFiniteSet(PairsIn(x, Cs)) /\ IsFiniteSet(Won(PairsIn(x, Cs)))
           /\ MapsOfComps(comps, Cs) = Cardinality(PairsIn(x, Cs))
           /\ WinsOfComps(comps, Cs) = Cardinality(Won(PairsIn(x, Cs)))
<1>1. IsFiniteSet(Cs)
  BY CompsOfPairs, FS_Subset
<1>2. PICK of : of = [c \in Cs |-> PairsOn(x, c)]
  OBVIOUS
<1>3. PICK ow : ow = [c \in Cs |-> Won(PairsOn(x, c))]
  OBVIOUS
<1>4. PICK f : f = [c \in Cs |-> comps[c].maps]
  OBVIOUS
<1>5. PICK w : w = [c \in Cs |-> comps[c].wins]
  OBVIOUS
<1>6. Each(Cs, of, f) /\ Each(Cs, ow, w)
  BY <1>2, <1>3, <1>4, <1>5, CompCounts DEF Each
<1>7. All(Cs, of) = PairsIn(x, Cs) /\ All(Cs, ow) = Won(PairsIn(x, Cs))
  BY <1>2, <1>3 DEF All, PairsIn, PairsOn, Won
<1>8. \A c, d \in Cs : c # d => of[c] \cap of[d] = {} /\ ow[c] \cap ow[d] = {}
  BY <1>2, <1>3 DEF PairsOn, Won
<1>9. SumOver(Cs, f) = Cardinality(PairsIn(x, Cs)) /\ SumOver(Cs, w) = Cardinality(Won(PairsIn(x, Cs)))
  BY <1>1, <1>6, <1>7, <1>8, SumOfClasses
<1>10. IsFiniteSet(PairsIn(x, Cs)) /\ IsFiniteSet(Won(PairsIn(x, Cs)))
  BY <1>1, <1>6, <1>7, SumOfClasses
<1> QED BY <1>4, <1>5, <1>9, <1>10 DEF MapsOfComps, WinsOfComps

\* The comps add up to the captures of the teams of the view.
LEMMA CompsAddUp ==
    ASSUME NEW x, IsSeason(x.season), NEW comps, comps = mostPlayedComps(x)
    PROVE  MapsOfComps(comps, DOMAIN comps) = SumOver(TeamNames(x), capturedMaps(x))
<1>1. PairsIn(x, DOMAIN comps) = Pairs(x)
  BY CompsOfPairs DEF PairsIn
<1>2. MapsOfComps(comps, DOMAIN comps) = Cardinality(Pairs(x))
  BY <1>1, CompSums
<1>3. PICK Ts : Ts = TeamNames(x)
  OBVIOUS
<1>4. PICK of : of = [t \in Ts |-> CapturesOf(x.season, t)]
  OBVIOUS
<1>5. PICK f : f = [t \in Ts |-> Cardinality(CapturesOf(x.season, t))]
  OBVIOUS
<1>6. Each(Ts, of, f)
  <2>1. \A t \in Ts : CapturesOf(x.season, t) \subseteq MapsCaptured(x.season)
    BY DEF CapturesOf
  <2>2. \A t \in Ts : IsFiniteSet(CapturesOf(x.season, t))
    BY <2>1, CapturedAre, FS_Subset
  <2> QED BY <1>4, <1>5, <2>2 DEF Each
<1>7. PairsOf(Ts, of) = Pairs(x)
  <2>1. \A q \in PairsOf(Ts, of) : \E t \in Ts : \E r \in of[t] : q = <<t, r>>
    BY DEF PairsOf
  <2>2. \A t \in Ts : \A r \in of[t] : <<t, r>> \in PairsOf(Ts, of)
    BY DEF PairsOf
  <2>3. \A p \in Pairs(x) : p[1] \in Ts /\ p[2] \in of[p[1]] /\ p = <<p[1], p[2]>>
    BY <1>3, <1>4, PairsAre
  <2>4. \A t \in Ts : \A r \in of[t] : <<t, r>> \in Pairs(x)
    BY <1>3, <1>4, PairsAre
  <2> QED BY <2>1, <2>2, <2>3, <2>4
<1>8. SumOver(Ts, f) = Cardinality(Pairs(x))
  BY <1>3, <1>6, <1>7, TeamsFinite, PairsCount
<1>9. f = capturedMaps(x)
  BY <1>3, <1>5 DEF capturedMaps
<1> QED BY <1>2, <1>3, <1>8, <1>9

\* The teams of the comps are those that were captured.
LEMMA CompTeams ==
    ASSUME NEW x, IsSeason(x.season), NEW comps, comps = mostPlayedComps(x)
    PROVE  UNION {comps[c].teams : c \in DOMAIN comps} = teamsScouted(x)
<1>1. \A c \in DOMAIN comps : comps[c].teams = {t \in TeamNames(x) : c \in CompsOf(x, t)}
  <2>1. \A c \in DOMAIN comps : comps[c].teams = TeamsOn(x, c)
    BY CompsAre
  <2> QED BY <2>1 DEF TeamsOn
<1>2. ASSUME NEW c \in DOMAIN comps, NEW t \in comps[c].teams PROVE t \in teamsScouted(x)
  <2>1. t \in TeamNames(x) /\ c \in CompsOf(x, t)
    BY <1>1
  <2>2. CapturesOf(x.season, t) # {}
    BY <2>1 DEF CompsOf
  <2> QED BY <2>1, <2>2 DEF teamsScouted
<1>3. ASSUME NEW t \in teamsScouted(x) PROVE \E c \in DOMAIN comps : t \in comps[c].teams
  <2>1. PICK r \in CapturesOf(x.season, t) : t \in TeamNames(x)
    BY DEF teamsScouted
  <2>2. PICK c : c = HeroesOf(r.g, t)
    OBVIOUS
  <2>3. c \in CompsOf(x, t)
    BY <2>2 DEF CompsOf
  <2>4. c \in UNION {CompsOf(x, u) : u \in TeamNames(x)}
    BY <2>1, <2>3
  <2>5. c \in DOMAIN comps
    BY <2>4, CompsAre
  <2> QED BY <1>1, <2>1, <2>3, <2>5
<1> QED BY <1>2, <1>3

\* A comp is counted at most twice for a map.
LEMMA CompTwice ==
    ASSUME NEW x, IsSeason(x.season), NEW comps, comps = mostPlayedComps(x), NEW c \in DOMAIN comps
    PROVE  comps[c].wins <= comps[c].maps /\ comps[c].maps <= 2 * Cardinality(comps[c].keys)
<1>1. PICK ps : ps = PairsOn(x, c)
  OBVIOUS
<1>2. IsFiniteSet(ps) /\ comps[c].maps = Cardinality(ps) /\ comps[c].wins = Cardinality(Won(ps))
  BY <1>1, CompCounts
<1>3. Cardinality(Won(ps)) <= Cardinality(ps)
  BY <1>2, FS_Subset DEF Won
<1>4. PICK keys : keys = comps[c].keys
  OBVIOUS
<1>5. PICK k : k = [p \in ps |-> PickOf(p[2])]
  OBVIOUS
<1>6. keys = Image(ps, k)
  <2>1. keys = UNION {{<<r.m.id, r.g.no>> : r \in CapturesOn(x, t, c)} : t \in TeamNames(x)}
    <3>1. keys = CompKeys(x, c)
      BY <1>4, CompsAre
    <3> QED BY <3>1 DEF CompKeys
  <2>2. ASSUME NEW y \in keys PROVE y \in Image(ps, k)
    <3>1. PICK t \in TeamNames(x) : y \in {<<r.m.id, r.g.no>> : r \in CapturesOn(x, t, c)}
      BY <2>1
    <3>2. PICK r \in CapturesOn(x, t, c) : y = <<r.m.id, r.g.no>>
      BY <3>1
    <3>3. <<t, r>> \in ps
      BY <1>1, PairsAre DEF PairsOn, CapturesOn, Lineup
    <3>4. k[<<t, r>>] = y
      BY <1>5, <3>2, <3>3 DEF PickOf
    <3> QED BY <3>3, <3>4 DEF Image
  <2>3. ASSUME NEW p \in ps PROVE k[p] \in keys
    <3>1. p[1] \in TeamNames(x) /\ p[2] \in CapturesOn(x, p[1], c)
      BY <1>1, PairsAre DEF PairsOn, CapturesOn, Lineup
    <3>2. k[p] \in {<<r.m.id, r.g.no>> : r \in CapturesOn(x, p[1], c)}
      BY <1>5, <3>1 DEF PickOf
    <3> QED BY <2>1, <3>1, <3>2
  <2> QED BY <2>2, <2>3 DEF Image
<1>7. IsFiniteSet(keys)
  BY <1>2, <1>6, ImageOf
<1>8. IsFiniteSet(1..2) /\ Cardinality(1..2) = 2
  <2>1. 1 \in Int /\ 2 \in Int /\ ~(1 > 2) /\ 2 - 1 + 1 = 2
    OBVIOUS
  <2> QED BY <2>1, FS_Interval
<1>9. PICK both : both = keys \X (1..2)
  OBVIOUS
<1>10. IsFiniteSet(both) /\ Cardinality(both) = Cardinality(keys) * 2
  BY <1>7, <1>8, <1>9, FS_Product
<1>11. PICK f : f = [p \in ps |-> <<PickOf(p[2]), IF p[1] = p[2].m.f1 THEN 1 ELSE 2>>]
  OBVIOUS
<1>12. Image(ps, f) \subseteq both
  <2>1. ASSUME NEW p \in ps PROVE f[p] \in both
    <3>1. PickOf(p[2]) \in keys
      BY <1>5, <1>6 DEF Image
    <3> QED BY <1>9, <1>11, <3>1
  <2> QED BY <2>1 DEF Image
<1>13. ASSUME NEW p \in ps, NEW q \in ps, f[p] = f[q] PROVE p = q
  <2>1. PickOf(p[2]) = PickOf(q[2]) /\ (p[1] = p[2].m.f1 <=> q[1] = q[2].m.f1)
    BY <1>11, <1>13
  <2>2. /\ p = <<p[1], p[2]>> /\ p[2] \in Rows(x.season) /\ p[1] \in {p[2].m.f1, p[2].m.f2}
        /\ q = <<q[1], q[2]>> /\ q[2] \in Rows(x.season) /\ q[1] \in {q[2].m.f1, q[2].m.f2}
    BY <1>1, PairsAre DEF PairsOn
  <2>3. p[2] = q[2]
    <3>1. p[2].m.id = q[2].m.id /\ p[2].g.no = q[2].g.no
      BY <2>1 DEF PickOf
    <3> QED BY <2>2, <3>1, RowsAre
  <2>4. p[1] = q[1]
    BY <2>1, <2>2, <2>3
  <2> QED BY <2>2, <2>3, <2>4
<1>14. Cardinality(Image(ps, f)) = Cardinality(ps)
  BY <1>2, <1>13, ImageOf
<1>15. Cardinality(Image(ps, f)) <= Cardinality(both)
  BY <1>10, <1>12, FS_Subset
<1>16. Cardinality(keys) \in Nat
  BY <1>7, FS_CardinalityType
<1> QED BY <1>2, <1>3, <1>4, <1>10, <1>14, <1>15, <1>16

-----------------------------------------------------------------------------
(* The heroes of a division *)

\* The maps that are evidence: of the regular season of the view, with a winner.
LEMMA WinnersAre ==
    ASSUME NEW x, IsSeason(x.season)
    PROVE  /\ \A r \in winnerOf(x) : /\ r \in Rows(x.season) /\ r.m \in InView(x) /\ r.g.winner # "nobody"
                                     /\ r.g.winner \in {r.m.f1, r.m.f2} /\ r.m.f1 # r.m.f2
           /\ \A r \in Rows(x.season) : r.m.cid \in x.view /\ ~r.m.playoff /\ r.g.winner # "nobody" => r \in winnerOf(x)
           /\ MapGames(Regular(x)) = {r \in Rows(x.season) : r.m \in Regular(x)}
<1>1. PICK ms : ms = {m \in x.season : m.finished}
  OBVIOUS
<1>2. Regular(x) = {m \in InView(x) : ~m.playoff /\ m.finished}
  BY ListsAre
<1>3. Regular(x) \subseteq ms
  BY <1>1, <1>2 DEF InView
<1>4. MapGames(Regular(x)) = {r \in Rows(x.season) : r.m \in Regular(x)}
  BY <1>1, <1>3, MapGamesOfSome DEF Rows
<1>5. ASSUME NEW r \in winnerOf(x)
      PROVE  /\ r \in Rows(x.season) /\ r.m \in InView(x) /\ r.g.winner # "nobody"
             /\ r.g.winner \in {r.m.f1, r.m.f2} /\ r.m.f1 # r.m.f2
  <2>1. r \in Rows(x.season) /\ r.m \in InView(x) /\ r.g.winner # "nobody"
    BY <1>2, <1>4 DEF winnerOf
  <2>2. IsGame(r.m, r.g) /\ r.m \in x.season
    BY <2>1, RowsAre
  <2>3. r.g.winner \in {r.m.f1, r.m.f2, "nobody"} /\ r.m.f1 # r.m.f2
    BY <2>2 DEF IsGame, IsSeason
  <2> QED BY <2>1, <2>3
<1>6. ASSUME NEW r \in Rows(x.season), r.m.cid \in x.view, ~r.m.playoff, r.g.winner # "nobody"
      PROVE  r \in winnerOf(x)
  <2>1. r.m \in x.season /\ r.m.finished
    BY RowsAre
  <2>2. r.m \in Regular(x)
    BY <1>2, <1>6, <2>1 DEF InView
  <2> QED BY <1>4, <1>6, <2>2 DEF winnerOf
<1> QED BY <1>4, <1>5, <1>6

\* The pairs that are evidence, and those of a hero.
Evidence(x) == {p \in Pairs(x) : p[2] \in winnerOf(x)}
EvidenceOn(x, h) == {p \in Evidence(x) : h \in Lineup(p)}
LineupOf(p) ==
    [key |-> <<p[2].m.id, p[2].g.no>>, team |-> p[1], heroes |-> Lineup(p), won |-> p[2].g.winner = p[1]]

LEMMA LineupsAre ==
    ASSUME NEW x, IsSeason(x.season)
    PROVE  lineupsOf(x) = {LineupOf(p) : p \in Evidence(x)}
<1>1. ASSUME NEW l \in lineupsOf(x) PROVE \E p \in Evidence(x) : l = LineupOf(p)
  <2>1. PICK r \in winnerOf(x) :
          l \in {[key |-> <<r.m.id, r.g.no>>, team |-> t, heroes |-> HeroesOf(r.g, t), won |-> r.g.winner = t] :
                   t \in {u \in TeamsIn(r) : HeroesOf(r.g, u) # {}}}
    BY DEF lineupsOf
  <2>2. PICK t \in TeamsIn(r) :
          /\ HeroesOf(r.g, t) # {}
          /\ l = [key |-> <<r.m.id, r.g.no>>, team |-> t, heroes |-> HeroesOf(r.g, t), won |-> r.g.winner = t]
    BY <2>1
  <2>3. r \in Rows(x.season) /\ r.m \in InView(x)
    BY WinnersAre
  <2>4. r \in MapsCaptured(x.season) /\ t \in TeamNames(x)
    <3>1. r \in MapsCaptured(x.season) /\ t \in {r.m.f1, r.m.f2}
      BY <2>2, <2>3, CapturedAre
    <3> QED BY <2>3, <3>1, ListsAre
  <2>5. <<t, r>> \in Evidence(x)
    BY <2>2, <2>4 DEF Evidence, Pairs, Lineup
  <2>6. l = LineupOf(<<t, r>>)
    BY <2>2 DEF LineupOf, Lineup
  <2> QED BY <2>5, <2>6
<1>2. ASSUME NEW p \in Evidence(x) PROVE LineupOf(p) \in lineupsOf(x)
  <2>1. PICK r, t : r = p[2] /\ t = p[1]
    OBVIOUS
  <2>2. r \in winnerOf(x) /\ HeroesOf(r.g, t) # {} /\ r \in Rows(x.season)
    BY <2>1, WinnersAre DEF Evidence, Pairs, Lineup
  <2>3. t \in {u \in TeamsIn(r) : HeroesOf(r.g, u) # {}}
    BY <2>2, CapturedAre
  <2>4. LineupOf(p) = [key |-> <<r.m.id, r.g.no>>, team |-> t, heroes |-> HeroesOf(r.g, t), won |-> r.g.winner = t]
    BY <2>1 DEF LineupOf, Lineup
  <2> QED BY <2>2, <2>3, <2>4 DEF lineupsOf
<1> QED BY <1>1, <1>2

\* Some pairs as lineups are as many.
LineupsOfSome(ps) == {LineupOf(p) : p \in ps}

LEMMA LineupsCount ==
    ASSUME NEW x, IsSeason(x.season), NEW ps \in SUBSET Evidence(x)
    PROVE  IsFiniteSet(ps) /\ Cardinality(LineupsOfSome(ps)) = Cardinality(ps)
<1>1. ps \subseteq Pairs(x)
  BY DEF Evidence
<1>2. IsFiniteSet(ps)
  BY <1>1, PairsAre, FS_Subset
<1>3. PICK f : f = [p \in ps |-> LineupOf(p)]
  OBVIOUS
<1>4. Image(ps, f) = LineupsOfSome(ps)
  BY <1>3 DEF Image, LineupsOfSome
<1>5. ASSUME NEW p \in ps, NEW q \in ps, f[p] = f[q] PROVE p = q
  <2>1. LineupOf(p) = LineupOf(q)
    BY <1>3, <1>5
  <2>2. p[2].m.id = q[2].m.id /\ p[2].g.no = q[2].g.no /\ p[1] = q[1]
    BY <2>1 DEF LineupOf
  <2>3. p = <<p[1], p[2]>> /\ q = <<q[1], q[2]>> /\ p[2] \in Rows(x.season) /\ q[2] \in Rows(x.season)
    BY <1>1, PairsAre
  <2>4. p[2] = q[2]
    BY <2>2, <2>3, RowsAre
  <2> QED BY <2>2, <2>3, <2>4
<1> QED BY <1>2, <1>4, <1>5, ImageOf

\* The win rates count the pairs of each hero.
HeroSeen(x, h) == \E p \in Evidence(x) : h \in Lineup(p)
RateOf(x, h) == [maps |-> Cardinality(EvidenceOn(x, h)), wins |-> Cardinality(Won(EvidenceOn(x, h)))]

LEMMA RatesAre ==
    ASSUME NEW x, IsSeason(x.season), NEW floor, NEW rates, rates = heroWinRates(x, floor)
    PROVE  /\ \A h : h \in DOMAIN rates <=> HeroSeen(x, h) /\ Cardinality(EvidenceOn(x, h)) >= floor
           /\ \A h \in DOMAIN rates : rates[h] = RateOf(x, h)
<1>1. PICK ls : ls = lineupsOf(x)
  OBVIOUS
<1>2. ls = {LineupOf(p) : p \in Evidence(x)}
  BY <1>1, LineupsAre
<1>3. PICK Hs : Hs = UNION {l.heroes : l \in ls}
  OBVIOUS
<1>4. \A h : h \in Hs <=> HeroSeen(x, h)
  <2>1. \A p : LineupOf(p).heroes = Lineup(p)
    BY DEF LineupOf
  <2>2. \A h : h \in Hs => \E p \in Evidence(x) : h \in LineupOf(p).heroes
    BY <1>2, <1>3
  <2>3. \A p \in Evidence(x) : \A h \in LineupOf(p).heroes : h \in Hs
    BY <1>2, <1>3
  <2> QED BY <2>1, <2>2, <2>3 DEF HeroSeen
<1>5. PICK tally : tally = [h \in Hs |-> LET on == {l \in ls : h \in l.heroes} IN
                                         [maps |-> Cardinality(on), wins |-> Cardinality({l \in on : l.won})]]
  OBVIOUS
<1>6. rates = [h \in {i \in DOMAIN tally : tally[i].maps >= floor} |-> tally[h]]
  BY <1>1, <1>3, <1>5 DEF heroWinRates
<1>7. ASSUME NEW h \in Hs PROVE tally[h] = RateOf(x, h)
  <2>1. PICK on : on = {l \in ls : h \in l.heroes}
    OBVIOUS
  <2>2. tally[h] = [maps |-> Cardinality(on), wins |-> Cardinality({l \in on : l.won})]
    BY <1>5, <2>1
  <2>3. on = LineupsOfSome(EvidenceOn(x, h))
    <3>1. \A p \in Evidence(x) : LineupOf(p).heroes = Lineup(p)
      BY DEF LineupOf
    <3> QED BY <1>2, <2>1, <3>1 DEF LineupsOfSome, EvidenceOn
  <2>4. {l \in on : l.won} = LineupsOfSome(Won(EvidenceOn(x, h)))
    <3>1. \A p : LineupOf(p).won <=> p[2].g.winner = p[1]
      BY DEF LineupOf
    <3>2. \A l \in on : l.won => \E p \in Won(EvidenceOn(x, h)) : l = LineupOf(p)
      BY <2>3, <3>1 DEF LineupsOfSome, Won
    <3>3. \A p \in Won(EvidenceOn(x, h)) : LineupOf(p) \in on /\ LineupOf(p).won
      BY <2>3, <3>1 DEF LineupsOfSome, Won
    <3> QED BY <3>2, <3>3 DEF LineupsOfSome
  <2>5. EvidenceOn(x, h) \in SUBSET Evidence(x) /\ Won(EvidenceOn(x, h)) \in SUBSET Evidence(x)
    BY DEF EvidenceOn, Won
  <2>6. /\ Cardinality(on) = Cardinality(EvidenceOn(x, h))
        /\ Cardinality({l \in on : l.won}) = Cardinality(Won(EvidenceOn(x, h)))
    BY <2>3, <2>4, <2>5, LineupsCount
  <2> QED BY <2>2, <2>6 DEF RateOf
<1>8. \A h : h \in DOMAIN rates <=> h \in Hs /\ Cardinality(EvidenceOn(x, h)) >= floor
  <2>1. DOMAIN tally = Hs
    BY <1>5
  <2>2. \A h \in Hs : tally[h].maps = Cardinality(EvidenceOn(x, h))
    <3> TAKE h \in Hs
    <3>1. tally[h] = RateOf(x, h)
      BY <1>7
    <3> QED BY <3>1 DEF RateOf
  <2> QED BY <1>6, <2>1, <2>2
<1>9. \A h \in DOMAIN rates : rates[h] = RateOf(x, h)
  BY <1>6, <1>7, <1>8
<1> QED BY <1>4, <1>8, <1>9

\* What is evidence of a hero is among what its comps count.
LEMMA RatesInside ==
    ASSUME NEW x, IsSeason(x.season), NEW comps, comps = mostPlayedComps(x), NEW h
    PROVE  /\ IsFiniteSet(EvidenceOn(x, h)) /\ IsFiniteSet(Won(EvidenceOn(x, h)))
           /\ RateOf(x, h).maps <= MapsOfComps(comps, {c \in DOMAIN comps : h \in c})
           /\ RateOf(x, h).wins <= WinsOfComps(comps, {c \in DOMAIN comps : h \in c})
<1>1. PICK Cs \in SUBSET DOMAIN comps : Cs = {c \in DOMAIN comps : h \in c}
  OBVIOUS
<1>2. EvidenceOn(x, h) \subseteq PairsIn(x, Cs)
  BY <1>1, CompsOfPairs DEF EvidenceOn, Evidence, PairsIn
<1>3. Won(EvidenceOn(x, h)) \subseteq Won(PairsIn(x, Cs))
  BY <1>2 DEF Won
<1>4. /\ IsFiniteSet(PairsIn(x, Cs)) /\ IsFiniteSet(Won(PairsIn(x, Cs)))
      /\ MapsOfComps(comps, Cs) = Cardinality(PairsIn(x, Cs))
      /\ WinsOfComps(comps, Cs) = Cardinality(Won(PairsIn(x, Cs)))
  BY CompSums
<1>5. /\ IsFiniteSet(EvidenceOn(x, h)) /\ Cardinality(EvidenceOn(x, h)) <= Cardinality(PairsIn(x, Cs))
      /\ IsFiniteSet(Won(EvidenceOn(x, h)))
      /\ Cardinality(Won(EvidenceOn(x, h))) <= Cardinality(Won(PairsIn(x, Cs)))
  BY <1>2, <1>3, <1>4, FS_Subset
<1> QED BY <1>1, <1>4, <1>5 DEF RateOf

\* The maps that a hero was on for both of the teams.
Mirrored(x, h) == {r \in winnerOf(x) : \A t \in {r.m.f1, r.m.f2} : h \in HeroesOf(r.g, t)}

\* A hero of both teams wins one of its two pairs, and loses the other.
LEMMA MirroredHeroes ==
    ASSUME NEW x, IsSeason(x.season), NEW h
    PROVE  /\ RateOf(x, h).wins >= Cardinality(Mirrored(x, h))
           /\ RateOf(x, h).maps - RateOf(x, h).wins >= Cardinality(Mirrored(x, h))
<1>1. PICK ps, ws, ls : ps = EvidenceOn(x, h) /\ ws = Won(EvidenceOn(x, h)) /\ ls = ps \ ws
  OBVIOUS
<1>2. PICK ms : ms = Mirrored(x, h)
  OBVIOUS
<1>3. IsFiniteSet(ps) /\ IsFiniteSet(ws) /\ IsFiniteSet(ls) /\ ws \subseteq ps
  <2>1. IsFiniteSet(ps) /\ ws \subseteq ps
    <3>1. EvidenceOn(x, h) \subseteq Pairs(x)
      BY DEF EvidenceOn, Evidence
    <3> QED BY <1>1, <3>1, PairsAre, FS_Subset DEF Won
  <2> QED BY <1>1, <2>1, FS_Subset
<1>4. Cardinality(ls) = Cardinality(ps) - Cardinality(ws)
  <2>1. ps \cap ws = ws
    BY <1>3
  <2>2. Cardinality(ps \ ws) = Cardinality(ps) - Cardinality(ps \cap ws)
    BY <1>3, FS_Difference
  <2> QED BY <1>1, <2>1, <2>2
<1>5. IsFiniteSet(ms)
  <2>1. ms \subseteq Rows(x.season)
    BY <1>2, WinnersAre DEF Mirrored
  <2> QED BY <2>1, RowsAre, FS_Subset
<1>6. ASSUME NEW r \in ms, NEW t \in {r.m.f1, r.m.f2} PROVE <<t, r>> \in ps
  <2>1. r \in winnerOf(x) /\ h \in HeroesOf(r.g, t)
    BY <1>2 DEF Mirrored
  <2>2. r \in Rows(x.season) /\ r.m \in InView(x)
    BY <2>1, WinnersAre
  <2>3. r \in MapsCaptured(x.season) /\ t \in TeamNames(x)
    BY <2>1, <2>2, CapturedAre, ListsAre
  <2> QED BY <1>1, <2>1, <2>3 DEF EvidenceOn, Evidence, Pairs, Lineup
<1>7. \A r \in ms : r.g.winner \in {r.m.f1, r.m.f2} /\ r.m.f1 # r.m.f2
  BY <1>2, WinnersAre DEF Mirrored
<1>8. PICK f : f = [r \in ms |-> <<r.g.winner, r>>]
  OBVIOUS
<1>9. PICK g : g = [r \in ms |-> <<IF r.g.winner = r.m.f1 THEN r.m.f2 ELSE r.m.f1, r>>]
  OBVIOUS
<1>10. Image(ms, f) \subseteq ws
  <2>1. \A r \in ms : f[r] \in ps /\ f[r][2].g.winner = f[r][1]
    BY <1>6, <1>7, <1>8
  <2>2. \A r \in ms : f[r] \in ws
    BY <1>1, <2>1 DEF Won
  <2> QED BY <2>2 DEF Image
<1>11. Image(ms, g) \subseteq ls
  <2>1. \A r \in ms : g[r] \in ps /\ g[r][2].g.winner # g[r][1]
    BY <1>6, <1>7, <1>9
  <2>2. \A r \in ms : g[r] \in ls
    BY <1>1, <2>1 DEF Won
  <2> QED BY <2>2 DEF Image
<1>12. \A q, r \in ms : (f[q] = f[r] => q = r) /\ (g[q] = g[r] => q = r)
  BY <1>8, <1>9
<1>13. Cardinality(Image(ms, f)) = Cardinality(ms) /\ Cardinality(Image(ms, g)) = Cardinality(ms)
  BY <1>5, <1>12, ImageOf
<1>14. Cardinality(ms) <= Cardinality(ws) /\ Cardinality(ms) <= Cardinality(ls)
  BY <1>3, <1>10, <1>11, <1>13, FS_Subset
<1>15. Cardinality(ms) \in Nat /\ Cardinality(ws) \in Nat /\ Cardinality(ls) \in Nat /\ Cardinality(ps) \in Nat
  BY <1>3, <1>5, FS_CardinalityType
<1>16. RateOf(x, h).maps = Cardinality(ps) /\ RateOf(x, h).wins = Cardinality(ws)
  BY <1>1 DEF RateOf
<1> QED BY <1>2, <1>4, <1>14, <1>15, <1>16

-----------------------------------------------------------------------------
(* The heroes of the players *)

\* What a player was seen on a hero in, and what the player's team won of it.
PlayedOn(s, n, h) == {r \in RowsFor(s, n) : n \in DOMAIN r.g.hero /\ r.g.hero[n] = h}
WonOn(s, n, h) == {r \in PlayedOn(s, n, h) : r.g.winner = r.g.side[n]}

LEMMA PoolIs ==
    ASSUME NEW s, IsSeason(s), NEW n, NEW pool, pool = playerHeroPool(s, n)
    PROVE  /\ \A h : h \in DOMAIN pool <=> h # "unseen" /\ PlayedOn(s, n, h) # {}
           /\ \A h \in DOMAIN pool : /\ pool[h].games = Cardinality(PlayedOn(s, n, h))
                                     /\ pool[h].wins = Cardinality(WonOn(s, n, h))
           /\ \A h : IsFiniteSet(PlayedOn(s, n, h)) /\ IsFiniteSet(WonOn(s, n, h))
<1>1. PICK games : games = playerGames(s, n)
  OBVIOUS
<1>2. games = {PlayedIn(r, n) : r \in RowsFor(s, n)}
  BY <1>1, GamesAre
<1>3. pool = [h \in {g.hero : g \in games} \ {"unseen"} |->
                Tally({g \in games : g.hero = h}, {g \in games : g.won})]
  BY <1>1 DEF playerHeroPool
<1>4. \A r : /\ PlayedIn(r, n).hero = (IF n \in DOMAIN r.g.hero THEN r.g.hero[n] ELSE "unseen")
             /\ PlayedIn(r, n).won <=> r.g.winner = r.g.side[n]
  BY DEF PlayedIn
<1>5. \A h : h # "unseen" => PlayedOn(s, n, h) = {r \in RowsFor(s, n) : PlayedIn(r, n).hero = h}
  BY <1>4 DEF PlayedOn
<1>6. ASSUME NEW h PROVE h \in DOMAIN pool <=> h # "unseen" /\ PlayedOn(s, n, h) # {}
  <2>1. h \in DOMAIN pool <=> h # "unseen" /\ \E g \in games : g.hero = h
    BY <1>3
  <2>2. (\E g \in games : g.hero = h) <=> \E r \in RowsFor(s, n) : PlayedIn(r, n).hero = h
    BY <1>2
  <2> QED BY <1>5, <2>1, <2>2
<1>7. ASSUME NEW h \in DOMAIN pool
      PROVE  pool[h].games = Cardinality(PlayedOn(s, n, h)) /\ pool[h].wins = Cardinality(WonOn(s, n, h))
  <2>1. h # "unseen"
    BY <1>6
  <2>2. pool[h] = Tally({g \in games : g.hero = h}, {g \in games : g.won})
    BY <1>3
  <2>3. /\ pool[h].games = Cardinality({g \in games : g.hero = h})
        /\ pool[h].wins = Cardinality({g \in games : g.hero = h} \cap {g \in games : g.won})
    BY <2>2 DEF Tally
  <2>4. {g \in games : g.hero = h} = GamesOfSome(PlayedOn(s, n, h), n)
    <3>1. \A g \in games : g.hero = h => \E r \in PlayedOn(s, n, h) : g = PlayedIn(r, n)
      BY <1>2, <1>5, <2>1
    <3>2. \A r \in PlayedOn(s, n, h) : PlayedIn(r, n) \in games /\ PlayedIn(r, n).hero = h
      BY <1>2, <1>5, <2>1
    <3> QED BY <3>1, <3>2 DEF GamesOfSome
  <2>5. {g \in games : g.hero = h} \cap {g \in games : g.won} = GamesOfSome(WonOn(s, n, h), n)
    <3>1. \A r : r \in WonOn(s, n, h) <=> r \in PlayedOn(s, n, h) /\ PlayedIn(r, n).won
      BY <1>4 DEF WonOn
    <3>2. \A g : g \in {y \in games : y.hero = h} \cap {y \in games : y.won} <=>
                 g \in GamesOfSome(PlayedOn(s, n, h), n) /\ g.won
      BY <2>4
    <3>3. \A g \in GamesOfSome(PlayedOn(s, n, h), n) : \E r \in PlayedOn(s, n, h) : g = PlayedIn(r, n)
      BY DEF GamesOfSome
    <3>4. \A r \in PlayedOn(s, n, h) : PlayedIn(r, n) \in GamesOfSome(PlayedOn(s, n, h), n)
      BY DEF GamesOfSome
    <3>5. \A g \in GamesOfSome(WonOn(s, n, h), n) : \E r \in WonOn(s, n, h) : g = PlayedIn(r, n)
      BY DEF GamesOfSome
    <3>6. \A r \in WonOn(s, n, h) : PlayedIn(r, n) \in GamesOfSome(WonOn(s, n, h), n)
      BY DEF GamesOfSome
    <3> QED BY <3>1, <3>2, <3>3, <3>4, <3>5, <3>6
  <2>6. PlayedOn(s, n, h) \in SUBSET RowsFor(s, n) /\ WonOn(s, n, h) \in SUBSET RowsFor(s, n)
    BY DEF PlayedOn, WonOn
  <2>7. Cardinality(GamesOfSome(PlayedOn(s, n, h), n)) = Cardinality(PlayedOn(s, n, h))
    BY <2>6, GamesCount
  <2>8. Cardinality(GamesOfSome(WonOn(s, n, h), n)) = Cardinality(WonOn(s, n, h))
    BY <2>6, GamesCount
  <2> QED BY <2>3, <2>4, <2>5, <2>7, <2>8
<1>8. ASSUME NEW h PROVE IsFiniteSet(PlayedOn(s, n, h)) /\ IsFiniteSet(WonOn(s, n, h))
  <2>1. PlayedOn(s, n, h) \in SUBSET RowsFor(s, n) /\ WonOn(s, n, h) \in SUBSET RowsFor(s, n)
    BY DEF PlayedOn, WonOn
  <2> QED BY <2>1, GamesCount
<1> QED BY <1>6, <1>7, <1>8

\* Whom the rosters name.
Nicks(s) == UNION {UNION {DOMAIN g.side : g \in m.games} : m \in s}

LEMMA NicksAre ==
    ASSUME NEW s, IsSeason(s)
    PROVE  /\ IsFiniteSet(Nicks(s))
           /\ \A r \in Rows(s) : \A n \in DOMAIN r.g.side : n \in Nicks(s)
<1>1. PICK of : of = [m \in s |-> UNION {DOMAIN g.side : g \in m.games}]
  OBVIOUS
<1>2. ASSUME NEW m \in s PROVE IsFiniteSet(of[m])
  <2>1. PICK Gs : Gs = m.games
    OBVIOUS
  <2>2. IsFiniteSet(Gs) /\ \A g \in Gs : IsFiniteSet(DOMAIN g.side)
    BY <2>1 DEF IsSeason, IsGame
  <2>3. PICK f : f = [g \in Gs |-> DOMAIN g.side]
    OBVIOUS
  <2>4. IsFiniteSet(Image(Gs, f)) /\ \A X \in Image(Gs, f) : IsFiniteSet(X)
    <3>1. IsFiniteSet(Image(Gs, f))
      BY <2>2, ImageOf
    <3>2. \A X \in Image(Gs, f) : IsFiniteSet(X)
      BY <2>2, <2>3 DEF Image
    <3> QED BY <3>1, <3>2
  <2>5. of[m] = UNION Image(Gs, f)
    BY <1>1, <2>1, <2>3 DEF Image
  <2> QED BY <2>4, <2>5, FS_UNION
<1>3. IsFiniteSet(Image(s, of))
  BY ImageOf DEF IsSeason
<1>4. \A X \in Image(s, of) : IsFiniteSet(X)
  BY <1>2 DEF Image
<1>5. Nicks(s) = UNION Image(s, of)
  BY <1>1 DEF Nicks, Image
<1>6. IsFiniteSet(Nicks(s))
  BY <1>3, <1>4, <1>5, FS_UNION
<1>7. ASSUME NEW r \in Rows(s), NEW n \in DOMAIN r.g.side PROVE n \in Nicks(s)
  <2>1. r.m \in s /\ r.g \in r.m.games
    BY RowsAre
  <2>2. n \in UNION {DOMAIN g.side : g \in r.m.games}
    BY <2>1
  <2> QED BY <2>1, <2>2 DEF Nicks
<1> QED BY <1>6, <1>7

\* What the pools of all players count of a hero.
AllPools(s) == [n \in Nicks(s) |-> playerHeroPool(s, n)]
PlayersOf(s, h) == {n \in Nicks(s) : h \in DOMAIN AllPools(s)[n]}
AllOf(s, h) ==
    [maps |-> SumOver(PlayersOf(s, h), [n \in PlayersOf(s, h) |-> AllPools(s)[n][h].games]),
     wins |-> SumOver(PlayersOf(s, h), [n \in PlayersOf(s, h) |-> AllPools(s)[n][h].wins])]

\* All that is captured is evidence, and no two of a team play a hero.
Alone(x) == \A r \in MapsCaptured(x.season) : ~r.m.playoff /\ r.m.cid \in x.view /\ r.g.winner # "nobody"
Once(x) ==
    \A r \in MapsCaptured(x.season) : \A p, q \in DOMAIN r.g.hero :
      r.g.hero[p] = r.g.hero[q] => p = q \/ r.g.side[p] # r.g.side[q]

\* A player and a map the player was seen on the hero in, as the team and the map.
SeatedIn(s, h) == PairsOf(PlayersOf(s, h), [n \in PlayersOf(s, h) |-> PlayedOn(s, n, h)])
SeatsWon(s, h) == PairsOf(PlayersOf(s, h), [n \in PlayersOf(s, h) |-> WonOn(s, n, h)])
TeamOnIt(e) == <<e[2].g.side[e[1]], e[2]>>

LEMMA SeatsAre ==
    ASSUME NEW s, IsSeason(s), NEW h, h # "unseen"
    PROVE  /\ IsFiniteSet(SeatedIn(s, h)) /\ IsFiniteSet(SeatsWon(s, h))
           /\ AllOf(s, h).maps = Cardinality(SeatedIn(s, h)) /\ AllOf(s, h).wins = Cardinality(SeatsWon(s, h))
           /\ \A e \in SeatedIn(s, h) : e = <<e[1], e[2]>> /\ e[2] \in PlayedOn(s, e[1], h)
           /\ \A n : \A r \in PlayedOn(s, n, h) : <<n, r>> \in SeatedIn(s, h)
           /\ \A e : e \in SeatsWon(s, h) <=> e \in SeatedIn(s, h) /\ e[2].g.winner = e[2].g.side[e[1]]
<1>1. PICK Ns : Ns = PlayersOf(s, h)
  OBVIOUS
<1>2. IsFiniteSet(Ns) /\ Ns \subseteq Nicks(s)
  BY <1>1, NicksAre, FS_Subset DEF PlayersOf
<1>3. PICK of : of = [n \in Ns |-> PlayedOn(s, n, h)]
  OBVIOUS
<1>4. PICK ow : ow = [n \in Ns |-> WonOn(s, n, h)]
  OBVIOUS
<1>5. PICK f : f = [n \in Ns |-> AllPools(s)[n][h].games]
  OBVIOUS
<1>6. PICK w : w = [n \in Ns |-> AllPools(s)[n][h].wins]
  OBVIOUS
<1>7. ASSUME NEW n \in Nicks(s)
      PROVE  /\ n \in Ns <=> PlayedOn(s, n, h) # {}
             /\ n \in Ns => /\ AllPools(s)[n][h].games = Cardinality(PlayedOn(s, n, h))
                            /\ AllPools(s)[n][h].wins = Cardinality(WonOn(s, n, h))
             /\ IsFiniteSet(PlayedOn(s, n, h)) /\ IsFiniteSet(WonOn(s, n, h))
  <2>1. PICK pool : pool = playerHeroPool(s, n)
    OBVIOUS
  <2>2. AllPools(s)[n] = pool
    BY <2>1 DEF AllPools
  <2>3. n \in Ns <=> h \in DOMAIN pool
    BY <1>1, <2>2 DEF PlayersOf
  <2>4. n \in Ns <=> PlayedOn(s, n, h) # {}
    BY <2>1, <2>3, PoolIs
  <2>5. n \in Ns => /\ pool[h].games = Cardinality(PlayedOn(s, n, h))
                    /\ pool[h].wins = Cardinality(WonOn(s, n, h))
    BY <2>1, <2>3, PoolIs
  <2>6. IsFiniteSet(PlayedOn(s, n, h)) /\ IsFiniteSet(WonOn(s, n, h))
    BY PoolIs
  <2> QED BY <2>2, <2>4, <2>5, <2>6
<1>8. Each(Ns, of, f) /\ Each(Ns, ow, w)
  <2>1. \A n \in Ns : of[n] = PlayedOn(s, n, h) /\ ow[n] = WonOn(s, n, h)
    BY <1>3, <1>4
  <2>2. \A n \in Ns : f[n] = Cardinality(PlayedOn(s, n, h)) /\ w[n] = Cardinality(WonOn(s, n, h))
    BY <1>2, <1>5, <1>6, <1>7
  <2>3. \A n \in Ns : IsFiniteSet(PlayedOn(s, n, h)) /\ IsFiniteSet(WonOn(s, n, h))
    BY <1>2, <1>7
  <2> QED BY <2>1, <2>2, <2>3 DEF Each
<1>9. SeatedIn(s, h) = PairsOf(Ns, of) /\ SeatsWon(s, h) = PairsOf(Ns, ow)
  BY <1>1, <1>3, <1>4 DEF SeatedIn, SeatsWon
<1>10. /\ IsFiniteSet(SeatedIn(s, h)) /\ SumOver(Ns, f) = Cardinality(SeatedIn(s, h))
       /\ IsFiniteSet(SeatsWon(s, h)) /\ SumOver(Ns, w) = Cardinality(SeatsWon(s, h))
  BY <1>2, <1>8, <1>9, PairsCount
<1>11. AllOf(s, h).maps = SumOver(Ns, f) /\ AllOf(s, h).wins = SumOver(Ns, w)
  BY <1>1, <1>5, <1>6 DEF AllOf
<1>12. /\ \A e \in SeatedIn(s, h) : \E n \in Ns : \E r \in PlayedOn(s, n, h) : e = <<n, r>>
       /\ \A n \in Ns : \A r \in PlayedOn(s, n, h) : <<n, r>> \in SeatedIn(s, h)
  <2>1. /\ \A e \in SeatedIn(s, h) : \E n \in Ns : \E r \in of[n] : e = <<n, r>>
        /\ \A n \in Ns : \A r \in of[n] : <<n, r>> \in SeatedIn(s, h)
    BY <1>9 DEF PairsOf
  <2> QED BY <1>3, <2>1
<1>13. /\ \A e \in SeatsWon(s, h) : \E n \in Ns : \E r \in WonOn(s, n, h) : e = <<n, r>>
       /\ \A n \in Ns : \A r \in WonOn(s, n, h) : <<n, r>> \in SeatsWon(s, h)
  <2>1. /\ \A e \in SeatsWon(s, h) : \E n \in Ns : \E r \in ow[n] : e = <<n, r>>
        /\ \A n \in Ns : \A r \in ow[n] : <<n, r>> \in SeatsWon(s, h)
    BY <1>9 DEF PairsOf
  <2> QED BY <1>4, <2>1
<1>14. ASSUME NEW e \in SeatedIn(s, h) PROVE e = <<e[1], e[2]>> /\ e[1] \in Ns /\ e[2] \in PlayedOn(s, e[1], h)
  <2>1. PICK n \in Ns : \E r \in PlayedOn(s, n, h) : e = <<n, r>>
    BY <1>12
  <2>2. PICK r \in PlayedOn(s, n, h) : e = <<n, r>>
    BY <2>1
  <2> QED BY <2>2
<1>15. ASSUME NEW n, NEW r \in PlayedOn(s, n, h) PROVE <<n, r>> \in SeatedIn(s, h)
  <2>1. r \in Rows(s) /\ n \in DOMAIN r.g.side
    BY DEF PlayedOn, RowsFor
  <2>2. n \in Ns
    BY <1>7, <2>1, NicksAre
  <2> QED BY <1>12, <2>2
<1>16. ASSUME NEW e PROVE e \in SeatsWon(s, h) <=> e \in SeatedIn(s, h) /\ e[2].g.winner = e[2].g.side[e[1]]
  <2>1. ASSUME e \in SeatsWon(s, h) PROVE e \in SeatedIn(s, h) /\ e[2].g.winner = e[2].g.side[e[1]]
    <3>1. PICK n \in Ns : \E r \in WonOn(s, n, h) : e = <<n, r>>
      BY <1>13, <2>1
    <3>2. PICK r \in WonOn(s, n, h) : e = <<n, r>>
      BY <3>1
    <3>3. r \in PlayedOn(s, n, h) /\ r.g.winner = r.g.side[n]
      BY DEF WonOn
    <3> QED BY <1>12, <3>2, <3>3
  <2>2. ASSUME e \in SeatedIn(s, h), e[2].g.winner = e[2].g.side[e[1]] PROVE e \in SeatsWon(s, h)
    <3>1. e[2] \in WonOn(s, e[1], h)
      BY <1>14, <2>2 DEF WonOn
    <3> QED BY <1>13, <1>14, <2>2, <3>1
  <2> QED BY <2>1, <2>2
<1> QED BY <1>10, <1>11, <1>14, <1>15, <1>16

\* Where all that is captured is evidence, the pools count what the win rates count.
LEMMA PoolsCountRates ==
    ASSUME NEW x, IsSeason(x.season), NEW h, h # "unseen", Alone(x), Once(x)
    PROVE  RateOf(x, h) = AllOf(x.season, h)
<1>1. PICK s : s = x.season
  OBVIOUS
<1>2. PICK es, ws : es = SeatedIn(s, h) /\ ws = SeatsWon(s, h)
  OBVIOUS
<1>3. /\ IsFiniteSet(es) /\ IsFiniteSet(ws)
      /\ AllOf(s, h).maps = Cardinality(es) /\ AllOf(s, h).wins = Cardinality(ws)
      /\ \A e \in es : e = <<e[1], e[2]>> /\ e[2] \in PlayedOn(s, e[1], h)
      /\ \A n : \A r \in PlayedOn(s, n, h) : <<n, r>> \in es
      /\ \A e : e \in ws <=> e \in es /\ e[2].g.winner = e[2].g.side[e[1]]
  BY <1>1, <1>2, SeatsAre
<1>4. PICK f : f = [e \in es |-> TeamOnIt(e)]
  OBVIOUS
<1>5. ASSUME NEW n, NEW r \in PlayedOn(s, n, h)
      PROVE  /\ <<r.g.side[n], r>> \in EvidenceOn(x, h)
             /\ r \in MapsCaptured(s) /\ n \in DOMAIN r.g.hero /\ r.g.hero[n] = h
  <2>1. r \in Rows(s) /\ n \in DOMAIN r.g.hero /\ r.g.hero[n] = h /\ n \in DOMAIN r.g.side
    BY DEF PlayedOn, RowsFor
  <2>2. PICK t : t = r.g.side[n]
    OBVIOUS
  <2>3. h \in HeroesOf(r.g, t)
    BY <2>1, <2>2 DEF HeroesOf
  <2>4. r \in MapsCaptured(s) /\ t \in {r.m.f1, r.m.f2}
    BY <1>1, <2>1, <2>3, CapturedAre
  <2>5. r \in winnerOf(x)
    BY <1>1, <2>1, <2>4, WinnersAre DEF Alone
  <2>6. t \in TeamNames(x)
    BY <2>4, <2>5, WinnersAre, ListsAre
  <2>7. <<t, r>> \in EvidenceOn(x, h)
    BY <1>1, <2>3, <2>4, <2>5, <2>6 DEF EvidenceOn, Evidence, Pairs, Lineup
  <2> QED BY <2>1, <2>2, <2>4, <2>7
<1>6. ASSUME NEW p \in EvidenceOn(x, h)
      PROVE  \E e \in es : TeamOnIt(e) = p
  <2>1. p \in Pairs(x) /\ h \in HeroesOf(p[2].g, p[1])
    BY DEF EvidenceOn, Evidence, Lineup
  <2>2. p = <<p[1], p[2]>> /\ p[2] \in Rows(s)
    BY <1>1, <2>1, PairsAre
  <2>3. PICK n \in DOMAIN p[2].g.hero : p[2].g.side[n] = p[1] /\ p[2].g.hero[n] = h
    BY <2>1 DEF HeroesOf
  <2>4. n \in DOMAIN p[2].g.side
    <3>1. IsGame(p[2].m, p[2].g)
      BY <1>1, <2>2, RowsAre
    <3> QED BY <3>1 DEF IsGame
  <2>5. p[2] \in PlayedOn(s, n, h)
    BY <2>2, <2>3, <2>4 DEF PlayedOn, RowsFor
  <2>6. TeamOnIt(<<n, p[2]>>) = p
    BY <2>2, <2>3 DEF TeamOnIt
  <2> QED BY <1>3, <2>5, <2>6
<1>7. Image(es, f) = EvidenceOn(x, h)
  <2>1. \A e \in es : f[e] \in EvidenceOn(x, h)
    BY <1>3, <1>4, <1>5 DEF TeamOnIt
  <2> QED BY <1>4, <1>6, <2>1 DEF Image
<1>8. \A e \in es : TeamOnIt(e)[2].g.winner = TeamOnIt(e)[1] <=> e \in ws
  BY <1>3 DEF TeamOnIt
<1>9. Image(ws, f) = Won(EvidenceOn(x, h))
  <2>1. \A e \in ws : e \in es /\ f[e] \in Won(EvidenceOn(x, h))
    <3>1. \A e \in ws : e \in es /\ f[e] \in EvidenceOn(x, h) /\ f[e][2].g.winner = f[e][1]
      BY <1>3, <1>4, <1>7, <1>8 DEF Image
    <3> QED BY <3>1 DEF Won
  <2>2. ASSUME NEW p \in Won(EvidenceOn(x, h)) PROVE \E e \in ws : f[e] = p
    <3>1. p \in EvidenceOn(x, h) /\ p[2].g.winner = p[1]
      BY DEF Won
    <3>2. PICK e \in es : TeamOnIt(e) = p
      BY <1>6, <3>1
    <3> QED BY <1>4, <1>8, <3>1, <3>2
  <2> QED BY <2>1, <2>2 DEF Image
<1>10. ASSUME NEW d \in es, NEW e \in es, f[d] = f[e] PROVE d = e
  <2>1. /\ d = <<d[1], d[2]>> /\ d[2] \in PlayedOn(s, d[1], h)
        /\ e = <<e[1], e[2]>> /\ e[2] \in PlayedOn(s, e[1], h)
    BY <1>3
  <2>2. d[2].g.side[d[1]] = e[2].g.side[e[1]] /\ d[2] = e[2]
    BY <1>4, <1>10 DEF TeamOnIt
  <2>3. PICK r : r = d[2] /\ r = e[2]
    BY <2>2
  <2>4. /\ r \in MapsCaptured(s) /\ d[1] \in DOMAIN r.g.hero /\ e[1] \in DOMAIN r.g.hero
        /\ r.g.hero[d[1]] = h /\ r.g.hero[e[1]] = h /\ r.g.side[d[1]] = r.g.side[e[1]]
    BY <1>5, <2>1, <2>2, <2>3
  <2>5. d[1] = e[1]
    BY <1>1, <2>4 DEF Once
  <2> QED BY <2>1, <2>2, <2>5
<1>11. \A e \in ws : e \in es
  BY <1>3
<1>12. /\ Cardinality(EvidenceOn(x, h)) = Cardinality(es)
       /\ Cardinality(Won(EvidenceOn(x, h))) = Cardinality(ws)
  BY <1>3, <1>7, <1>9, <1>10, <1>11, ImageOf
<1>13. AllOf(s, h) = [maps |-> AllOf(s, h).maps, wins |-> AllOf(s, h).wins]
  BY DEF AllOf
<1> QED BY <1>1, <1>3, <1>12, <1>13 DEF RateOf

-----------------------------------------------------------------------------
(* The plays of each map *)

\* The maps of a set of rows, and the plays of one or of those of a mode.
Plays(ros, mp) == {r \in ros : r.g.map = mp}
PlaysOfMode(ros, cat) == {r \in ros : CategoryOf[r.g.map] = cat}
MapsOfMode(ros, cat) == {mp \in {r.g.map : r \in ros} : CategoryOf[mp] = cat}
PlaysOf(ros, cat) == [mp \in MapsOfMode(ros, cat) |-> Cardinality(Plays(ros, mp))]
ModeNames(ros) == {CategoryOf[mp] : mp \in {r.g.map : r \in ros}}

\* Each is of one map, and each map of one mode.
LEMMA PlaysAddUp ==
    ASSUME NEW ros, IsFiniteSet(ros)
    PROVE  /\ \A cat \in ModeNames(ros) :
                SumOver(MapsOfMode(ros, cat), PlaysOf(ros, cat)) = Cardinality(PlaysOfMode(ros, cat))
           /\ SumOver(ModeNames(ros), [cat \in ModeNames(ros) |-> Cardinality(PlaysOfMode(ros, cat))])
                = Cardinality(ros)
<1>1. PICK Ms : Ms = {r.g.map : r \in ros}
  OBVIOUS
<1>2. PICK f : f = [r \in ros |-> r.g.map]
  OBVIOUS
<1>3. PICK c : c = [r \in ros |-> CategoryOf[r.g.map]]
  OBVIOUS
<1>4. Ms = Image(ros, f)
  BY <1>1, <1>2 DEF Image
<1>5. ModeNames(ros) = Image(ros, c)
  <2>1. \A cat \in ModeNames(ros) : \E mp \in Ms : cat = CategoryOf[mp]
    BY <1>1 DEF ModeNames
  <2>2. \A mp \in Ms : CategoryOf[mp] \in ModeNames(ros)
    BY <1>1 DEF ModeNames
  <2>3. \A mp \in Ms : \E r \in ros : mp = r.g.map
    BY <1>1
  <2>4. \A r \in ros : r.g.map \in Ms
    BY <1>1
  <2> QED BY <1>3, <2>1, <2>2, <2>3, <2>4 DEF Image
<1>6. IsFiniteSet(Ms) /\ IsFiniteSet(ModeNames(ros))
  BY <1>4, <1>5, ImageOf
<1>7. ASSUME NEW cat \in ModeNames(ros)
      PROVE  SumOver(MapsOfMode(ros, cat), PlaysOf(ros, cat)) = Cardinality(PlaysOfMode(ros, cat))
  <2>1. PICK Ks : Ks = MapsOfMode(ros, cat)
    OBVIOUS
  <2>2. IsFiniteSet(Ks) /\ \A mp : mp \in Ks <=> mp \in Ms /\ CategoryOf[mp] = cat
    <3>1. \A mp : mp \in Ks <=> mp \in Ms /\ CategoryOf[mp] = cat
      BY <1>1, <2>1 DEF MapsOfMode
    <3>2. Ks \subseteq Ms
      BY <3>1
    <3> QED BY <1>6, <3>1, <3>2, FS_Subset
  <2>3. PICK of : of = [mp \in Ks |-> Plays(ros, mp)]
    OBVIOUS
  <2>4. PICK g : g = PlaysOf(ros, cat)
    OBVIOUS
  <2>5. Each(Ks, of, g)
    <3>1. \A mp \in Ks : IsFiniteSet(Plays(ros, mp))
      BY FS_Subset DEF Plays
    <3>2. \A mp \in Ks : g[mp] = Cardinality(Plays(ros, mp))
      BY <2>1, <2>4 DEF PlaysOf
    <3> QED BY <2>3, <3>1, <3>2 DEF Each
  <2>6. All(Ks, of) = PlaysOfMode(ros, cat)
    <3>1. ASSUME NEW r \in All(Ks, of) PROVE r \in PlaysOfMode(ros, cat)
      <4>1. PICK mp \in Ks : r \in of[mp]
        BY DEF All
      <4> QED BY <2>2, <2>3, <4>1 DEF Plays, PlaysOfMode
    <3>2. ASSUME NEW r \in PlaysOfMode(ros, cat) PROVE r \in All(Ks, of)
      <4>1. r \in ros /\ CategoryOf[r.g.map] = cat
        BY DEF PlaysOfMode
      <4>2. r.g.map \in Ks
        BY <1>1, <2>2, <4>1
      <4>3. r \in of[r.g.map]
        BY <2>3, <4>1, <4>2 DEF Plays
      <4> QED BY <4>2, <4>3 DEF All
    <3> QED BY <3>1, <3>2
  <2>7. \A k, l \in Ks : k # l => of[k] \cap of[l] = {}
    BY <2>3 DEF Plays
  <2> QED BY <2>1, <2>2, <2>4, <2>5, <2>6, <2>7, SumOfClasses
<1>8. SumOver(ModeNames(ros), [cat \in ModeNames(ros) |-> Cardinality(PlaysOfMode(ros, cat))]) = Cardinality(ros)
  <2>1. PICK Ks : Ks = ModeNames(ros)
    OBVIOUS
  <2>2. PICK of : of = [cat \in Ks |-> PlaysOfMode(ros, cat)]
    OBVIOUS
  <2>3. PICK g : g = [cat \in Ks |-> Cardinality(PlaysOfMode(ros, cat))]
    OBVIOUS
  <2>4. Each(Ks, of, g)
    <3>1. \A cat \in Ks : IsFiniteSet(PlaysOfMode(ros, cat))
      BY FS_Subset DEF PlaysOfMode
    <3> QED BY <2>2, <2>3, <3>1 DEF Each
  <2>5. All(Ks, of) = ros
    <3>1. \A r \in All(Ks, of) : r \in ros
      BY <2>2 DEF All, PlaysOfMode
    <3>2. ASSUME NEW r \in ros PROVE r \in All(Ks, of)
      <4>1. PICK cat : cat = CategoryOf[r.g.map]
        OBVIOUS
      <4>2. cat \in Ks
        BY <1>3, <1>5, <2>1, <4>1 DEF Image
      <4>3. r \in of[cat]
        BY <2>2, <4>1, <4>2 DEF PlaysOfMode
      <4> QED BY <4>2, <4>3 DEF All
    <3> QED BY <3>1, <3>2
  <2>6. \A k, l \in Ks : k # l => of[k] \cap of[l] = {}
    BY <2>2 DEF PlaysOfMode
  <2>7. SumOver(Ks, g) = Cardinality(ros)
    BY <1>6, <2>1, <2>4, <2>5, <2>6, SumOfClasses
  <2> QED BY <2>1, <2>3, <2>7
<1> QED BY <1>7, <1>8

\* The plays of the pool are those of the regular season.
PoolSum(pool) == SumOver(DOMAIN pool, [cat \in DOMAIN pool |-> SumOver(DOMAIN pool[cat], pool[cat])])

LEMMA PoolAddsUp ==
    ASSUME NEW x, IsSeason(x.season), NEW pool, pool = mapPool(x)
    PROVE  PoolSum(pool) = Cardinality(MapGames(Regular(x)))
<1>1. PICK ros : ros = MapGames(Regular(x))
  OBVIOUS
<1>2. IsFiniteSet(ros)
  <2>1. ros \subseteq Rows(x.season)
    BY <1>1, WinnersAre
  <2> QED BY <2>1, RowsAre, FS_Subset
<1>3. pool = [cat \in ModeNames(ros) |-> PlaysOf(ros, cat)]
  BY <1>1 DEF mapPool, ModeNames, PlaysOf, MapsOfMode, Plays
<1>4. DOMAIN pool = ModeNames(ros)
  BY <1>3
<1>5. ASSUME NEW cat \in ModeNames(ros)
      PROVE  SumOver(DOMAIN pool[cat], pool[cat]) = Cardinality(PlaysOfMode(ros, cat))
  <2>1. pool[cat] = PlaysOf(ros, cat)
    BY <1>3
  <2>2. DOMAIN pool[cat] = MapsOfMode(ros, cat)
    BY <2>1 DEF PlaysOf
  <2> QED BY <1>2, <2>1, <2>2, PlaysAddUp
<1>6. PICK g : g = [cat \in ModeNames(ros) |-> SumOver(DOMAIN pool[cat], pool[cat])]
  OBVIOUS
<1>7. g = [cat \in ModeNames(ros) |-> Cardinality(PlaysOfMode(ros, cat))]
  BY <1>5, <1>6
<1>8. PoolSum(pool) = SumOver(ModeNames(ros), g)
  BY <1>4, <1>6 DEF PoolSum
<1>9. SumOver(ModeNames(ros), g) = Cardinality(ros)
  BY <1>2, <1>7, PlaysAddUp
<1> QED BY <1>1, <1>8, <1>9

-----------------------------------------------------------------------------

\* A hero of the win rates was seen, and one that counts often enough to be shown is one of them.
LEMMA RatesShow ==
    ASSUME NEW x, IsSeason(x.season), NEW rates, rates = heroWinRates(x, 1)
    PROVE  /\ \A h \in DOMAIN rates : h # "unseen" /\ rates[h] = RateOf(x, h)
           /\ \A floor : \A h \in DOMAIN heroWinRates(x, floor) : rates[h].maps >= floor
<1>1. ASSUME NEW h, HeroSeen(x, h)
      PROVE  h # "unseen" /\ Cardinality(EvidenceOn(x, h)) >= 1
  <2>1. PICK p \in Evidence(x) : h \in Lineup(p)
    BY <1>1 DEF HeroSeen
  <2>2. p \in Pairs(x) /\ h \in HeroesOf(p[2].g, p[1]) /\ p \in EvidenceOn(x, h)
    BY <2>1 DEF Evidence, EvidenceOn, Lineup
  <2>3. IsGame(p[2].m, p[2].g)
    BY <2>2, PairsAre, RowsAre
  <2>4. h # "unseen"
    BY <2>2, <2>3 DEF IsGame, HeroesOf
  <2>5. IsFiniteSet(EvidenceOn(x, h))
    <3>1. EvidenceOn(x, h) \subseteq Pairs(x)
      BY DEF EvidenceOn, Evidence
    <3> QED BY <3>1, PairsAre, FS_Subset
  <2>6. Cardinality(EvidenceOn(x, h)) \in Nat /\ Cardinality(EvidenceOn(x, h)) # 0
    BY <2>2, <2>5, FS_CardinalityType, FS_EmptySet
  <2> QED BY <2>4, <2>6
<1>2. /\ \A h : h \in DOMAIN rates <=> HeroSeen(x, h) /\ Cardinality(EvidenceOn(x, h)) >= 1
      /\ \A h \in DOMAIN rates : rates[h] = RateOf(x, h)
  BY RatesAre
<1>3. ASSUME NEW floor, NEW h \in DOMAIN heroWinRates(x, floor)
      PROVE  rates[h].maps >= floor
  <2>1. HeroSeen(x, h) /\ Cardinality(EvidenceOn(x, h)) >= floor
    BY RatesAre
  <2>2. rates[h] = RateOf(x, h)
    BY <1>1, <1>2, <2>1
  <2> QED BY <2>1, <2>2 DEF RateOf
<1> QED BY <1>1, <1>2, <1>3

\* The tables of a division agree, for every season: what each counts is a set of pairs of a
\* team and a map of it, or of a player and a map, and these are sets of one another.
THEOREM TablesAlwaysAgree ==
    ASSUME NEW x, IsLeague(x)
    PROVE  TablesAgree(x)
<1>1. IsSeason(x.season)
  BY DEF IsLeague
<1> DEFINE comps == mostPlayedComps(x)
           with(h) == {c \in DOMAIN comps : h \in c}
           rates == heroWinRates(x, 1)
           pool == mapPool(x)
<1>2. SumOver(DOMAIN comps, [c \in DOMAIN comps |-> comps[c].maps]) = SumOver(TeamNames(x), capturedMaps(x))
  <2>1. PICK cs : cs = comps
    OBVIOUS
  <2>2. MapsOfComps(cs, DOMAIN cs) = SumOver(TeamNames(x), capturedMaps(x))
    BY <1>1, <2>1, CompsAddUp
  <2> QED BY <2>1, <2>2 DEF MapsOfComps
<1>3. UNION {comps[c].teams : c \in DOMAIN comps} = teamsScouted(x)
  BY <1>1, CompTeams
<1>4. \A c \in DOMAIN comps : comps[c].wins <= comps[c].maps /\ comps[c].maps <= 2 * Cardinality(comps[c].keys)
  BY <1>1, CompTwice
<1>5. ASSUME NEW h \in DOMAIN rates
      PROVE  /\ rates[h].maps <= SumOver(with(h), [c \in with(h) |-> comps[c].maps])
             /\ rates[h].wins <= SumOver(with(h), [c \in with(h) |-> comps[c].wins])
             /\ rates[h].wins >= Cardinality(Mirrored(x, h))
             /\ rates[h].maps - rates[h].wins >= Cardinality(Mirrored(x, h))
             /\ Alone(x) /\ Once(x) => rates[h] = AllOf(x.season, h)
  <2>1. PICK cs : cs = comps
    OBVIOUS
  <2>2. PICK Cs : Cs = with(h)
    OBVIOUS
  <2>3. PICK rs : rs = rates
    OBVIOUS
  <2>4. h \in DOMAIN rs
    BY <2>3
  <2>5. h # "unseen" /\ rs[h] = RateOf(x, h)
    BY <1>1, <2>3, <2>4, RatesShow
  <2>6. Cs = {c \in DOMAIN cs : h \in c}
    BY <2>1, <2>2
  <2>7. RateOf(x, h).maps <= MapsOfComps(cs, Cs) /\ RateOf(x, h).wins <= WinsOfComps(cs, Cs)
    BY <1>1, <2>1, <2>6, RatesInside
  <2>8. /\ SumOver(with(h), [c \in with(h) |-> comps[c].maps]) = MapsOfComps(cs, Cs)
        /\ SumOver(with(h), [c \in with(h) |-> comps[c].wins]) = WinsOfComps(cs, Cs)
    BY <2>1, <2>2 DEF MapsOfComps, WinsOfComps
  <2>9. /\ RateOf(x, h).wins >= Cardinality(Mirrored(x, h))
        /\ RateOf(x, h).maps - RateOf(x, h).wins >= Cardinality(Mirrored(x, h))
    BY <1>1, MirroredHeroes
  <2>10. Alone(x) /\ Once(x) => RateOf(x, h) = AllOf(x.season, h)
    BY <1>1, <2>5, PoolsCountRates
  <2>11. rates[h] = RateOf(x, h)
    BY <2>3, <2>5
  <2> HIDE DEF comps, with, rates
  <2> QED BY <2>7, <2>8, <2>9, <2>10, <2>11
<1>6. \A h \in DOMAIN heroWinRates(x, x.floor) : rates[h].maps >= x.floor
  BY <1>1, RatesShow
<1>7. SumOver(DOMAIN pool, [cat \in DOMAIN pool |-> SumOver(DOMAIN pool[cat], pool[cat])])
        = Cardinality(MapGames(Regular(x)))
  <2>1. PICK p : p = pool
    OBVIOUS
  <2>2. PoolSum(p) = Cardinality(MapGames(Regular(x)))
    BY <1>1, <2>1, PoolAddsUp
  <2> QED BY <2>1, <2>2 DEF PoolSum
<1> QED
  BY <1>2, <1>3, <1>4, <1>5, <1>6, <1>7, Zenon
  DEF TablesAgree, Mirrored, Alone, Once, AllOf, PlayersOf, AllPools, Nicks

-----------------------------------------------------------------------------
(* The captures: a sum that is scaled                                       *)

\* Each term so many times: the sum so many times.
LEMMA SumScales ==
    ASSUME NEW Xs, IsFiniteSet(Xs), NEW f, Ints(Xs, f), NEW c \in Int, NEW g, \A x \in Xs : g[x] = c * f[x]
    PROVE  SumOver(Xs, g) = c * SumOver(Xs, f)
<1> DEFINE Good == {Rs \in SUBSET Xs : SumOver(Rs, g) = c * SumOver(Rs, f)}
<1>1. {} \in Good
  BY SumOfNone
<1>2. ASSUME NEW Rs \in SUBSET Xs, NEW x \in Xs \ Rs, Rs \in Good PROVE Rs \cup {x} \in Good
  <2>1. IsFiniteSet(Rs) /\ Ints(Rs, f) /\ Ints(Rs \cup {x}, f) /\ Ints(Rs \cup {x}, g)
    BY FS_Subset DEF Ints
  <2>2. SumOver(Rs \cup {x}, f) = f[x] + SumOver(Rs, f) /\ SumOver(Rs \cup {x}, g) = g[x] + SumOver(Rs, g)
    BY <2>1, SumGrows
  <2>3. SumOver(Rs, f) \in Int /\ f[x] \in Int
    BY <2>1, SumAdds DEF Ints
  <2>4. \A a, b \in Int : c * (a + b) = c * a + c * b
    OBVIOUS
  <2>5. SumOver(Rs \cup {x}, g) = c * SumOver(Rs \cup {x}, f)
    BY <1>2, <2>2, <2>3, <2>4
  <2> QED BY <2>5
<1> HIDE DEF Good
<1>3. Xs \in Good
  BY <1>1, <1>2, OneByOne
<1> QED BY <1>3 DEF Good

\* Of numbers that are not negative, the sum is at least each of them.
LEMMA SumCovers ==
    ASSUME NEW Xs, IsFiniteSet(Xs), NEW f, \A x \in Xs : f[x] \in Nat
    PROVE  SumOver(Xs, f) \in Nat /\ \A x \in Xs : f[x] <= SumOver(Xs, f)
<1>1. PICK z : z = [x \in Xs |-> 0]
  OBVIOUS
<1>2. ASSUME NEW Rs \in SUBSET Xs PROVE SumOver(Rs, f) \in Int /\ 0 <= SumOver(Rs, f)
  <2>1. IsFiniteSet(Rs) /\ Ints(Rs, f) /\ Ints(Rs, z) /\ \A x \in Rs : z[x] = 0 * z[x] /\ z[x] <= f[x]
    BY <1>1, FS_Subset DEF Ints
  <2>2. SumOver(Rs, z) = 0 * SumOver(Rs, z) /\ SumOver(Rs, z) \in Int
    BY <2>1, SumScales, SumAdds
  <2>3. SumOver(Rs, z) <= SumOver(Rs, f)
    BY <2>1, SumsCompare
  <2> QED BY <2>1, <2>2, <2>3, SumAdds
<1>3. Ints(Xs, f)
  BY DEF Ints
<1>4. ASSUME NEW x \in Xs PROVE f[x] <= SumOver(Xs, f)
  <2>1. SumOver(Xs, f) = f[x] + SumOver(Xs \ {x}, f)
    BY <1>3, SumAdds
  <2>2. SumOver(Xs \ {x}, f) \in Int /\ 0 <= SumOver(Xs \ {x}, f)
    BY <1>2
  <2> QED BY <2>1, <2>2
<1> QED BY <1>2, <1>4

-----------------------------------------------------------------------------
(* The captures: the comp of a map                                          *)

\* What anchors are: each game's is the newest that anchors itself and is like it.
Likes(games, i, j) == sameCompJS(games[j].open, games[i].open)
AnchorsBefore(games, at, i) == {j \in 1..(i - 1) : at[j] = j /\ Likes(games, i, j)}
AnchorFrom(games, at, i) ==
    IF AnchorsBefore(games, at, i) = {} THEN i ELSE Min(AnchorsBefore(games, at, i))
AreAnchors(games, n, at) == at = [i \in 1..n |-> AnchorFrom(games, at, i)]

\* The anchor of a game comes from the games before it.
LEMMA AnchorLocal ==
    ASSUME NEW games, NEW i \in Nat, NEW at, NEW bt, \A j \in 1..(i - 1) : at[j] = bt[j]
    PROVE  AnchorFrom(games, at, i) = AnchorFrom(games, bt, i)
<1>1. AnchorsBefore(games, at, i) = AnchorsBefore(games, bt, i)
  BY DEF AnchorsBefore
<1> QED BY <1>1 DEF AnchorFrom

\* There are such anchors for any number of games.
LEMMA AnchorsExist ==
    ASSUME NEW games, NEW n \in Nat
    PROVE  \E at : AreAnchors(games, n, at)
<1> DEFINE Bad == {k \in Nat : ~\E at : AreAnchors(games, k, at)}
<1>1. SUFFICES ASSUME Bad # {} PROVE FALSE
  OBVIOUS
<1>2. PICK k \in Bad : \A l \in Bad : k <= l
  BY <1>1, LeastOf
<1>3. k # 0
  <2>1. PICK at : at = [i \in 1..0 |-> 0]
    OBVIOUS
  <2>2. AreAnchors(games, 0, at)
    BY <2>1 DEF AreAnchors
  <2> QED BY <1>2, <2>2
<1>4. PICK at : AreAnchors(games, k - 1, at)
  <2>1. k - 1 \in Nat /\ ~(k <= k - 1)
    BY <1>3
  <2> QED BY <1>2, <2>1
<1>5. PICK bt : bt = [i \in 1..k |-> IF i < k THEN at[i] ELSE AnchorFrom(games, at, i)]
  OBVIOUS
<1>6. \A i \in 1..(k - 1) : bt[i] = at[i]
  BY <1>5
<1>7. ASSUME NEW i \in 1..k PROVE bt[i] = AnchorFrom(games, bt, i)
  <2>1. AnchorFrom(games, at, i) = AnchorFrom(games, bt, i)
    BY <1>6, AnchorLocal
  <2>2. CASE i < k
    <3>1. i \in 1..(k - 1)
      BY <2>2
    <3>2. at[i] = AnchorFrom(games, at, i)
      BY <1>4, <3>1 DEF AreAnchors
    <3> QED BY <1>6, <2>1, <3>1, <3>2
  <2>3. CASE ~(i < k)
    BY <1>5, <2>1, <2>3
  <2> QED BY <2>2, <2>3
<1>8. bt = [i \in 1..k |-> AnchorFrom(games, bt, i)]
  BY <1>5, <1>7
<1>9. AreAnchors(games, k, bt)
  BY <1>8 DEF AreAnchors
<1> QED BY <1>2, <1>9

\* So those of the code are.
LEMMA AnchorsAre ==
    ASSUME NEW games, NEW n \in Nat, DOMAIN games = 1..n
    PROVE  /\ AreAnchors(games, n, Anchors(games))
           /\ \A i \in 1..n : Anchors(games)[i] = AnchorFrom(games, Anchors(games), i)
<1>1. PICK at : at = CHOOSE bt : AreAnchors(games, n, bt)
  OBVIOUS
<1>2. AreAnchors(games, n, at)
  BY <1>1, AnchorsExist
<1>3. Anchors(games) = at
  BY <1>1 DEF Anchors, AreAnchors, AnchorFrom, AnchorsBefore, Likes
<1>4. at = [i \in 1..n |-> AnchorFrom(games, at, i)]
  BY <1>2 DEF AreAnchors
<1>5. \A i \in 1..n : at[i] = AnchorFrom(games, at, i)
  BY <1>4
<1> QED BY <1>2, <1>3, <1>5

\* A game is its own anchor or like its anchor; what is like the newest anchors there.
LEMMA AnchorsMean ==
    ASSUME NEW games, NEW n \in Nat, DOMAIN games = 1..n, NEW at, at = Anchors(games), NEW i \in 1..n
    PROVE  /\ at[i] \in 1..n
           /\ at[i] # i => Likes(games, i, at[i])
           /\ Likes(games, i, 1) => at[i] = 1
<1>1. \A j \in 1..n : at[j] = AnchorFrom(games, at, j)
  BY AnchorsAre
<1>2. PICK before : before = AnchorsBefore(games, at, i)
  OBVIOUS
<1>3. at[i] = IF before = {} THEN i ELSE Min(before)
  BY <1>1, <1>2 DEF AnchorFrom
<1>4. \A j \in before : j \in 1..n /\ j \in Nat /\ j < i /\ Likes(games, i, j)
  BY <1>2 DEF AnchorsBefore
<1>5. before # {} => Min(before) \in before /\ \A j \in before : Min(before) <= j
  <2>1. ASSUME before # {} PROVE \E j \in before : \A l \in before : j <= l
    BY <1>4, <2>1, LeastOf
  <2> QED BY <2>1 DEF Min
<1>6. ASSUME Likes(games, i, 1), i # 1 PROVE 1 \in before
  <2>1. 1 \in 1..n
    OBVIOUS
  <2>2. AnchorsBefore(games, at, 1) = {}
    BY DEF AnchorsBefore
  <2>3. at[1] = 1
    BY <1>1, <2>1, <2>2 DEF AnchorFrom
  <2>4. 1 \in 1..(i - 1)
    BY <1>6
  <2> QED BY <1>2, <1>6, <2>3, <2>4 DEF AnchorsBefore
<1>7. at[i] \in 1..n
  BY <1>3, <1>4, <1>5
<1>8. at[i] # i => Likes(games, i, at[i])
  BY <1>3, <1>4, <1>5
<1>9. ASSUME Likes(games, i, 1) PROVE at[i] = 1
  <2>1. CASE i = 1
    BY <1>3, <1>4, <1>5, <2>1
  <2>2. CASE i # 1
    <3>1. Min(before) \in before /\ Min(before) <= 1
      BY <1>5, <1>6, <1>9, <2>2
    <3>2. Min(before) \in 1..n
      BY <1>4, <3>1
    <3> QED BY <1>3, <1>6, <1>9, <2>2, <3>1, <3>2
  <2> QED BY <2>1, <2>2
<1> QED BY <1>7, <1>8, <1>9

\* The comp of a map is that of the newest of the largest clusters.
ClusterOf(games, i) == {j \in DOMAIN games : Anchors(games)[j] = i}
Largest(games, i) ==
    \A j \in DOMAIN games : \/ Cardinality(ClusterOf(games, i)) > Cardinality(ClusterOf(games, j))
                            \/ Cardinality(ClusterOf(games, i)) = Cardinality(ClusterOf(games, j)) /\ i <= j
LEMMA ModalIs ==
    ASSUME NEW games, NEW n \in Nat, n > 0, DOMAIN games = 1..n, NEW modal, modal = modalComp(games)
    PROVE  \E b \in 1..n : /\ modal.heroes = games[b].open /\ modal.of = ClusterOf(games, b)
                           /\ \A j \in 1..n : Cardinality(ClusterOf(games, j)) <= Cardinality(ClusterOf(games, b))
<1>1. PICK size : size = [i \in 1..n |-> Cardinality(ClusterOf(games, i))]
  OBVIOUS
<1>2. IsFiniteSet(1..n) /\ 1..n # {}
  <2>1. 1 \in 1..n
    OBVIOUS
  <2>2. IsFiniteSet(1..n)
    BY FS_Interval
  <2> QED BY <2>1, <2>2
<1>3. \A i \in 1..n : size[i] \in Nat
  <2> TAKE i \in 1..n
  <2>1. ClusterOf(games, i) \subseteq 1..n
    BY DEF ClusterOf
  <2>2. IsFiniteSet(ClusterOf(games, i))
    BY <1>2, <2>1, FS_Subset
  <2> QED BY <1>1, <2>2, FS_CardinalityType
<1>4. Ints(1..n, size)
  BY <1>3 DEF Ints
<1>5. PICK tops : tops = {i \in 1..n : \A j \in 1..n : size[j] <= size[i]}
  OBVIOUS
<1>6. tops \subseteq Nat /\ tops # {}
  <2>1. \E i \in 1..n : \A j \in 1..n : size[j] <= size[i]
    BY <1>2, <1>4, MostOf
  <2> QED BY <1>5, <2>1
<1>7. PICK b \in tops : \A i \in tops : b <= i
  BY <1>6, LeastOf
<1>8. Largest(games, b)
  <2> SUFFICES ASSUME NEW j \in 1..n PROVE size[b] > size[j] \/ (size[b] = size[j] /\ b <= j)
    BY <1>1, <1>5 DEF Largest
  <2>1. size[j] <= size[b] /\ size[j] \in Nat /\ size[b] \in Nat
    BY <1>3, <1>5
  <2>2. ASSUME size[j] = size[b] PROVE b <= j
    <3>1. j \in tops
      BY <1>5, <1>7, <2>2
    <3> QED BY <1>7, <3>1
  <2> QED BY <2>1, <2>2
<1>9. PICK best : best = CHOOSE i \in DOMAIN games : Largest(games, i)
  OBVIOUS
<1>10. best \in 1..n /\ Largest(games, best)
  BY <1>5, <1>8, <1>9
<1>11. modal.heroes = games[best].open /\ modal.of = ClusterOf(games, best)
  BY <1>9 DEF modalComp, ClusterOf, Largest
<1>12. \A j \in 1..n : Cardinality(ClusterOf(games, j)) <= Cardinality(ClusterOf(games, best))
  <2> TAKE j \in 1..n
  <2>1. \/ Cardinality(ClusterOf(games, best)) > Cardinality(ClusterOf(games, j))
        \/ Cardinality(ClusterOf(games, best)) = Cardinality(ClusterOf(games, j))
    BY <1>10 DEF Largest
  <2>2. Cardinality(ClusterOf(games, best)) \in Nat /\ Cardinality(ClusterOf(games, j)) \in Nat
    BY <1>1, <1>3, <1>10
  <2> QED BY <2>1, <2>2
<1> QED BY <1>10, <1>11, <1>12

\* It is one of theirs, and as frequent as what is like the newest.
LEMMA ModalComp ==
    ASSUME NEW games, NEW n \in Nat, n > 0, DOMAIN games = 1..n, NEW modal, modal = modalComp(games)
    PROVE  /\ Cardinality(modal.of) >= Cardinality({i \in DOMAIN games : Likes(games, i, 1)})
           /\ \A i \in modal.of :
                i \in 1..n /\ (games[i].open # modal.heroes => sameCompJS(modal.heroes, games[i].open))
<1>1. PICK b \in 1..n : /\ modal.heroes = games[b].open /\ modal.of = ClusterOf(games, b)
                        /\ \A j \in 1..n : Cardinality(ClusterOf(games, j)) <= Cardinality(ClusterOf(games, b))
  BY ModalIs
<1>2. PICK at : at = Anchors(games)
  OBVIOUS
<1>3. \A i \in 1..n : /\ at[i] \in 1..n
                      /\ at[i] # i => Likes(games, i, at[i])
                      /\ Likes(games, i, 1) => at[i] = 1
  BY <1>2, AnchorsMean
<1>4. PICK likes : likes = {i \in DOMAIN games : Likes(games, i, 1)}
  OBVIOUS
<1>5. likes \subseteq ClusterOf(games, 1)
  BY <1>2, <1>3, <1>4 DEF ClusterOf
<1>6. IsFiniteSet(1..n) /\ 1 \in 1..n /\ ClusterOf(games, 1) \subseteq 1..n /\ ClusterOf(games, b) \subseteq 1..n
  BY FS_Interval DEF ClusterOf
<1>7. IsFiniteSet(ClusterOf(games, 1)) /\ IsFiniteSet(ClusterOf(games, b))
  BY <1>6, FS_Subset
<1>8. IsFiniteSet(likes) /\ Cardinality(likes) <= Cardinality(ClusterOf(games, 1))
  BY <1>5, <1>7, FS_Subset
<1>9. /\ Cardinality(likes) \in Nat /\ Cardinality(ClusterOf(games, 1)) \in Nat
      /\ Cardinality(ClusterOf(games, b)) \in Nat
  BY <1>7, <1>8, FS_CardinalityType
<1>10. Cardinality(ClusterOf(games, 1)) <= Cardinality(ClusterOf(games, b))
  BY <1>1, <1>6
<1>11. Cardinality(modal.of) >= Cardinality(likes)
  BY <1>1, <1>8, <1>9, <1>10
<1>12. ASSUME NEW i \in modal.of
       PROVE  i \in 1..n /\ (games[i].open # modal.heroes => sameCompJS(modal.heroes, games[i].open))
  <2>1. i \in 1..n /\ at[i] = b
    BY <1>1, <1>2, <1>6 DEF ClusterOf
  <2>2. CASE at[i] = i
    BY <1>1, <2>1, <2>2
  <2>3. CASE at[i] # i
    BY <1>1, <1>3, <2>1, <2>3 DEF Likes
  <2> QED BY <2>1, <2>2, <2>3
<1> QED BY <1>4, <1>11, <1>12

-----------------------------------------------------------------------------
(* The captures: always here, and the counter-scout                         *)

\* Two heroes of most games met in one.
SeenIn(games, h) == {i \in DOMAIN games : h \in games[i].open}
LEMMA AlwaysHereMet ==
    ASSUME NEW games, NEW n \in Nat, DOMAIN games = 1..n, Len(games) = n,
           NEW h \in AlwaysHere(games), NEW k \in AlwaysHere(games)
    PROVE  \E i \in DOMAIN games : {h, k} \subseteq games[i].open
<1>1. n >= 3 /\ 10 * Cardinality(SeenIn(games, h)) >= 6 * n /\ 10 * Cardinality(SeenIn(games, k)) >= 6 * n
  BY DEF AlwaysHere, SeenIn
<1>2. PICK hs, ks : hs = SeenIn(games, h) /\ ks = SeenIn(games, k)
  OBVIOUS
<1>3. hs \subseteq 1..n /\ ks \subseteq 1..n /\ hs \cup ks \subseteq 1..n
  BY <1>2 DEF SeenIn
<1>4. IsFiniteSet(1..n) /\ Cardinality(1..n) = n
  BY FS_Interval
<1>5. IsFiniteSet(hs) /\ IsFiniteSet(ks) /\ IsFiniteSet(hs \cup ks) /\ Cardinality(hs \cup ks) <= n
  <2>1. IsFiniteSet(hs) /\ IsFiniteSet(ks)
    BY <1>3, <1>4, FS_Subset
  <2>2. IsFiniteSet(hs \cup ks) /\ Cardinality(hs \cup ks) <= Cardinality(1..n)
    BY <1>3, <1>4, FS_Subset
  <2> QED BY <1>4, <2>1, <2>2
<1>6. Cardinality(hs \cup ks) = Cardinality(hs) + Cardinality(ks) - Cardinality(hs \cap ks)
  BY <1>5, FS_Union
<1>7. Cardinality(hs) \in Nat /\ Cardinality(ks) \in Nat /\ Cardinality(hs \cup ks) \in Nat
  BY <1>5, FS_CardinalityType
<1>8. hs \cap ks # {}
  <2>1. SUFFICES ASSUME hs \cap ks = {} PROVE FALSE
    OBVIOUS
  <2>2. Cardinality(hs \cap ks) = 0
    BY <2>1, FS_EmptySet
  <2> QED BY <1>1, <1>2, <1>5, <1>6, <1>7, <2>2
<1>9. PICK i \in hs \cap ks : TRUE
  BY <1>8
<1> QED BY <1>2, <1>9 DEF SeenIn

\* What the counter-scout finds, over what of ours tells something.
OurNumber(games, signal, i) == Cardinality(signal \cap games[i].vs)
SimilarTo(games, signal, m) == {i \in DOMAIN games : OurNumber(games, signal, i) >= m}
TiersOf(games, signal) == {m \in 1..Min({Cardinality(signal), 3}) : SimilarTo(games, signal, m) # {}}
LEMMA CounterIs ==
    ASSUME NEW games, NEW ours, NEW counter, counter = CounterScout(games, ours)
    PROVE  /\ counter.signal \subseteq ours
           /\ counter.need = IF TiersOf(games, counter.signal) = {} THEN 0 ELSE Max(TiersOf(games, counter.signal))
           /\ counter.games = IF TiersOf(games, counter.signal) = {} THEN {}
                              ELSE SimilarTo(games, counter.signal, Max(TiersOf(games, counter.signal)))
           /\ counter.solid <=> counter.need >= 3 /\ Cardinality(counter.games) >= 3
<1>1. PICK signal : signal = ours \ Ubiquitous(games)
  OBVIOUS
<1>2. PICK tiers : tiers = TiersOf(games, signal)
  OBVIOUS
<1>3. counter.signal = signal
  BY <1>1 DEF CounterScout
<1>4. counter.need = IF tiers = {} THEN 0 ELSE Max(tiers)
  BY <1>1, <1>2 DEF CounterScout, TiersOf, SimilarTo, OurNumber
<1>5. counter.games = IF tiers = {} THEN {} ELSE SimilarTo(games, signal, counter.need)
  BY <1>1, <1>2 DEF CounterScout, TiersOf, SimilarTo, OurNumber
<1>6. counter.solid <=> counter.need >= 3 /\ Cardinality(counter.games) >= 3
  BY DEF CounterScout
<1> QED BY <1>1, <1>2, <1>3, <1>4, <1>5, <1>6

\* It finds a game exactly where they faced one of these, and asks for as many as any had.
LEMMA CounterFinds ==
    ASSUME NEW games, NEW ours, IsFiniteSet(ours), NEW counter, counter = CounterScout(games, ours)
    PROVE  /\ counter.games # {} <=> \E i \in DOMAIN games : counter.signal \cap games[i].vs # {}
           /\ \A i \in DOMAIN games :
                /\ Cardinality(counter.signal \cap games[i].vs) > counter.need => counter.need = 3
                /\ i \in counter.games => counter.signal \cap games[i].vs # {}
           /\ counter.solid => Cardinality(counter.games) >= 3
<1>1. PICK signal, tiers : signal = counter.signal /\ tiers = TiersOf(games, signal)
  OBVIOUS
<1>2. PICK most : most = Min({Cardinality(signal), 3})
  OBVIOUS
<1>3. IsFiniteSet(signal) /\ Cardinality(signal) \in Nat
  <2>1. signal \subseteq ours
    BY <1>1, CounterIs
  <2> QED BY <2>1, FS_Subset, FS_CardinalityType
<1>4. most \in Nat /\ most <= 3 /\ most <= Cardinality(signal) /\ (most = 3 \/ most = Cardinality(signal))
  <2>1. {Cardinality(signal), 3} \subseteq Nat /\ {Cardinality(signal), 3} # {}
    BY <1>3
  <2>2. \E x \in {Cardinality(signal), 3} : \A y \in {Cardinality(signal), 3} : x <= y
    BY <2>1, LeastOf
  <2>3. most \in {Cardinality(signal), 3} /\ \A y \in {Cardinality(signal), 3} : most <= y
    BY <1>2, <2>2 DEF Min
  <2> QED BY <1>3, <2>3
<1>5. \A i : /\ OurNumber(games, signal, i) \in Nat /\ OurNumber(games, signal, i) <= Cardinality(signal)
             /\ OurNumber(games, signal, i) = 0 <=> signal \cap games[i].vs = {}
  <2> TAKE i
  <2>1. IsFiniteSet(signal \cap games[i].vs) /\ Cardinality(signal \cap games[i].vs) <= Cardinality(signal)
    BY <1>3, FS_Subset
  <2> QED BY <2>1, FS_CardinalityType, FS_EmptySet DEF OurNumber
<1>6. tiers = {m \in 1..most : SimilarTo(games, signal, m) # {}}
  BY <1>1, <1>2 DEF TiersOf
<1>7. tiers # {} => /\ Max(tiers) \in tiers /\ \A m \in tiers : m <= Max(tiers)
  <2>1. ASSUME tiers # {} PROVE \E m \in tiers : \A l \in tiers : l <= m
    <3>1. IsFiniteSet(1..most)
      BY <1>4, FS_Interval
    <3>2. IsFiniteSet(tiers)
      BY <1>6, <3>1, FS_Subset
    <3>3. PICK f : f = [m \in tiers |-> m]
      OBVIOUS
    <3>4. Ints(tiers, f)
      BY <1>4, <1>6, <3>3 DEF Ints
    <3>5. \E m \in tiers : \A l \in tiers : f[l] <= f[m]
      BY <2>1, <3>2, <3>4, MostOf
    <3> QED BY <3>3, <3>5
  <2> QED BY <2>1 DEF Max
<1>8. counter.need = IF tiers = {} THEN 0 ELSE Max(tiers)
  BY <1>1, CounterIs
<1>9. counter.games = IF tiers = {} THEN {} ELSE SimilarTo(games, signal, Max(tiers))
  BY <1>1, CounterIs
<1>10. \A i \in DOMAIN games : \A m \in 1..most : OurNumber(games, signal, i) >= m => m \in tiers
  BY <1>6 DEF SimilarTo
<1>11. ASSUME NEW i \in DOMAIN games, signal \cap games[i].vs # {} PROVE tiers # {}
  <2>1. OurNumber(games, signal, i) >= 1 /\ 1 \in 1..most
    BY <1>3, <1>4, <1>5, <1>11
  <2> QED BY <1>10, <2>1
<1>12. ASSUME NEW i \in counter.games PROVE i \in DOMAIN games /\ signal \cap games[i].vs # {}
  <2>1. tiers # {} /\ i \in SimilarTo(games, signal, Max(tiers))
    BY <1>9, <1>12
  <2>2. Max(tiers) \in 1..most
    BY <1>6, <1>7, <2>1
  <2>3. OurNumber(games, signal, i) >= Max(tiers) /\ i \in DOMAIN games
    BY <2>1 DEF SimilarTo
  <2>4. OurNumber(games, signal, i) # 0
    BY <1>4, <1>5, <2>2, <2>3
  <2> QED BY <1>5, <2>3, <2>4
<1>13. ASSUME NEW i \in DOMAIN games, signal \cap games[i].vs # {} PROVE counter.games # {}
  <2>1. tiers # {}
    BY <1>11, <1>13
  <2>2. Max(tiers) \in tiers
    BY <1>7, <2>1
  <2>3. SimilarTo(games, signal, Max(tiers)) # {}
    BY <1>6, <2>2
  <2> QED BY <1>9, <2>1, <2>3
<1>14. ASSUME NEW i \in DOMAIN games, OurNumber(games, signal, i) > counter.need PROVE counter.need = 3
  <2>1. PICK o : o = OurNumber(games, signal, i)
    OBVIOUS
  <2>2. o \in Nat /\ o <= Cardinality(signal)
    BY <1>5, <2>1
  <2>3. tiers # {} /\ counter.need \in tiers /\ counter.need \in 1..most
    <3>1. ASSUME tiers = {} PROVE FALSE
      <4>1. o > 0
        BY <1>8, <1>14, <2>1, <3>1
      <4>2. signal \cap games[i].vs # {}
        BY <1>5, <2>1, <4>1
      <4> QED BY <1>11, <3>1, <4>2
    <3> QED BY <1>6, <1>7, <1>8, <3>1
  <2>4. \A m \in tiers : m <= counter.need
    BY <1>7, <1>8, <2>3
  <2>5. CASE o <= most
    <3>1. o \in 1..most
      BY <1>4, <1>14, <2>1, <2>2, <2>3, <2>5
    <3>2. o \in tiers
      BY <1>10, <2>1, <2>2, <3>1
    <3>3. o <= counter.need /\ o > counter.need
      BY <1>14, <2>1, <2>4, <3>2
    <3> QED BY <1>4, <2>2, <2>3, <3>3
  <2>6. CASE ~(o <= most)
    <3>1. most = 3
      BY <1>3, <1>4, <2>2, <2>6
    <3>2. 3 \in tiers
      BY <1>10, <2>1, <2>2, <2>6, <3>1
    <3> QED BY <2>3, <2>4, <3>1, <3>2
  <2> QED BY <2>5, <2>6
<1>15. counter.solid => Cardinality(counter.games) >= 3
  BY CounterIs
<1>a. counter.games # {} <=> \E i \in DOMAIN games : signal \cap games[i].vs # {}
  BY <1>12, <1>13
<1>b. \A i \in DOMAIN games : /\ OurNumber(games, signal, i) > counter.need => counter.need = 3
                              /\ i \in counter.games => signal \cap games[i].vs # {}
  BY <1>12, <1>14
<1> QED BY <1>1, <1>15, <1>a, <1>b DEF OurNumber

-----------------------------------------------------------------------------
(* The captures: the ban planner                                            *)

\* What a hero that is expensive to ban is: played in half of the rounds, without a backup
\* in three tenths of them, and well above the field.
BackupOf(scout, h) == Max({0} \cup {scout.pool[k] : k \in Backups(scout, h)})
LEMMA ExpensiveIs ==
    ASSUME NEW scouts, NEW t, NEW h \in DOMAIN BanPlanner(scouts, t), BanPlanner(scouts, t)[h] = "expensive"
    PROVE  /\ h \in DOMAIN scouts[t].pool
           /\ 2 * scouts[t].pool[h] >= scouts[t].rounds
           /\ 10 * BackupOf(scouts[t], h) < 3 * scouts[t].rounds
           /\ 10 * scouts[t].pool[h] * metaRate(scouts, h).d >= 13 * metaRate(scouts, h).n * scouts[t].rounds
<1>1. h \in DOMAIN scouts[t].pool /\ Verdict(scouts, t, h) = "expensive"
  BY DEF BanPlanner
<1>2. PICK rounds, share, backup, meta :
         /\ rounds = scouts[t].rounds /\ share = scouts[t].pool[h]
         /\ backup = BackupOf(scouts[t], h) /\ meta = metaRate(scouts, h)
  OBVIOUS
<1>3. PICK staple \in BOOLEAN, distinctive \in BOOLEAN :
         /\ staple <=> 2 * meta.n >= meta.d
         /\ distinctive <=> 10 * share * meta.d >= 13 * meta.n * rounds
  OBVIOUS
<1>4. Verdict(scouts, t, h) =
        CASE staple /\ ~distinctive -> "meta"
          [] ~(staple /\ ~distinctive) /\ 2 * share >= rounds /\ 10 * backup < 3 * rounds /\ distinctive
               -> "expensive"
          [] OTHER -> IF 10 * backup >= 7 * share THEN "cheap" ELSE "moderate"
  BY <1>2, <1>3 DEF Verdict, BackupOf
<1>5. 2 * share >= rounds /\ 10 * backup < 3 * rounds /\ distinctive
  BY <1>1, <1>4
<1> QED BY <1>1, <1>2, <1>3, <1>5

\* The backup of a hero is played no less than any other of the seat.
LEMMA BackupCovers ==
    ASSUME NEW scout, NEW h, NEW k \in DOMAIN scout.pool, k # h, Seat[k] = Seat[h],
           IsFiniteSet(DOMAIN scout.pool), \A l \in DOMAIN scout.pool : scout.pool[l] \in Nat
    PROVE  BackupOf(scout, h) \in Nat /\ scout.pool[k] <= BackupOf(scout, h)
<1>1. PICK seat : seat = {l \in DOMAIN scout.pool \ {h} : Seat[l] = Seat[h]}
  OBVIOUS
<1>2. IsFiniteSet(seat) /\ k \in seat /\ seat \subseteq DOMAIN scout.pool
  BY <1>1, FS_Subset
<1>3. PICK f : f = [l \in seat |-> scout.pool[l]]
  OBVIOUS
<1>4. Ints(seat, f)
  BY <1>2, <1>3 DEF Ints
<1>5. PICK m \in seat : \A l \in seat : f[l] <= f[m]
  BY <1>2, <1>4, MostOf
<1>6. PICK Bs : Bs = Backups(scout, h)
  OBVIOUS
<1>7. Bs = {b \in seat : \A l \in seat : scout.pool[b] >= scout.pool[l]}
  BY <1>1, <1>6 DEF Backups
<1>8. m \in Bs
  BY <1>2, <1>3, <1>5, <1>7
<1>9. PICK rs : rs = {0} \cup {scout.pool[b] : b \in Bs}
  OBVIOUS
<1>10. \A r \in rs : r = 0 \/ r = scout.pool[m]
  <2>1. ASSUME NEW b \in Bs PROVE scout.pool[b] = scout.pool[m]
    <3>1. b \in seat /\ m \in seat /\ scout.pool[b] >= scout.pool[m] /\ scout.pool[m] >= scout.pool[b]
      BY <1>7, <1>8
    <3> QED BY <1>2, <3>1
  <2> QED BY <1>9, <2>1
<1>11. scout.pool[m] \in rs /\ scout.pool[m] \in Nat /\ scout.pool[k] \in Nat /\ scout.pool[k] <= scout.pool[m]
  BY <1>2, <1>3, <1>5, <1>8, <1>9
<1>12. scout.pool[m] \in rs /\ \A r \in rs : scout.pool[m] >= r
  BY <1>10, <1>11
<1>13. Max(rs) \in rs /\ \A r \in rs : Max(rs) >= r
  BY <1>12 DEF Max
<1>14. Max(rs) = scout.pool[m]
  BY <1>10, <1>11, <1>13
<1>15. BackupOf(scout, h) = Max(rs)
  BY <1>6, <1>9 DEF BackupOf
<1> QED BY <1>11, <1>14, <1>15

\* No two heroes of one seat are expensive for a team.
LEMMA OneOfASeat ==
    ASSUME NEW s, IsScouted(s), NEW t \in DOMAIN s.scouts, NEW plans, plans = BanPlanner(s.scouts, t),
           NEW h \in DOMAIN plans, NEW k \in DOMAIN plans, plans[h] = "expensive", plans[k] = "expensive",
           Seat[h] = Seat[k]
    PROVE  h = k
<1>1. SUFFICES ASSUME h # k PROVE FALSE
  OBVIOUS
<1>2. PICK scout : scout = s.scouts[t]
  OBVIOUS
<1>3. /\ scout.rounds \in Nat /\ scout.rounds > 0 /\ \A l \in DOMAIN scout.pool : scout.pool[l] \in Nat
      /\ IsFiniteSet(DOMAIN scout.pool)
  BY <1>2, FS_Subset DEF IsScouted
<1>4. h \in DOMAIN scout.pool /\ 10 * BackupOf(scout, h) < 3 * scout.rounds
  BY <1>2, ExpensiveIs
<1>5. k \in DOMAIN scout.pool /\ 2 * scout.pool[k] >= scout.rounds
  BY <1>2, ExpensiveIs
<1>6. BackupOf(scout, h) \in Nat /\ scout.pool[k] <= BackupOf(scout, h)
  BY <1>1, <1>3, <1>5, BackupCovers
<1> QED BY <1>3, <1>4, <1>5, <1>6

\* No hero is expensive for every team: not all can play it well above the field.
LEMMA NobodyAboveAll ==
    ASSUME NEW s, IsScouted(s), NEW h \in PoolHeroes(s.scouts)
    PROVE  \E t \in DOMAIN s.scouts :
             h \notin DOMAIN BanPlanner(s.scouts, t) \/ BanPlanner(s.scouts, t)[h] # "expensive"
<1>1. SUFFICES ASSUME \A t \in DOMAIN s.scouts : h \in DOMAIN BanPlanner(s.scouts, t)
                                                  /\ BanPlanner(s.scouts, t)[h] = "expensive"
               PROVE  FALSE
  OBVIOUS
<1>2. PICK Ts : Ts = DOMAIN s.scouts
  OBVIOUS
<1>3. IsFiniteSet(Ts)
  BY <1>2 DEF IsScouted
<1>4. PICK with : with = [t \in Ts |-> RoundsWith(s.scouts[t], h)]
  OBVIOUS
<1>5. PICK of : of = [t \in Ts |-> s.scouts[t].rounds]
  OBVIOUS
<1>6. PICK n, d : n = SumOver(Ts, with) /\ d = SumOver(Ts, of)
  OBVIOUS
<1>7. metaRate(s.scouts, h) = [n |-> n, d |-> d]
  <2>1. DOMAIN with = Ts /\ DOMAIN of = Ts
    BY <1>4, <1>5
  <2>2. Summed(with) = n /\ Summed(of) = d
    BY <1>6, <2>1 DEF Summed, SumOver
  <2> QED BY <1>2, <1>4, <1>5, <2>2 DEF metaRate
<1>8. ASSUME NEW t \in Ts
      PROVE  /\ with[t] \in Nat /\ of[t] \in Nat /\ of[t] > 0 /\ 2 * with[t] >= of[t]
             /\ 10 * with[t] * d >= 13 * n * of[t]
  <2>1. h \in DOMAIN BanPlanner(s.scouts, t) /\ BanPlanner(s.scouts, t)[h] = "expensive"
    BY <1>1, <1>2
  <2>2. /\ h \in DOMAIN s.scouts[t].pool
        /\ 2 * s.scouts[t].pool[h] >= s.scouts[t].rounds
        /\ 10 * s.scouts[t].pool[h] * metaRate(s.scouts, h).d
             >= 13 * metaRate(s.scouts, h).n * s.scouts[t].rounds
    BY <2>1, ExpensiveIs
  <2>3. with[t] = s.scouts[t].pool[h] /\ of[t] = s.scouts[t].rounds
    BY <1>4, <1>5, <2>2 DEF RoundsWith
  <2>4. s.scouts[t].rounds \in Nat /\ s.scouts[t].rounds > 0 /\ s.scouts[t].pool[h] \in Nat
    BY <1>2, <2>2 DEF IsScouted
  <2>5. metaRate(s.scouts, h).n = n /\ metaRate(s.scouts, h).d = d
    BY <1>7
  <2> QED BY <2>2, <2>3, <2>4, <2>5
<1>9. n \in Nat /\ d \in Nat /\ \A t \in Ts : with[t] <= n /\ of[t] <= d
  BY <1>3, <1>6, <1>8, SumCovers
<1>10. PICK t \in Ts : h \in DOMAIN s.scouts[t].pool
  BY <1>2 DEF PoolHeroes
<1>11. n > 0 /\ d > 0
  <2>1. with[t] > 0 /\ with[t] \in Nat /\ of[t] > 0 /\ of[t] \in Nat
    BY <1>8
  <2> QED BY <1>9, <2>1
<1>12. PICK lhs, rhs : lhs = [u \in Ts |-> (10 * d) * with[u]] /\ rhs = [u \in Ts |-> (13 * n) * of[u]]
  OBVIOUS
<1>13. \A u \in Ts : lhs[u] = (10 * d) * with[u] /\ rhs[u] = (13 * n) * of[u]
  BY <1>12
<1>14. Ints(Ts, with) /\ Ints(Ts, of) /\ 10 * d \in Int /\ 13 * n \in Int
  BY <1>8, <1>9 DEF Ints
<1>15. SumOver(Ts, lhs) = (10 * d) * n /\ SumOver(Ts, rhs) = (13 * n) * d
  BY <1>3, <1>6, <1>13, <1>14, SumScales
<1>16. ASSUME NEW u \in Ts PROVE lhs[u] \in Int /\ rhs[u] \in Int /\ rhs[u] <= lhs[u]
  <2>1. with[u] \in Nat /\ of[u] \in Nat /\ 10 * with[u] * d >= 13 * n * of[u]
    BY <1>8
  <2>2. \A w, e \in Nat : 10 * w * e = (10 * e) * w
    OBVIOUS
  <2>3. 10 * with[u] * d = (10 * d) * with[u]
    BY <1>9, <2>1, <2>2
  <2> QED BY <1>9, <1>13, <2>1, <2>3
<1>17. Ints(Ts, lhs) /\ Ints(Ts, rhs)
  BY <1>16 DEF Ints
<1>18. (13 * n) * d <= (10 * d) * n
  BY <1>3, <1>15, <1>16, <1>17, SumsCompare
<1>19. n * d > 0 /\ n * d \in Nat
  BY <1>9, <1>11
<1>20. (13 * n) * d = 13 * (n * d) /\ (10 * d) * n = 10 * (n * d)
  BY <1>9
<1> QED BY <1>18, <1>19, <1>20

-----------------------------------------------------------------------------
(* The captures, whole *)

\* app.js renderScoutBody, whatever was captured of the teams of a division, and whatever is
\* planned: the comp of a map is one of its games and as frequent as the newest, the heroes
\* that are always there met, counter-scout finds a game just where they faced a hero of
\* ours that tells something, and no ban hurts every team, nor two of a seat one team.
THEOREM CapturesAlwaysSpeakTrue ==
    ASSUME NEW s, IsScouted(s)
    PROVE  CapturesSpeakTrue(s)
<1> DEFINE games == s.games
           modal == modalComp(games)
           counter == CounterScout(games, s.plan)
<1>1. PICK n : n = Len(games)
  OBVIOUS
<1>2. /\ n \in Nat /\ n > 0 /\ DOMAIN games = 1..n /\ Len(games) = n
  BY <1>1 DEF IsScouted
<1>4. IsFiniteSet(s.plan)
  BY FS_Subset DEF IsScouted
<1>5. /\ Cardinality(modal.of) >= Cardinality({i \in DOMAIN games : sameCompJS(games[1].open, games[i].open)})
      /\ \A i \in modal.of : games[i].open # modal.heroes => sameCompJS(modal.heroes, games[i].open)
  BY <1>2, ModalComp DEF Likes
<1>6. \A h, k \in AlwaysHere(games) : \E i \in DOMAIN games : {h, k} \subseteq games[i].open
  BY <1>2, AlwaysHereMet
<1>7. /\ counter.games # {} <=> \E i \in DOMAIN games : counter.signal \cap games[i].vs # {}
      /\ \A i \in DOMAIN games :
           /\ Cardinality(counter.signal \cap games[i].vs) > counter.need => counter.need = 3
           /\ i \in counter.games => counter.signal \cap games[i].vs # {}
      /\ counter.solid => Cardinality(counter.games) >= 3
  BY <1>4, CounterFinds
<1> DEFINE Verdicts == [t \in DOMAIN s.scouts |-> BanPlanner(s.scouts, t)]
           Expensive(t) == {h \in DOMAIN Verdicts[t] : Verdicts[t][h] = "expensive"}
<1>8. \A t \in DOMAIN s.scouts : Verdicts[t] = BanPlanner(s.scouts, t)
  OBVIOUS
<1>9. {h \in PoolHeroes(s.scouts) : \A t \in DOMAIN s.scouts : h \in Expensive(t)} = {}
  <2> SUFFICES ASSUME NEW h \in PoolHeroes(s.scouts) PROVE \E t \in DOMAIN s.scouts : h \notin Expensive(t)
    OBVIOUS
  <2>1. PICK t \in DOMAIN s.scouts : h \notin DOMAIN BanPlanner(s.scouts, t) \/ BanPlanner(s.scouts, t)[h] # "expensive"
    BY NobodyAboveAll
  <2> QED BY <2>1
<1>10. \A t \in DOMAIN s.scouts : \A h, k \in Expensive(t) : Seat[h] = Seat[k] => h = k
  <2> SUFFICES ASSUME NEW t \in DOMAIN s.scouts, NEW h \in Expensive(t), NEW k \in Expensive(t), Seat[h] = Seat[k]
               PROVE  h = k
    OBVIOUS
  <2>1. /\ h \in DOMAIN BanPlanner(s.scouts, t) /\ k \in DOMAIN BanPlanner(s.scouts, t)
        /\ BanPlanner(s.scouts, t)[h] = "expensive" /\ BanPlanner(s.scouts, t)[k] = "expensive"
    OBVIOUS
  <2> QED BY <2>1, OneOfASeat
<1> QED BY <1>5, <1>6, <1>7, <1>9, <1>10, Zenon DEF CapturesSpeakTrue


-----------------------------------------------------------------------------
(* The sheet of a team *)

\* Its maps, and what is kept of them under a hero or a map.
TeamMaps(ms, t) == MapGames(TheirMatches(ms, t))
BannedOn(rows, t, h) == {r \in rows : \E b \in DraftBan(r, t) : b.hero = h}
OnMap(rows, mp) == {r \in rows : r.g.map = mp}
ByMap(rows) == [mp \in {r.g.map : r \in rows} |-> OnMap(rows, mp)]
ByBan(rows, t) == [h \in Banned(rows, t) |-> BannedOn(rows, t, h)]
FirstOf(rows, t) == {r \in rows : \E b \in DraftBan(r, t) : b.order = 1}
PickedBy(rows, t) == {r \in rows : r.g.picker = t}

\* Evidence by map, by ban, and by any other key.
LEMMA EvidenceIs ==
    ASSUME NEW rows, NEW some, some \subseteq rows, NEW t
    PROVE  /\ By({r.g.map : r \in some}, some, [r \in rows |-> {r.g.map}]) = ByMap(some)
           /\ By(Banned(some, t), some, [r \in rows |-> {b.hero : b \in DraftBan(r, t)}]) = ByBan(some, t)
<1>1. By({r.g.map : r \in some}, some, [r \in rows |-> {r.g.map}]) = ByMap(some)
  BY DEF By, ByMap, OnMap
<1>2. ASSUME NEW h
      PROVE  {r \in some : h \in [q \in rows |-> {b.hero : b \in DraftBan(q, t)}][r]} = BannedOn(some, t, h)
  BY DEF BannedOn
<1>3. By(Banned(some, t), some, [r \in rows |-> {b.hero : b \in DraftBan(r, t)}])
        = [h \in Banned(some, t) |-> {r \in some : h \in [q \in rows |-> {b.hero : b \in DraftBan(q, t)}][r]}]
  BY DEF By
<1> QED BY <1>1, <1>2, <1>3 DEF ByBan

\* Replies are second bans, and openings were on the team's maps.
RepliesOf(a, t) == \A o \in DOMAIN a.counter : \A r \in a.counter[o] : \E b \in DraftBan(r, t) : b.order = 2
OpeningsOf(a, rows) == \A h \in DOMAIN a.banOpen : a.banOpen[h] \subseteq rows
\* What the count of a team says.
LEMMA CountIs ==
    ASSUME NEW ms, NEW t, NEW a, a = aggregate(ms, t), NEW rows, rows = TeamMaps(ms, t)
    PROVE  /\ a.games = rows /\ a.won = WonRows(rows, t) /\ a.first = FirstOf(rows, t)
           /\ a.mapStats = ByMap(rows) /\ a.mapsPicked = ByMap(PickedBy(rows, t))
           /\ a.bans = ByBan(rows, t) /\ a.firstBans = ByBan(FirstOf(rows, t), t)
           /\ a.pickFirstBan = ByMap(PickedBy(rows, t) \cap FirstOf(rows, t))
           /\ RepliesOf(a, t) /\ OpeningsOf(a, rows)
<1> DEFINE first == FirstOf(rows, t)
           picked == PickedBy(rows, t)
           mapOf == [r \in rows |-> {r.g.map}]
           banOf == [r \in rows |-> {b.hero : b \in DraftBan(r, t)}]
           reply == [r \in rows |-> {c.hero : c \in {c \in r.g.bans : /\ c.team # t /\ c.order = 1
                                                                      /\ \E b \in DraftBan(r, t) : b.order = 2}}]
           opened == [r \in rows |-> IF t \in DOMAIN r.g.open THEN {b.hero : b \in OwnBans(r, t)} ELSE {}]
<1>1. /\ a.games = rows
      /\ a.won = {r \in rows : r.g.winner = t}
      /\ a.first = first
      /\ a.mapStats = By({r.g.map : r \in rows}, rows, mapOf)
      /\ a.mapsPicked = By({r.g.map : r \in picked}, picked, mapOf)
      /\ a.bans = By(Banned(rows, t), rows, banOf)
      /\ a.firstBans = By(Banned(first, t), first, banOf)
      /\ a.pickFirstBan = By({r.g.map : r \in picked \cap first}, picked \cap first, mapOf)
      /\ a.counter = By(UNION {reply[r] : r \in rows}, rows, reply)
      /\ a.banOpen = By(UNION {opened[r] : r \in rows}, rows, opened)
  BY DEF aggregate, TeamMaps, FirstOf, PickedBy
<1>2. first \subseteq rows /\ picked \subseteq rows /\ picked \cap first \subseteq rows
  BY DEF FirstOf, PickedBy
<1>3. \A o \in DOMAIN a.counter : \A r \in a.counter[o] : \E b \in DraftBan(r, t) : b.order = 2
  <2> SUFFICES ASSUME NEW o \in DOMAIN a.counter, NEW r \in a.counter[o] PROVE \E b \in DraftBan(r, t) : b.order = 2
    OBVIOUS
  <2>1. r \in rows /\ o \in reply[r]
    BY <1>1 DEF By
  <2> QED BY <2>1
<1>4. \A h \in DOMAIN a.banOpen : a.banOpen[h] \subseteq rows
  BY <1>1 DEF By
<1>5. ASSUME NEW some, some \subseteq rows
      PROVE  /\ By({r.g.map : r \in some}, some, mapOf) = ByMap(some)
             /\ By(Banned(some, t), some, banOf) = ByBan(some, t)
  BY <1>5, EvidenceIs
<1> HIDE DEF first, picked, mapOf, banOf, reply, opened
<1>6. a.mapStats = ByMap(rows) /\ a.bans = ByBan(rows, t)
  BY <1>1, <1>5
<1>7. a.mapsPicked = ByMap(picked) /\ a.pickFirstBan = ByMap(picked \cap first) /\ a.firstBans = ByBan(first, t)
  BY <1>1, <1>2, <1>5
<1> QED BY <1>1, <1>3, <1>4, <1>6, <1>7 DEF WonRows, RepliesOf, OpeningsOf, first, picked

\* Of which the bans.
LEMMA BansAre ==
    ASSUME NEW ms, NEW t, NEW a, a = aggregate(ms, t), NEW rows, rows = TeamMaps(ms, t)
    PROVE  a.bans = ByBan(rows, t) /\ a.firstBans = ByBan(FirstOf(rows, t), t)
<1>1. /\ a.games = rows /\ a.won = WonRows(rows, t) /\ a.first = FirstOf(rows, t)
      /\ a.mapStats = ByMap(rows) /\ a.mapsPicked = ByMap(PickedBy(rows, t))
      /\ a.bans = ByBan(rows, t) /\ a.firstBans = ByBan(FirstOf(rows, t), t)
      /\ a.pickFirstBan = ByMap(PickedBy(rows, t) \cap FirstOf(rows, t))
      /\ RepliesOf(a, t) /\ OpeningsOf(a, rows)
  BY CountIs
<1> QED BY <1>1

\* The maps of drafts: each a match with two teams and a game of it, finitely many, on
\* which a team has one ban at most.
LEMMA DraftsAre ==
    ASSUME NEW ms, AreDrafts(ms), NEW ls, ls \subseteq ms
    PROVE  /\ IsFiniteSet(ls) /\ IsFiniteSet(MapGames(ls)) /\ MapGames(ls) \subseteq MapGames(ms)
           /\ \A r \in MapGames(ls) : /\ r.m \in ls /\ r.m.f1 # r.m.f2 /\ IsFiniteSet(r.g.bans)
                                      /\ \A b \in r.g.bans : b.team \in {r.m.f1, r.m.f2}
           /\ \A r \in MapGames(ls) : \A t : /\ DraftBan(r, t) = OwnBans(r, t)
                                             /\ \A b, c \in OwnBans(r, t) : b = c
<1>1. IsFiniteSet(ls)
  BY FS_Subset DEF AreDrafts
<1>2. \A m \in ls : IsFiniteSet(m.games)
  BY DEF AreDrafts
<1>3. IsFiniteSet(MapGames(ls))
  BY <1>1, <1>2, MapGamesFinite
<1>4. \A r \in MapGames(ls) : /\ r.m \in ls /\ r.m.f1 # r.m.f2 /\ IsDraft(r.m, r.g)
  BY MapGamesAre DEF AreDrafts
<1>5. ASSUME NEW r \in MapGames(ls), NEW t
      PROVE  DraftBan(r, t) = OwnBans(r, t) /\ \A b, c \in OwnBans(r, t) : b = c
  <2>1. \A b, c \in OwnBans(r, t) : b = c /\ b.order \in Int
    BY <1>4 DEF IsDraft, OwnBans
  <2> QED BY <2>1 DEF DraftBan
<1>6. MapGames(ls) \subseteq MapGames(ms)
  BY MapGamesOfSome
<1> QED BY <1>1, <1>3, <1>4, <1>5, <1>6 DEF IsDraft

\* A window is as long as it says.
LEMMA WindowIs ==
    ASSUME NEW ms, AreDrafts(ms), NEW t, NEW v \in Nat, v >= 1, NEW shown, shown = scoutMatches(ms, t, v)
    PROVE  /\ shown \subseteq TheirMatches(ms, t) /\ TheirMatches(shown, t) = shown
           /\ Cardinality(shown) = Min({v, Cardinality(TheirMatches(ms, t))})
<1>1. PICK Xs : Xs = TheirMatches(ms, t)
  OBVIOUS
<1>2. IsFiniteSet(Xs) /\ Xs \subseteq ms
  <2>1. Xs \subseteq ms
    BY <1>1 DEF TheirMatches
  <2> QED BY <2>1, FS_Subset DEF AreDrafts
<1>3. PICK total \in Nat : total = Cardinality(Xs)
  BY <1>2, FS_CardinalityType
<1>4. PICK n : n = makeRecency(v, total, Max({15, total}))
  OBVIOUS
<1>5. shown = {m \in Xs : n = 0 \/ Cardinality({k \in Xs : k.at > m.at}) < n}
  BY <1>1, <1>3, <1>4 DEF scoutMatches, LastMatches, AllOfThem
<1>6. Max({v, 1}) = v
  BY DEF Max
<1>7. Max({15, total}) \in Nat /\ Max({15, total}) >= total
  BY DEF Max
<1>8. \A w \in Nat : Min({v, w}) = IF v <= w THEN v ELSE w
  BY DEF Min
<1>9. n = IF v < total THEN v ELSE 0
  BY <1>4, <1>6, <1>7, <1>8 DEF makeRecency, AllOfThem
<1>10. CASE v >= total
  <2>1. shown = Xs
    BY <1>5, <1>9, <1>10
  <2> QED BY <1>1, <1>3, <1>8, <1>10, <2>1 DEF TheirMatches
<1>11. CASE v < total
  <2>1. PICK order : order = {p \in Xs \X Xs : p[1].at > p[2].at}
    OBVIOUS
  <2>2. Orders(order, Xs)
    <3>1. ASSUME NEW m \in Xs, NEW l \in Xs, m.at = l.at PROVE m = l
      <4>1. t \in {m.f1, m.f2} \cap {l.f1, l.f2} /\ m \in ms /\ l \in ms
        BY <1>1 DEF TheirMatches
      <4>2. {m.f1, m.f2} \cap {l.f1, l.f2} # {}
        BY <4>1
      <4> QED BY <3>1, <4>1, <4>2, Zenon DEF AreDrafts
    <3>2. \A m \in Xs : m.at \in Int
      BY <1>2, Zenon DEF AreDrafts
    <3> QED BY <2>1, <3>1, <3>2 DEF Orders
  <2>3. \A m \in Xs : NoBefore(order, Xs, m) = Cardinality({k \in Xs : k.at > m.at})
    <3> SUFFICES ASSUME NEW m \in Xs PROVE {k \in Xs : <<k, m>> \in order} = {k \in Xs : k.at > m.at}
      BY DEF NoBefore
    <3> QED BY <2>1
  <2>4. PICK no : no = [m \in Xs |-> NoBefore(order, Xs, m)]
    OBVIOUS
  <2>5. /\ \A m \in Xs : no[m] \in 0..total - 1
        /\ \A k, m \in Xs : no[k] = no[m] => k = m
        /\ \A i \in 1..total : \E m \in Xs : no[m] = i - 1
    BY <1>2, <1>3, <2>2, <2>4, Enumerated
  <2>6. shown = {m \in Xs : no[m] < v}
    BY <1>5, <1>9, <1>11, <2>3, <2>4
  <2>7. Image(shown, no) = 0..v - 1
    <3>1. ASSUME NEW i \in 0..v - 1 PROVE i \in Image(shown, no)
      <4>1. i + 1 \in 1..total /\ (i + 1) - 1 = i /\ i < v
        BY <1>11
      <4>2. PICK m \in Xs : no[m] = (i + 1) - 1
        BY <2>5, <4>1
      <4> QED BY <2>6, <4>1, <4>2 DEF Image
    <3>2. ASSUME NEW m \in shown PROVE no[m] \in 0..v - 1
      BY <2>5, <2>6
    <3> QED BY <3>1, <3>2 DEF Image
  <2>8. IsFiniteSet(shown)
    BY <1>2, <2>6, FS_Subset
  <2>9. \A k, m \in shown : no[k] = no[m] => k = m
    BY <2>5, <2>6
  <2>10. Cardinality(Image(shown, no)) = Cardinality(shown)
    BY <2>8, <2>9, ImageOf
  <2>11. Cardinality(0..v - 1) = v
    BY FS_Interval
  <2>12. shown \subseteq Xs
    BY <2>6
  <2>13. TheirMatches(shown, t) = shown
    BY <1>1, <2>12 DEF TheirMatches
  <2>14. Min({v, total}) = v
    BY <1>8, <1>11
  <2> QED BY <1>1, <1>3, <2>7, <2>10, <2>11, <2>12, <2>13, <2>14
<1> QED BY <1>3, <1>10, <1>11

\* Each thing of a set that a sum counts as one.
LEMMA SumOfOnes ==
    ASSUME NEW Xs, IsFiniteSet(Xs), NEW Ys, Ys \subseteq Xs, NEW f, \A x \in Xs : f[x] = IF x \in Ys THEN 1 ELSE 0
    PROVE  SumOver(Xs, f) = Cardinality(Ys)
<1>1. PICK of : of = [x \in Xs |-> IF x \in Ys THEN {x} ELSE {}]
  OBVIOUS
<1>2. Each(Xs, of, f)
  <2> SUFFICES ASSUME NEW x \in Xs PROVE IsFiniteSet(of[x]) /\ f[x] = Cardinality(of[x])
    BY DEF Each
  <2>1. CASE x \in Ys
    BY <1>1, <2>1, FS_Singleton
  <2>2. CASE x \notin Ys
    BY <1>1, <2>2, FS_EmptySet
  <2> QED BY <2>1, <2>2
<1>3. \A x, y \in Xs : x # y => of[x] \cap of[y] = {}
  BY <1>1
<1>4. All(Xs, of) = Ys
  BY <1>1 DEF All
<1> QED BY <1>2, <1>3, <1>4, SumOfClasses

\* Of one ban a map for a team at most: every ban, counted one by one, is the maps it was
\* made on.
LEMMA GlanceCounts ==
    ASSUME NEW rows, IsFiniteSet(rows), NEW t,
           \A r \in rows : DraftBan(r, t) = OwnBans(r, t) /\ \A b, c \in OwnBans(r, t) : b = c
    PROVE  GlanceBans(rows, t) = Count(ByBan(rows, t))
<1>1. ASSUME NEW h
      PROVE  SumOver(rows, [r \in rows |-> Cardinality({b \in OwnBans(r, t) : b.hero = h})])
               = Cardinality(BannedOn(rows, t, h))
  <2>1. PICK f : f = [r \in rows |-> Cardinality({b \in OwnBans(r, t) : b.hero = h})]
    OBVIOUS
  <2>2. ASSUME NEW r \in rows PROVE f[r] = IF r \in BannedOn(rows, t, h) THEN 1 ELSE 0
    <3>1. PICK bs : bs = {b \in OwnBans(r, t) : b.hero = h}
      OBVIOUS
    <3>2. r \in BannedOn(rows, t, h) <=> bs # {}
      BY <3>1 DEF BannedOn
    <3>3. CASE bs = {}
      BY <2>1, <3>1, <3>2, <3>3, FS_EmptySet
    <3>4. CASE bs # {}
      <4>1. PICK b \in bs : bs = {b}
        BY <3>1, <3>4
      <4>2. Cardinality(bs) = 1
        BY <4>1, FS_Singleton
      <4> QED BY <2>1, <3>1, <3>2, <3>4, <4>2
    <3> QED BY <3>3, <3>4
  <2>3. BannedOn(rows, t, h) \subseteq rows
    BY DEF BannedOn
  <2> QED BY <2>1, <2>2, <2>3, SumOfOnes
<1>2. UNION {{b.hero : b \in OwnBans(r, t)} : r \in rows} = Banned(rows, t)
  <2>1. {{b.hero : b \in OwnBans(r, t)} : r \in rows} = {{b.hero : b \in DraftBan(r, t)} : r \in rows}
    OBVIOUS
  <2> QED BY <2>1 DEF Banned
<1>3. GlanceBans(rows, t) = [h \in Banned(rows, t) |-> Cardinality(BannedOn(rows, t, h))]
  BY <1>1, <1>2 DEF GlanceBans
<1>4. Count(ByBan(rows, t)) = [h \in Banned(rows, t) |-> Cardinality(BannedOn(rows, t, h))]
  BY DEF Count, ByBan
<1> QED BY <1>3, <1>4

\* The greatest are among the things counted, and they are greater than the others.
LEMMA TopsAre ==
    ASSUME NEW counts, NEW n, NEW S \in Tops(counts, n)
    PROVE  /\ S \subseteq DOMAIN counts /\ Cardinality(S) = Min({n, Cardinality(DOMAIN counts)})
           /\ \A k \in S, l \in DOMAIN counts \ S : counts[k] >= counts[l]
BY DEF Tops, kSubset

\* The one on top has as many as any.
LEMMA TopOne ==
    ASSUME NEW counts, IsFiniteSet(DOMAIN counts), Ints(DOMAIN counts, counts), NEW S \in Tops(counts, 1), NEW o \in S
    PROVE  o \in DOMAIN counts /\ \A k \in DOMAIN counts : counts[o] >= counts[k]
<1>1. S \subseteq DOMAIN counts /\ IsFiniteSet(S) /\ Cardinality(S) = Min({1, Cardinality(DOMAIN counts)})
  <2>1. S \subseteq DOMAIN counts /\ Cardinality(S) = Min({1, Cardinality(DOMAIN counts)})
    BY TopsAre
  <2> QED BY <2>1, FS_Subset
<1>2. Cardinality(DOMAIN counts) \in Nat /\ Cardinality(S) \in Nat
  BY <1>1, FS_CardinalityType
<1>3. \A w \in Nat : Min({1, w}) = IF 1 <= w THEN 1 ELSE w
  BY DEF Min
<1>4. ASSUME NEW k \in S PROVE k = o
  <2>1. SUFFICES ASSUME k # o PROVE FALSE
    OBVIOUS
  <2>2. Cardinality({k, o}) = 2 /\ IsFiniteSet({k, o})
    <3>1. IsFiniteSet({k}) /\ Cardinality({k}) = 1 /\ o \notin {k} /\ {k} \cup {o} = {k, o}
      BY <2>1, FS_Singleton
    <3> QED BY <3>1, FS_AddElement
  <2>3. {k, o} \subseteq S
    BY <1>4
  <2>4. Cardinality({k, o}) <= Cardinality(S)
    BY <1>1, <2>3, FS_Subset
  <2> QED BY <1>1, <1>2, <1>3, <2>2, <2>4
<1>5. ASSUME NEW k \in DOMAIN counts PROVE counts[o] >= counts[k]
  <2>1. CASE k \in S
    BY <1>1, <1>4, <2>1 DEF Ints
  <2>2. CASE k \notin S
    BY <2>2, TopsAre
  <2> QED BY <2>1, <2>2
<1> QED BY <1>1, <1>5

\* Put before three of the four greatest, one that has as many as any makes the four
\* greatest.
LEMMA TopsTakeIn ==
    ASSUME NEW counts, IsFiniteSet(DOMAIN counts), Ints(DOMAIN counts, counts), NEW o \in DOMAIN counts,
           \A k \in DOMAIN counts : counts[o] >= counts[k],
           NEW S \in Tops(counts, 4), o \notin S, NEW T \in Tops(counts, 3), T \subseteq S
    PROVE  {o} \cup T \in Tops(counts, 4)
<1>1. PICK Ks : Ks = DOMAIN counts
  OBVIOUS
<1>2. S \subseteq Ks /\ IsFiniteSet(S) /\ Cardinality(S) = Min({4, Cardinality(Ks)})
  <2>1. S \subseteq Ks /\ Cardinality(S) = Min({4, Cardinality(Ks)})
    BY <1>1, TopsAre
  <2> QED BY <1>1, <2>1, FS_Subset
<1>3. Cardinality(Ks) \in Nat /\ Cardinality(S) \in Nat
  BY <1>1, <1>2, FS_CardinalityType
<1>4. \A n \in Nat : \A w \in Nat : Min({n, w}) = IF n <= w THEN n ELSE w
  BY DEF Min
<1>5. Cardinality(S) < Cardinality(Ks)
  <2>1. S # Ks
    BY <1>1
  <2>2. Cardinality(S) <= Cardinality(Ks) /\ (Cardinality(S) = Cardinality(Ks) => S = Ks)
    BY <1>1, <1>2, FS_Subset
  <2> QED BY <1>3, <2>1, <2>2
<1>6. Cardinality(Ks) > 4
  BY <1>2, <1>3, <1>4, <1>5
<1>7. T \subseteq Ks /\ IsFiniteSet(T) /\ Cardinality(T) = Min({3, Cardinality(Ks)})
  <2>1. T \subseteq Ks /\ Cardinality(T) = Min({3, Cardinality(Ks)})
    BY <1>1, TopsAre
  <2> QED BY <1>1, <2>1, FS_Subset
<1>8. Cardinality(T) = 3
  BY <1>3, <1>4, <1>6, <1>7
<1>9. Cardinality({o} \cup T) = 4
  <2>1. o \notin T /\ {o} \cup T = T \cup {o}
    OBVIOUS
  <2>2. Cardinality(T \cup {o}) = Cardinality(T) + 1
    BY <1>7, <2>1, FS_AddElement
  <2> QED BY <1>8, <2>1, <2>2
<1>10. ASSUME NEW k \in {o} \cup T, NEW l \in Ks \ ({o} \cup T) PROVE counts[k] >= counts[l]
  <2>1. CASE k = o
    BY <1>1, <2>1
  <2>2. CASE k \in T
    <3>1. counts[k] >= counts[o]
      BY <1>1, <2>2, TopsAre
    <3>2. counts[o] >= counts[l]
      BY <1>1
    <3>3. counts[k] \in Int /\ counts[o] \in Int /\ counts[l] \in Int
      BY <1>1, <1>7, <2>2 DEF Ints
    <3> QED BY <3>1, <3>2, <3>3
  <2> QED BY <2>1, <2>2
<1>11. Min({4, Cardinality(Ks)}) = 4
  BY <1>3, <1>4, <1>6
<1>12. {o} \cup T \subseteq Ks
  BY <1>1, <1>7
<1> QED BY <1>1, <1>9, <1>10, <1>11, <1>12 DEF Tops, kSubset

\* The glance card shows four of the most banned heroes, as the prep sheet does.
LEMMA GlanceIsExpected ==
    ASSUME NEW rows, IsFiniteSet(rows), NEW t, IsFiniteSet(Banned(rows, t)),
           \A r \in rows : DraftBan(r, t) = OwnBans(r, t) /\ \A b, c \in OwnBans(r, t) : b = c
    PROVE  GlanceShows(rows, t) \subseteq Tops(Count(ByBan(rows, t)), 4)
<1>1. PICK counts : counts = Count(ByBan(rows, t))
  OBVIOUS
<1>2. counts = [h \in Banned(rows, t) |-> Cardinality(BannedOn(rows, t, h))]
  BY <1>1 DEF Count, ByBan
<1>3. GlanceBans(rows, t) = counts
  BY <1>1, GlanceCounts
<1>4. Ints(DOMAIN counts, counts) /\ IsFiniteSet(DOMAIN counts)
  <2>1. ASSUME NEW h PROVE Cardinality(BannedOn(rows, t, h)) \in Int
    <3>1. IsFiniteSet(BannedOn(rows, t, h))
      BY FS_Subset DEF BannedOn
    <3> QED BY <3>1, FS_CardinalityType
  <2> QED BY <1>2, <2>1 DEF Ints
<1>5. Openers(rows, t) \subseteq UNION Tops(counts, 1)
  <2>1. PICK drafts : drafts = {r \in rows : OwnBans(r, t) # {}}
    OBVIOUS
  <2>2. Banned(drafts, t) = Banned(rows, t)
    BY <2>1 DEF Banned
  <2>3. ASSUME NEW h PROVE {r \in drafts : \E b \in DraftBan(r, t) : b.hero = h} = BannedOn(rows, t, h)
    BY <2>1 DEF BannedOn
  <2>4. [h \in Banned(drafts, t) |-> Cardinality({r \in drafts : \E b \in DraftBan(r, t) : b.hero = h})] = counts
    BY <1>2, <2>2, <2>3
  <2> QED BY <2>1, <2>4 DEF Openers
<1>6. ASSUME NEW o \in Openers(rows, t), NEW S \in Tops(counts, 4), NEW T \in Tops(counts, 3), T \subseteq S, o \notin S
      PROVE  {o} \cup T \in Tops(counts, 4)
  <2>1. PICK One \in Tops(counts, 1) : o \in One
    BY <1>5
  <2>2. o \in DOMAIN counts /\ \A k \in DOMAIN counts : counts[o] >= counts[k]
    BY <1>4, <2>1, TopOne
  <2> QED BY <1>4, <1>6, <2>2, TopsTakeIn
<1> QED BY <1>1, <1>3, <1>6 DEF GlanceShows

\* A quotient, and the quotient of a rate rounded.
LEMMA QuotientIs ==
    ASSUME NEW x \in Int, NEW y \in Nat, y > 0
    PROVE  x \div y \in Int /\ y * (x \div y) <= x /\ x < y * (x \div y) + y
OBVIOUS

\* It is rounded to no more than what is above it.
LEMMA QuotientBelow ==
    ASSUME NEW x \in Int, NEW y \in Nat, y > 0, NEW c \in Int, x < y * c + y
    PROVE  x \div y <= c
<1>1. PICK q \in Int : q = x \div y /\ y * q <= x
  BY QuotientIs
<1>2. SUFFICES ASSUME q >= c + 1 PROVE FALSE
  BY <1>1
<1>3. y * q >= y * (c + 1)
  BY <1>1, <1>2
<1>4. y * (c + 1) = y * c + y
  OBVIOUS
<1> QED BY <1>1, <1>3, <1>4

\* The better of two rates is not rounded to less.
LEMMA RatesRound ==
    ASSUME NEW w \in Nat, NEW g \in Nat, g > 0, NEW x \in Nat, NEW h \in Nat, h > 0, x * g <= w * h
    PROVE  pctOf(x, h) \in Int /\ pctOf(w, g) \in Int /\ pctOf(x, h) <= pctOf(w, g)
<1>1. pctOf(x, h) = (200 * x + h) \div (2 * h) /\ pctOf(w, g) = (200 * w + g) \div (2 * g)
  BY DEF pctOf
<1>2. 200 * x + h \in Int /\ 2 * h \in Nat /\ 2 * h > 0 /\ 200 * w + g \in Int /\ 2 * g \in Nat /\ 2 * g > 0
  OBVIOUS
<1>3. PICK p \in Int, q \in Int : p = pctOf(x, h) /\ q = pctOf(w, g)
  BY <1>1, <1>2, QuotientIs
<1>4. (2 * h) * p <= 200 * x + h /\ 200 * w + g < (2 * g) * q + 2 * g
  BY <1>1, <1>2, <1>3, QuotientIs
<1>5. SUFFICES ASSUME p >= q + 1 PROVE FALSE
  BY <1>3
<1>6. ((2 * h) * p) * g <= (200 * x + h) * g
  BY <1>4
<1>7. (200 * w + g) * h < ((2 * g) * q + 2 * g) * h
  BY <1>4
<1>8. ((2 * g) * q + 2 * g) * h <= ((2 * h) * p) * g
  <2>1. (h * g) * (q + 1) <= (h * g) * p
    <3>1. h * g \in Nat
      OBVIOUS
    <3> QED BY <1>5, <3>1
  <2>2. ((2 * g) * q + 2 * g) * h = 2 * ((h * g) * (q + 1)) /\ ((2 * h) * p) * g = 2 * ((h * g) * p)
    OBVIOUS
  <2> QED BY <2>1, <2>2
<1>9. (200 * x + h) * g = 200 * (x * g) + h * g /\ (200 * w + g) * h = 200 * (w * h) + h * g
  OBVIOUS
<1>10. x * g \in Nat /\ w * h \in Nat /\ h * g \in Nat
  OBVIOUS
<1>11. 200 * (x * g) + h * g <= 200 * (w * h) + h * g
  BY <1>10
<1>12. PICK a \in Int, b \in Int, c \in Int, d \in Int :
         /\ a = ((2 * h) * p) * g /\ b = (200 * x + h) * g
         /\ c = (200 * w + g) * h /\ d = ((2 * g) * q + 2 * g) * h
  OBVIOUS
<1>13. a <= b /\ c < d /\ d <= a /\ b <= c
  BY <1>6, <1>7, <1>8, <1>9, <1>11, <1>12
<1> QED BY <1>12, <1>13

\* A map to target is no better than the mean of the maps, so there is a better one.
LEMMA WorstHasBetter ==
    ASSUME NEW rows, IsFiniteSet(rows), NEW t, NEW a, a.mapStats = ByMap(rows), NEW mp \in worstMaps(a, t)
    PROVE  /\ mp \in DOMAIN a.mapStats
           /\ \E mq \in DOMAIN a.mapStats :
                Cardinality(WonRows(a.mapStats[mp], t)) * Cardinality(a.mapStats[mq])
                  < Cardinality(WonRows(a.mapStats[mq], t)) * Cardinality(a.mapStats[mp])
<1> DEFINE g(k) == Cardinality(a.mapStats[k])
           w(k) == Cardinality(WonRows(a.mapStats[k], t))
<1>1. PICK maps : maps = {k \in DOMAIN a.mapStats : g(k) >= 2}
  OBVIOUS
<1>2. PICK games : games = [k \in maps |-> g(k)]
  OBVIOUS
<1>3. PICK wr : wr = [k \in maps |-> pctOf(w(k), games[k])]
  OBVIOUS
<1>4. PICK weights : weights = [k \in maps |-> wr[k] * games[k]]
  OBVIOUS
<1>5. PICK baseline : baseline = (2 * Total(weights) + Total(games)) \div (2 * Total(games))
  OBVIOUS
<1>6. mp \in maps /\ wr[mp] <= baseline - 10
  <2>1. PICK weak : weak = {k \in maps : wr[k] <= baseline - 10}
    OBVIOUS
  <2>2. worstMaps(a, t) = IF maps = {} THEN {} ELSE UNION Tops([k \in weak |-> -wr[k]], 4)
    BY <1>1, <1>2, <1>3, <1>4, <1>5, <2>1 DEF worstMaps, WORST_MIN_GAMES, WORST_MARGIN
  <2>3. PICK S \in Tops([k \in weak |-> -wr[k]], 4) : mp \in S
    BY <2>2
  <2>4. S \subseteq DOMAIN [k \in weak |-> -wr[k]]
    BY <2>3, TopsAre
  <2>5. mp \in weak
    BY <2>3, <2>4
  <2> QED BY <2>1, <2>5
<1>7. ASSUME NEW k \in DOMAIN a.mapStats PROVE IsFiniteSet(a.mapStats[k]) /\ g(k) \in Nat /\ w(k) \in Nat
  <2>1. a.mapStats[k] \subseteq rows /\ WonRows(a.mapStats[k], t) \subseteq rows
    BY DEF ByMap, OnMap, WonRows
  <2>2. IsFiniteSet(a.mapStats[k]) /\ IsFiniteSet(WonRows(a.mapStats[k], t))
    BY <2>1, FS_Subset
  <2> QED BY <2>2, FS_CardinalityType
<1>8. IsFiniteSet(maps)
  <2>1. DOMAIN a.mapStats = Image(rows, [r \in rows |-> r.g.map])
    BY DEF ByMap, Image
  <2>2. IsFiniteSet(DOMAIN a.mapStats)
    BY <2>1, ImageOf
  <2> QED BY <1>1, <2>2, FS_Subset
<1>9. SUFFICES ASSUME \A k \in DOMAIN a.mapStats : w(k) * g(mp) <= w(mp) * g(k) PROVE FALSE
  <2>1. mp \in DOMAIN a.mapStats
    BY <1>1, <1>6
  <2>2. ASSUME NEW k \in DOMAIN a.mapStats PROVE w(k) * g(mp) \in Int /\ w(mp) * g(k) \in Int
    <3>1. w(k) \in Nat /\ g(mp) \in Nat /\ w(mp) \in Nat /\ g(k) \in Nat
      BY <1>7, <2>1
    <3> HIDE DEF w, g
    <3> QED BY <3>1
  <2> HIDE DEF w, g
  <2>3. \E k \in DOMAIN a.mapStats : w(mp) * g(k) < w(k) * g(mp)
    BY <1>9, <2>2
  <2> QED BY <2>1, <2>3 DEF w, g
<1> HIDE DEF w, g
<1>10. ASSUME NEW k \in maps
       PROVE  wr[k] \in Int /\ wr[mp] \in Int /\ wr[k] <= wr[mp] /\ games[k] \in Nat /\ games[k] > 0
  <2>1. /\ w(mp) \in Nat /\ g(mp) \in Nat /\ g(mp) > 0 /\ w(k) \in Nat /\ g(k) \in Nat /\ g(k) > 0
        /\ w(k) * g(mp) <= w(mp) * g(k)
    BY <1>1, <1>6, <1>7, <1>9
  <2>2. pctOf(w(k), g(k)) \in Int /\ pctOf(w(mp), g(mp)) \in Int /\ pctOf(w(k), g(k)) <= pctOf(w(mp), g(mp))
    BY <2>1, RatesRound
  <2> QED BY <1>2, <1>3, <1>6, <2>1, <2>2
<1>11. PICK c \in Int : c = wr[mp]
  BY <1>6, <1>10
<1>12. PICK most : most = [k \in maps |-> c * games[k]]
  OBVIOUS
<1>13. \A k \in maps : weights[k] \in Int /\ most[k] \in Int /\ weights[k] <= most[k]
  <2> SUFFICES ASSUME NEW k \in maps PROVE weights[k] \in Int /\ most[k] \in Int /\ weights[k] <= most[k]
    OBVIOUS
  <2>1. PICK x \in Int, y \in Nat : x = wr[k] /\ y = games[k] /\ x <= c
    BY <1>10, <1>11
  <2>2. x * y <= c * y
    BY <2>1
  <2> QED BY <1>4, <1>12, <2>1, <2>2
<1>14. DOMAIN weights = maps /\ DOMAIN games = maps
  BY <1>2, <1>4
<1>15. Ints(maps, weights) /\ Ints(maps, most) /\ Ints(maps, games)
  BY <1>10, <1>13 DEF Ints
<1>16. PICK W \in Int, G \in Nat : W = Total(weights) /\ G = Total(games) /\ G > 0
  <2>1. Total(weights) \in Int
    BY <1>8, <1>14, <1>15, SumAdds DEF Total
  <2>2. Total(games) \in Nat /\ games[mp] <= Total(games)
    BY <1>6, <1>8, <1>10, <1>14, SumCovers DEF Total
  <2> QED BY <1>6, <1>10, <2>1, <2>2
<1>17. W <= c * G
  <2>1. SumOver(maps, weights) <= SumOver(maps, most)
    BY <1>8, <1>13, <1>15, SumsCompare
  <2>2. SumOver(maps, most) = c * SumOver(maps, games)
    BY <1>8, <1>11, <1>12, <1>15, SumScales
  <2> QED BY <1>14, <1>16, <2>1, <2>2 DEF Total
<1>18. 2 * W + G < (2 * G) * c + 2 * G
  <2>1. (2 * G) * c = 2 * (c * G) /\ c * G \in Int
    BY <1>16
  <2> QED BY <1>16, <1>17, <2>1
<1>19. baseline <= c
  <2>1. 2 * W + G \in Int /\ 2 * G \in Nat /\ 2 * G > 0
    BY <1>16
  <2> QED BY <1>5, <1>16, <1>18, <2>1, QuotientBelow
<1>20. baseline \in Int
  <2>1. 2 * W + G \in Int /\ 2 * G \in Nat /\ 2 * G > 0
    BY <1>16
  <2> QED BY <1>5, <1>16, <2>1, QuotientIs
<1> QED BY <1>6, <1>11, <1>19, <1>20

\* Two heroes that most of the openings have were together in one.
LEMMA OpenedTogether ==
    ASSUME NEW a, NEW t, NEW ban, IsFiniteSet(a.banOpen[ban]),
           NEW h \in WhatTheyOpen(a, t, ban), NEW k \in WhatTheyOpen(a, t, ban)
    PROVE  \E r \in a.banOpen[ban] : {h, k} \subseteq r.g.open[t]
<1>1. PICK games : games = a.banOpen[ban]
  OBVIOUS
<1>2. PICK hs, ks : hs = {r \in games : h \in r.g.open[t]} /\ ks = {r \in games : k \in r.g.open[t]}
  OBVIOUS
<1>3. /\ ~(Cardinality(games) < 2)
      /\ 10 * Cardinality(hs) >= 6 * Cardinality(games) /\ 10 * Cardinality(ks) >= 6 * Cardinality(games)
  BY <1>1, <1>2 DEF WhatTheyOpen
<1>4. hs \subseteq games /\ ks \subseteq games /\ hs \cup ks \subseteq games
  BY <1>2
<1>5. IsFiniteSet(hs) /\ IsFiniteSet(ks) /\ IsFiniteSet(hs \cup ks) /\ Cardinality(hs \cup ks) <= Cardinality(games)
  <2>1. IsFiniteSet(games)
    BY <1>1
  <2>2. IsFiniteSet(hs) /\ IsFiniteSet(ks)
    BY <1>4, <2>1, FS_Subset
  <2>3. IsFiniteSet(hs \cup ks) /\ Cardinality(hs \cup ks) <= Cardinality(games)
    BY <1>4, <2>1, FS_Subset
  <2> QED BY <2>2, <2>3
<1>6. Cardinality(hs \cup ks) = Cardinality(hs) + Cardinality(ks) - Cardinality(hs \cap ks)
  BY <1>5, FS_Union
<1>7. /\ Cardinality(hs) \in Nat /\ Cardinality(ks) \in Nat /\ Cardinality(hs \cup ks) \in Nat
      /\ Cardinality(games) \in Nat
  BY <1>1, <1>5, FS_CardinalityType
<1>8. hs \cap ks # {}
  <2>1. SUFFICES ASSUME hs \cap ks = {} PROVE FALSE
    OBVIOUS
  <2>2. Cardinality(hs \cap ks) = 0
    BY <2>1, FS_EmptySet
  <2> QED BY <1>3, <1>5, <1>6, <1>7, <2>2
<1>9. PICK r \in hs \cap ks : TRUE
  BY <1>8
<1> QED BY <1>1, <1>2, <1>9

\* A hero's bans, counted map by map, are its bans.
LEMMA BansByMap ==
    ASSUME NEW shown, NEW t, NEW rows, rows = MapGames(shown), IsFiniteSet(rows),
           \A r \in rows : DraftBan(r, t) = OwnBans(r, t), NEW h, NEW on,
           on = [mp \in DOMAIN ByMap(rows) |->
                   LET here == BansHere(shown, t, mp) IN IF h \in DOMAIN here THEN here[h] ELSE 0]
    PROVE  Cardinality(BannedOn(rows, t, h)) = SumOver(DOMAIN ByMap(rows), on)
<1>1. PICK maps : maps = DOMAIN ByMap(rows)
  OBVIOUS
<1>2. IsFiniteSet(maps) /\ \A r \in rows : r.g.map \in maps
  <2>1. maps = {r.g.map : r \in rows}
    BY <1>1 DEF ByMap
  <2>2. maps = Image(rows, [r \in rows |-> r.g.map])
    BY <2>1 DEF Image
  <2>3. IsFiniteSet(maps)
    BY <2>2, ImageOf
  <2> QED BY <2>1, <2>3
<1>3. PICK of : of = [mp \in maps |-> {r \in BannedOn(rows, t, h) : r.g.map = mp}]
  OBVIOUS
<1>4. ASSUME NEW mp \in maps PROVE IsFiniteSet(of[mp]) /\ on[mp] = Cardinality(of[mp])
  <2>1. of[mp] \subseteq rows
    BY <1>3 DEF BannedOn
  <2>2. IsFiniteSet(of[mp])
    BY <2>1, FS_Subset
  <2>3. {r \in MapHistory(shown, t, mp) : h \in {b.hero : b \in OwnBans(r, t)}} = of[mp]
    BY <1>3 DEF MapHistory, BannedOn
  <2>4. PICK here : here = BansHere(shown, t, mp)
    OBVIOUS
  <2>5. h \in DOMAIN here <=> of[mp] # {}
    <3>1. DOMAIN here = UNION {{b.hero : b \in OwnBans(r, t)} : r \in MapHistory(shown, t, mp)}
      BY <2>4 DEF BansHere
    <3>2. h \in DOMAIN here <=> \E r \in MapHistory(shown, t, mp) : h \in {b.hero : b \in OwnBans(r, t)}
      BY <3>1
    <3> QED BY <2>3, <3>2
  <2>6. ASSUME h \in DOMAIN here PROVE here[h] = Cardinality(of[mp])
    BY <2>3, <2>4, <2>6 DEF BansHere
  <2>7. on[mp] = IF h \in DOMAIN here THEN here[h] ELSE 0
    BY <1>1, <2>4
  <2>8. of[mp] = {} => Cardinality(of[mp]) = 0
    BY FS_EmptySet
  <2> QED BY <2>2, <2>5, <2>6, <2>7, <2>8
<1>5. Each(maps, of, on)
  BY <1>4 DEF Each
<1>6. All(maps, of) = BannedOn(rows, t, h)
  BY <1>2, <1>3 DEF All, BannedOn
<1>7. \A k, l \in maps : k # l => of[k] \cap of[l] = {}
  BY <1>3
<1> QED BY <1>1, <1>2, <1>5, <1>6, <1>7, SumOfClasses

\* Its heroes are finitely many.
LEMMA BannedFinite ==
    ASSUME NEW rows, IsFiniteSet(rows), NEW t, \A r \in rows : IsFiniteSet(r.g.bans)
    PROVE  IsFiniteSet(Banned(rows, t))
<1>1. PICK of : of = [r \in rows |-> {b.hero : b \in DraftBan(r, t)}]
  OBVIOUS
<1>2. ASSUME NEW r \in rows PROVE IsFiniteSet(of[r])
  <2>1. DraftBan(r, t) \subseteq r.g.bans
    BY DEF DraftBan, OwnBans
  <2>2. IsFiniteSet(DraftBan(r, t))
    BY <2>1, FS_Subset
  <2>3. of[r] = Image(DraftBan(r, t), [b \in DraftBan(r, t) |-> b.hero])
    BY <1>1 DEF Image
  <2> QED BY <2>2, <2>3, ImageOf
<1>3. IsFiniteSet(Image(rows, of)) /\ \A X \in Image(rows, of) : IsFiniteSet(X)
  BY <1>2, ImageOf DEF Image
<1>4. Banned(rows, t) = UNION Image(rows, of)
  BY <1>1 DEF Banned, Image
<1> QED BY <1>3, <1>4, FS_UNION

\* Of any season of drafts and in any window, the panels of a team's sheet do not
\* contradict each other (renderScoutBody, renderPrepBody, aggregate, worstMaps).
THEOREM SheetsAgree ==
    ASSUME NEW ms, AreDrafts(ms), NEW t, NEW v \in Nat, v >= 1
    PROVE  SheetAgrees(ms, t, v)
<1>1. PICK shown : shown = scoutMatches(ms, t, v)
  OBVIOUS
<1>2. PICK a : a = aggregate(shown, t)
  OBVIOUS
<1>3. PICK rows : rows = MapGames(shown)
  OBVIOUS
<1>4. /\ shown \subseteq TheirMatches(ms, t) /\ TheirMatches(shown, t) = shown
      /\ Cardinality(shown) = Min({v, Cardinality(TheirMatches(ms, t))})
  BY <1>1, WindowIs
<1>5. TheirMatches(ms, t) \subseteq ms /\ shown \subseteq ms
  BY <1>4 DEF TheirMatches
<1>6. /\ IsFiniteSet(rows) /\ \A r \in rows : IsFiniteSet(r.g.bans)
      /\ \A r \in rows : DraftBan(r, t) = OwnBans(r, t) /\ \A b, c \in OwnBans(r, t) : b = c
  BY <1>3, <1>5, DraftsAre
<1>7. rows = TeamMaps(shown, t)
  BY <1>3, <1>4 DEF TeamMaps
<1>8. /\ a.games = rows /\ a.won = WonRows(rows, t) /\ a.first = FirstOf(rows, t)
      /\ a.mapStats = ByMap(rows) /\ a.mapsPicked = ByMap(PickedBy(rows, t))
      /\ a.bans = ByBan(rows, t)
      /\ a.pickFirstBan = ByMap(PickedBy(rows, t) \cap FirstOf(rows, t))
      /\ \A o \in DOMAIN a.counter : \A r \in a.counter[o] : \E b \in DraftBan(r, t) : b.order = 2
      /\ \A h \in DOMAIN a.banOpen : a.banOpen[h] \subseteq rows
  BY <1>2, <1>7, CountIs DEF RepliesOf, OpeningsOf
<1>9. GlanceBans(a.games, t) = Count(a.bans)
  BY <1>6, <1>8, GlanceCounts
<1>10. GlanceShows(a.games, t) \subseteq ExpectedBans(a)
  BY <1>6, <1>8, BannedFinite, GlanceIsExpected DEF ExpectedBans
<1>11. SheetHead(ms, shown, t, a).scouted <= SheetHead(ms, shown, t, a).allMaps
  <2>1. PICK all : all = MapGames(TheirMatches(ms, t))
    OBVIOUS
  <2>2. IsFiniteSet(all)
    BY <1>5, <2>1, DraftsAre
  <2>3. Cardinality({r \in all : t \in DOMAIN r.g.open}) <= Cardinality(all)
    BY <2>2, FS_Subset
  <2> QED BY <2>1, <2>3 DEF SheetHead
<1>12. ASSUME NEW mp \in DOMAIN a.mapStats
       PROVE  LET here == MapRecord(shown, t, mp) IN
              here.games = a.mapStats[mp] /\ here.wins = a.mapStats[mp] \cap a.won
  <2>1. MapHistory(shown, t, mp) = OnMap(rows, mp) /\ a.mapStats[mp] = OnMap(rows, mp)
    BY <1>3, <1>8 DEF MapHistory, OnMap, ByMap
  <2>2. WonRows(OnMap(rows, mp), t) = OnMap(rows, mp) \cap WonRows(rows, t)
    BY DEF WonRows, OnMap
  <2> QED BY <1>8, <2>1, <2>2 DEF MapRecord
<1>13. ASSUME NEW h \in DOMAIN a.bans,
              NEW on, on = [mp \in DOMAIN a.mapStats |-> LET here == BansHere(shown, t, mp) IN
                                                           IF h \in DOMAIN here THEN here[h] ELSE 0]
       PROVE  Cardinality(a.bans[h]) = SumOver(DOMAIN a.mapStats, on)
  <2>1. a.bans[h] = BannedOn(rows, t, h)
    BY <1>8 DEF ByBan
  <2> QED BY <1>3, <1>6, <1>8, <1>13, <2>1, BansByMap
<1>14. ASSUME NEW o \in DOMAIN a.counter PROVE a.counter[o] \cap a.first = {}
  <2>1. SUFFICES ASSUME NEW r \in a.counter[o], r \in a.first PROVE FALSE
    OBVIOUS
  <2>2. PICK b \in DraftBan(r, t), c \in DraftBan(r, t) : b.order = 2 /\ c.order = 1
    BY <1>8, <2>1 DEF FirstOf
  <2>3. b = c
    BY <1>6, <1>8, <2>1, <2>2 DEF FirstOf
  <2> QED BY <2>2, <2>3
<1>15. ASSUME NEW mp \in ToldSetup(a) PROVE a.pickFirstBan[mp] \subseteq a.mapsPicked[mp] \cap a.first
  <2>1. PICK counts : counts = [k \in {l \in SignatureSetups(a) : Cardinality(a.pickFirstBan[l]) >= 2}
                                  |-> Cardinality(a.pickFirstBan[k])]
    OBVIOUS
  <2>2. PICK S \in Tops(counts, 1) : mp \in S
    BY <2>1 DEF ToldSetup
  <2>3. mp \in DOMAIN counts
    BY <2>2, TopsAre
  <2>4. mp \in DOMAIN a.pickFirstBan
    BY <2>1, <2>3 DEF SignatureSetups
  <2>5. a.pickFirstBan[mp] = OnMap(PickedBy(rows, t) \cap FirstOf(rows, t), mp)
    BY <1>8, <2>4 DEF ByMap
  <2>6. mp \in DOMAIN a.mapsPicked
    BY <1>8, <2>4 DEF ByMap
  <2>7. a.mapsPicked[mp] = OnMap(PickedBy(rows, t), mp)
    BY <1>8, <2>6 DEF ByMap
  <2> QED BY <1>8, <2>5, <2>7 DEF OnMap
<1>16. \A mp \in worstMaps(a, t) : \E mq \in DOMAIN a.mapStats :
          Cardinality(WonRows(a.mapStats[mp], t)) * Cardinality(a.mapStats[mq])
            < Cardinality(WonRows(a.mapStats[mq], t)) * Cardinality(a.mapStats[mp])
  BY <1>6, <1>8, WorstHasBetter
<1>17. ASSUME NEW ban \in DOMAIN a.banOpen, NEW h \in WhatTheyOpen(a, t, ban), NEW k \in WhatTheyOpen(a, t, ban)
       PROVE  \E r \in a.banOpen[ban] : {h, k} \subseteq r.g.open[t]
  <2>1. IsFiniteSet(a.banOpen[ban])
    BY <1>6, <1>8, FS_Subset
  <2> QED BY <2>1, OpenedTogether
<1>18. \A h \in DOMAIN a.bans :
         Cardinality(a.bans[h]) =
           SumOver(DOMAIN a.mapStats, [mp \in DOMAIN a.mapStats |-> LET here == BansHere(shown, t, mp) IN
                                                                      IF h \in DOMAIN here THEN here[h] ELSE 0])
  BY <1>13
<1> QED BY <1>1, <1>2, <1>4, <1>9, <1>10, <1>11, <1>12, <1>14, <1>15, <1>16, <1>17, <1>18 DEF SheetAgrees

-----------------------------------------------------------------------------
(* The field *)

\* The bans of the field, each with its map; those of a team; those of a hero; and the maps
\* a team's are counted from.
FieldBans(ms, firstOnly) ==
    {x \in MapGames(ms) \X UNION {r.g.bans : r \in MapGames(ms)} :
       x[2] \in x[1].g.bans /\ (firstOnly => x[2].order = 1)}
ByTeam(bans, t) == {x \in bans : x[2].team = t}
OfHero(bans, h) == {x \in bans : x[2].hero = h}
SidesOf(ms) == UNION {{m.f1, m.f2} : m \in ms}
HeroesIn(bans) == {x[2].hero : x \in bans}
ReadFrom(ms, t, firstOnly) == IF firstOnly THEN FirstOf(TeamMaps(ms, t), t) ELSE TeamMaps(ms, t)

\* They are finitely many, each of a team of the season.
LEMMA FieldIs ==
    ASSUME NEW ms, AreDrafts(ms), NEW firstOnly, NEW bans, bans = FieldBans(ms, firstOnly)
    PROVE  /\ IsFiniteSet(bans) /\ IsFiniteSet(SidesOf(ms))
           /\ \A x \in bans : /\ x = <<x[1], x[2]>> /\ x[1] \in MapGames(ms) /\ x[2] \in x[1].g.bans
                              /\ x[2].team \in {x[1].m.f1, x[1].m.f2} /\ x[2].team \in SidesOf(ms)
           /\ \A r \in MapGames(ms) : \A b \in r.g.bans : (firstOnly => b.order = 1) => <<r, b>> \in bans
<1>1. PICK rows : rows = MapGames(ms)
  OBVIOUS
<1>2. /\ IsFiniteSet(ms) /\ IsFiniteSet(rows)
      /\ \A r \in rows : /\ r.m \in ms /\ IsFiniteSet(r.g.bans)
                         /\ \A b \in r.g.bans : b.team \in {r.m.f1, r.m.f2}
  BY <1>1, DraftsAre
<1>3. PICK all : all = UNION {r.g.bans : r \in rows}
  OBVIOUS
<1>4. IsFiniteSet(all)
  <2>1. PICK f : f = [r \in rows |-> r.g.bans]
    OBVIOUS
  <2>2. IsFiniteSet(Image(rows, f))
    BY <1>2, ImageOf
  <2>3. \A X \in Image(rows, f) : IsFiniteSet(X)
    BY <1>2, <2>1 DEF Image
  <2>4. all = UNION Image(rows, f)
    BY <1>3, <2>1 DEF Image
  <2> QED BY <2>2, <2>3, <2>4, FS_UNION
<1>5. IsFiniteSet(rows \X all)
  BY <1>2, <1>4, FS_Product
<1>6. bans = {x \in rows \X all : x[2] \in x[1].g.bans /\ (firstOnly => x[2].order = 1)}
  BY <1>1, <1>3 DEF FieldBans
<1>7. IsFiniteSet(bans)
  BY <1>5, <1>6, FS_Subset
<1>8. IsFiniteSet(SidesOf(ms))
  <2>1. PICK f : f = [m \in ms |-> {m.f1, m.f2}]
    OBVIOUS
  <2>2. IsFiniteSet(Image(ms, f))
    BY <1>2, ImageOf
  <2>3. \A x, y : IsFiniteSet({x, y})
    <3> SUFFICES ASSUME NEW x, NEW y PROVE IsFiniteSet({x, y})
      OBVIOUS
    <3>1. IsFiniteSet({x}) /\ {x} \cup {y} = {x, y}
      BY FS_Singleton
    <3> QED BY <3>1, FS_AddElement
  <2>4. \A X \in Image(ms, f) : IsFiniteSet(X)
    <3> SUFFICES ASSUME NEW m \in ms PROVE IsFiniteSet(f[m])
      BY DEF Image
    <3>1. f[m] = {m.f1, m.f2}
      BY <2>1
    <3> QED BY <2>3, <3>1
  <2>5. SidesOf(ms) = UNION Image(ms, f)
    BY <2>1 DEF SidesOf, Image
  <2> QED BY <2>2, <2>4, <2>5, FS_UNION
<1>9. ASSUME NEW x \in bans
      PROVE  /\ x = <<x[1], x[2]>> /\ x[1] \in MapGames(ms) /\ x[2] \in x[1].g.bans
             /\ x[2].team \in {x[1].m.f1, x[1].m.f2} /\ x[2].team \in SidesOf(ms)
  <2>1. x = <<x[1], x[2]>> /\ x[1] \in rows /\ x[2] \in x[1].g.bans
    BY <1>6
  <2>2. x[2].team \in {x[1].m.f1, x[1].m.f2} /\ x[1].m \in ms
    BY <1>2, <2>1
  <2> QED BY <1>1, <2>1, <2>2 DEF SidesOf
<1>10. ASSUME NEW r \in MapGames(ms), NEW b \in r.g.bans, firstOnly => b.order = 1 PROVE <<r, b>> \in bans
  <2>1. r \in rows /\ b \in all
    BY <1>1, <1>3
  <2>2. <<r, b>> \in rows \X all /\ <<r, b>>[1] = r /\ <<r, b>>[2] = b
    BY <2>1
  <2> QED BY <1>6, <1>10, <2>2
<1> QED BY <1>7, <1>8, <1>9, <1>10

\* What a function counts of things by a key adds up to the things.
LEMMA CountsByKey ==
    ASSUME NEW Xs, IsFiniteSet(Xs), NEW key, NEW counts,
           DOMAIN counts = {key[x] : x \in Xs},
           \A k \in DOMAIN counts : counts[k] = Cardinality({x \in Xs : key[x] = k})
    PROVE  /\ IsFiniteSet(DOMAIN counts) /\ Total(counts) = Cardinality(Xs)
           /\ \A k \in DOMAIN counts : counts[k] \in Nat /\ counts[k] > 0
<1>1. PICK Ks : Ks = DOMAIN counts
  OBVIOUS
<1>2. IsFiniteSet(Ks)
  <2>1. Ks = Image(Xs, key)
    BY <1>1 DEF Image
  <2> QED BY <2>1, ImageOf
<1>3. PICK of : of = [k \in Ks |-> {x \in Xs : key[x] = k}]
  OBVIOUS
<1>4. ASSUME NEW k \in Ks
      PROVE  IsFiniteSet(of[k]) /\ counts[k] = Cardinality(of[k]) /\ counts[k] \in Nat /\ counts[k] > 0
  <2>1. of[k] \subseteq Xs /\ of[k] # {}
    BY <1>1, <1>3
  <2>2. IsFiniteSet(of[k]) /\ Cardinality(of[k]) \in Nat
    BY <2>1, FS_Subset, FS_CardinalityType
  <2>3. Cardinality(of[k]) # 0
    BY <2>1, <2>2, FS_EmptySet
  <2> QED BY <1>1, <1>3, <2>2, <2>3
<1>5. Each(Ks, of, counts)
  BY <1>4 DEF Each
<1>6. All(Ks, of) = Xs
  BY <1>1, <1>3 DEF All
<1>7. \A k, l \in Ks : k # l => of[k] \cap of[l] = {}
  BY <1>3
<1>8. SumOver(Ks, counts) = Cardinality(Xs)
  BY <1>2, <1>5, <1>6, <1>7, SumOfClasses
<1> QED BY <1>1, <1>2, <1>4, <1>8 DEF Total

\* What a team's sheet counts of its bans, or of its first ones, is what the field has of
\* the team's.
LEMMA TeamCounts ==
    ASSUME NEW ms, AreDrafts(ms), NEW firstOnly, NEW bans, bans = FieldBans(ms, firstOnly), NEW t, NEW rows,
           rows = ReadFrom(ms, t, firstOnly), NEW counts, counts = Count(ByBan(rows, t))
    PROVE  /\ DOMAIN counts = HeroesIn(ByTeam(bans, t))
           /\ \A h \in DOMAIN counts : counts[h] = Cardinality(OfHero(ByTeam(bans, t), h))
           /\ Total(counts) = Cardinality(ByTeam(bans, t))
<1>1. /\ IsFiniteSet(bans)
      /\ \A x \in bans : /\ x = <<x[1], x[2]>> /\ x[1] \in MapGames(ms) /\ x[2] \in x[1].g.bans
                         /\ x[2].team \in {x[1].m.f1, x[1].m.f2}
      /\ \A r \in MapGames(ms) : \A b \in r.g.bans : (firstOnly => b.order = 1) => <<r, b>> \in bans
  BY FieldIs
<1>2. \A x \in bans : firstOnly => x[2].order = 1
  BY DEF FieldBans
<1>3. /\ TeamMaps(ms, t) = {r \in MapGames(ms) : t \in {r.m.f1, r.m.f2}}
      /\ \A r \in MapGames(ms) : DraftBan(r, t) = OwnBans(r, t) /\ \A b, c \in OwnBans(r, t) : b = c
  <2>1. TheirMatches(ms, t) \subseteq ms
    BY DEF TheirMatches
  <2>2. TeamMaps(ms, t) = {r \in MapGames(ms) : r.m \in TheirMatches(ms, t)}
    BY <2>1, MapGamesOfSome DEF TeamMaps
  <2>3. \A r \in MapGames(ms) : r.m \in ms
    BY MapGamesAre
  <2>4. \A r \in MapGames(ms) : DraftBan(r, t) = OwnBans(r, t) /\ \A b, c \in OwnBans(r, t) : b = c
    BY DraftsAre
  <2> QED BY <2>2, <2>3, <2>4 DEF TheirMatches
<1>4. ASSUME NEW x \in ByTeam(bans, t) PROVE x[1] \in rows /\ x[2] \in DraftBan(x[1], t)
  <2>1. x \in bans /\ x[2].team = t
    BY DEF ByTeam
  <2>2. x[1] \in TeamMaps(ms, t) /\ x[2] \in DraftBan(x[1], t)
    BY <1>1, <1>3, <2>1 DEF OwnBans
  <2> QED BY <1>2, <2>1, <2>2 DEF ReadFrom, FirstOf
<1>5. ASSUME NEW r \in rows, NEW b \in DraftBan(r, t) PROVE <<r, b>> \in ByTeam(bans, t)
  <2>1. r \in MapGames(ms) /\ b \in r.g.bans /\ b.team = t
    BY <1>3 DEF ReadFrom, FirstOf, DraftBan, OwnBans
  <2>2. ASSUME firstOnly PROVE b.order = 1
    <3>1. PICK c \in DraftBan(r, t) : c.order = 1
      BY <2>2 DEF ReadFrom, FirstOf
    <3>2. b = c
      BY <1>3, <2>1, <3>1
    <3> QED BY <3>1, <3>2
  <2> QED BY <1>1, <2>1, <2>2 DEF ByTeam
<1>6. counts = [h \in Banned(rows, t) |-> Cardinality(BannedOn(rows, t, h))]
  BY DEF Count, ByBan
<1>7. Banned(rows, t) = {x[2].hero : x \in ByTeam(bans, t)}
  <2>1. ASSUME NEW h \in Banned(rows, t) PROVE \E x \in ByTeam(bans, t) : x[2].hero = h
    <3>1. PICK r \in rows : \E b \in DraftBan(r, t) : b.hero = h
      BY DEF Banned
    <3>2. PICK b \in DraftBan(r, t) : b.hero = h
      BY <3>1
    <3>3. <<r, b>> \in ByTeam(bans, t) /\ <<r, b>>[2].hero = h
      BY <1>5, <3>2
    <3> QED BY <3>3
  <2>2. ASSUME NEW x \in ByTeam(bans, t) PROVE x[2].hero \in Banned(rows, t)
    BY <1>4 DEF Banned
  <2> QED BY <2>1, <2>2
<1>8. ASSUME NEW h PROVE Cardinality(BannedOn(rows, t, h)) = Cardinality(OfHero(ByTeam(bans, t), h))
  <2>1. PICK Xs : Xs = OfHero(ByTeam(bans, t), h)
    OBVIOUS
  <2>2. PICK f : f = [x \in Xs |-> x[1]]
    OBVIOUS
  <2>3. IsFiniteSet(Xs)
    <3>1. Xs \subseteq bans
      BY <2>1 DEF OfHero, ByTeam
    <3> QED BY <1>1, <3>1, FS_Subset
  <2>4. ASSUME NEW x \in Xs, NEW y \in Xs, f[x] = f[y] PROVE x = y
    <3>1. x = <<x[1], x[2]>> /\ y = <<y[1], y[2]>> /\ x[1] = y[1]
      BY <1>1, <2>1, <2>2, <2>4 DEF OfHero, ByTeam
    <3>2. x[1] \in MapGames(ms) /\ x[2] \in DraftBan(x[1], t) /\ y[2] \in DraftBan(x[1], t)
      BY <1>1, <1>4, <2>1, <3>1 DEF OfHero, ByTeam
    <3>3. x[2] = y[2]
      BY <1>3, <3>2
    <3> QED BY <3>1, <3>3
  <2>5. Image(Xs, f) = BannedOn(rows, t, h)
    <3>1. ASSUME NEW x \in Xs PROVE x[1] \in BannedOn(rows, t, h)
      BY <1>4, <2>1 DEF OfHero, BannedOn
    <3>2. ASSUME NEW r \in BannedOn(rows, t, h) PROVE \E x \in Xs : x[1] = r
      <4>1. PICK b \in DraftBan(r, t) : b.hero = h /\ r \in rows
        BY DEF BannedOn
      <4>2. <<r, b>> \in Xs /\ <<r, b>>[1] = r
        BY <1>5, <2>1, <4>1 DEF OfHero
      <4> QED BY <4>2
    <3> QED BY <2>2, <3>1, <3>2 DEF Image
  <2>6. Cardinality(Image(Xs, f)) = Cardinality(Xs)
    BY <2>3, <2>4, ImageOf
  <2> QED BY <2>1, <2>5, <2>6
<1>9. PICK key : key = [x \in ByTeam(bans, t) |-> x[2].hero]
  OBVIOUS
<1>10. IsFiniteSet(ByTeam(bans, t))
  BY <1>1, FS_Subset DEF ByTeam
<1>11. DOMAIN counts = {key[x] : x \in ByTeam(bans, t)}
  BY <1>6, <1>7, <1>9
<1>12. \A h : OfHero(ByTeam(bans, t), h) = {x \in ByTeam(bans, t) : key[x] = h}
  BY <1>9 DEF OfHero
<1>13. \A h \in DOMAIN counts : counts[h] = Cardinality(OfHero(ByTeam(bans, t), h))
  BY <1>6, <1>8
<1>14. Total(counts) = Cardinality(ByTeam(bans, t))
  <2>1. \A h \in DOMAIN counts : counts[h] = Cardinality({x \in ByTeam(bans, t) : key[x] = h})
    BY <1>12, <1>13
  <2> QED BY <1>10, <1>11, <2>1, CountsByKey
<1> QED BY <1>6, <1>7, <1>13, <1>14 DEF HeroesIn

\* The field's own count.
LEMMA BaseIs ==
    ASSUME NEW ms, AreDrafts(ms), NEW firstOnly, NEW bans, bans = FieldBans(ms, firstOnly),
           NEW base, base = divBanBaseFrom(ms, firstOnly)
    PROVE  /\ DOMAIN base = HeroesIn(bans)
           /\ \A h \in DOMAIN base : base[h] = Cardinality(OfHero(bans, h)) /\ base[h] \in Nat /\ base[h] > 0
           /\ Total(base) = Cardinality(bans)
<1>1. base = [h \in {x[2].hero : x \in bans} |-> Cardinality({x \in bans : x[2].hero = h})]
  BY DEF divBanBaseFrom, FieldBans
<1>2. IsFiniteSet(bans)
  BY FieldIs
<1>3. PICK key : key = [x \in bans |-> x[2].hero]
  OBVIOUS
<1>4. DOMAIN base = {key[x] : x \in bans}
  BY <1>1, <1>3
<1>5. \A h : OfHero(bans, h) = {x \in bans : key[x] = h}
  BY <1>3 DEF OfHero
<1>6. \A h \in DOMAIN base : base[h] = Cardinality(OfHero(bans, h))
  BY <1>1 DEF OfHero
<1>7. /\ Total(base) = Cardinality(bans)
      /\ \A h \in DOMAIN base : base[h] \in Nat /\ base[h] > 0
  <2>1. \A h \in DOMAIN base : base[h] = Cardinality({x \in bans : key[x] = h})
    BY <1>5, <1>6
  <2> QED BY <1>2, <1>4, <2>1, CountsByKey
<1> QED BY <1>1, <1>6, <1>7 DEF HeroesIn

\* Bans of the field are those of its teams, team by team.
LEMMA TeamsMakeTheField ==
    ASSUME NEW ms, AreDrafts(ms), NEW firstOnly, NEW Xs, Xs \subseteq FieldBans(ms, firstOnly), NEW of,
           \A t \in SidesOf(ms) : of[t] = Cardinality(ByTeam(Xs, t))
    PROVE  /\ IsFiniteSet(Xs) /\ \A t \in SidesOf(ms) : of[t] \in Nat
           /\ SumOver(SidesOf(ms), of) = Cardinality(Xs)
<1>1. PICK classes : classes = [t \in SidesOf(ms) |-> ByTeam(Xs, t)]
  OBVIOUS
<1>2. /\ IsFiniteSet(FieldBans(ms, firstOnly)) /\ IsFiniteSet(SidesOf(ms))
      /\ \A x \in FieldBans(ms, firstOnly) : x[2].team \in SidesOf(ms)
  BY FieldIs
<1>3. IsFiniteSet(Xs)
  BY <1>2, FS_Subset
<1>4. ASSUME NEW t \in SidesOf(ms) PROVE IsFiniteSet(classes[t]) /\ of[t] = Cardinality(classes[t]) /\ of[t] \in Nat
  <2>1. IsFiniteSet(ByTeam(Xs, t))
    BY <1>3, FS_Subset DEF ByTeam
  <2> QED BY <1>1, <2>1, FS_CardinalityType
<1>5. Each(SidesOf(ms), classes, of)
  BY <1>4 DEF Each
<1>6. All(SidesOf(ms), classes) = Xs
  BY <1>1, <1>2 DEF All, ByTeam
<1>7. \A t, u \in SidesOf(ms) : t # u => classes[t] \cap classes[u] = {}
  BY <1>1 DEF ByTeam
<1> QED BY <1>2, <1>3, <1>4, <1>5, <1>6, <1>7, SumOfClasses

\* Of each team, its bans of a hero and its bans: the hero's share is half as much again
\* as in the field.
MoreThanMost(ms, bans, h, n, d) ==
    \A t \in SidesOf(ms) : /\ n[t] = Cardinality(ByTeam(OfHero(bans, h), t)) /\ d[t] = Cardinality(ByTeam(bans, t))
                         /\ 2 * (n[t] * Cardinality(bans)) >= 3 * (Cardinality(OfHero(bans, h)) * d[t])

\* Nobody is above the field in everything: were a hero banned half as often again as in
\* the field by every team, it would be in the field too.
LEMMA NotMoreByAll ==
    ASSUME NEW ms, AreDrafts(ms), ms # {}, NEW firstOnly, NEW bans, bans = FieldBans(ms, firstOnly), NEW h,
           OfHero(bans, h) # {}, NEW n, NEW d, MoreThanMost(ms, bans, h, n, d)
    PROVE  FALSE
<1>1. OfHero(bans, h) \subseteq bans
  BY DEF OfHero
<1>2. /\ IsFiniteSet(OfHero(bans, h)) /\ \A t \in SidesOf(ms) : n[t] \in Nat
      /\ SumOver(SidesOf(ms), n) = Cardinality(OfHero(bans, h))
  <2>1. \A t \in SidesOf(ms) : n[t] = Cardinality(ByTeam(OfHero(bans, h), t))
    BY DEF MoreThanMost
  <2> QED BY <1>1, <2>1, TeamsMakeTheField
<1>3. /\ IsFiniteSet(bans) /\ \A t \in SidesOf(ms) : d[t] \in Nat
      /\ SumOver(SidesOf(ms), d) = Cardinality(bans)
  <2>1. \A t \in SidesOf(ms) : d[t] = Cardinality(ByTeam(bans, t))
    BY DEF MoreThanMost
  <2> QED BY <2>1, TeamsMakeTheField
<1>4. PICK b \in Nat, all \in Nat : b = Cardinality(OfHero(bans, h)) /\ all = Cardinality(bans) /\ b > 0 /\ all > 0
  <2>1. bans # {}
    BY <1>1
  <2>2. Cardinality(OfHero(bans, h)) # 0 /\ Cardinality(bans) # 0
    BY <1>2, <1>3, <2>1, FS_EmptySet
  <2> QED BY <1>2, <1>3, <2>2, FS_CardinalityType
<1>5. PICK Ts : Ts = SidesOf(ms)
  OBVIOUS
<1>6. IsFiniteSet(Ts)
  BY <1>5, FieldIs
<1>7. PICK lhs, rhs : lhs = [t \in Ts |-> (2 * all) * n[t]] /\ rhs = [t \in Ts |-> (3 * b) * d[t]]
  OBVIOUS
<1>8. Ints(Ts, n) /\ Ints(Ts, d)
  BY <1>2, <1>3, <1>5 DEF Ints
<1>9. ASSUME NEW t \in Ts PROVE lhs[t] \in Int /\ rhs[t] \in Int /\ rhs[t] <= lhs[t]
  <2>1. PICK w \in Nat, e \in Nat : w = n[t] /\ e = d[t] /\ 2 * (w * all) >= 3 * (b * e)
    BY <1>2, <1>3, <1>4, <1>5 DEF MoreThanMost
  <2>2. 2 * (w * all) = (2 * all) * w /\ 3 * (b * e) = (3 * b) * e
    OBVIOUS
  <2>3. lhs[t] = (2 * all) * w /\ rhs[t] = (3 * b) * e
    BY <1>7, <2>1
  <2>4. (2 * all) * w \in Int /\ (3 * b) * e \in Int
    OBVIOUS
  <2> QED BY <2>1, <2>2, <2>3, <2>4
<1>10. SumOver(Ts, rhs) <= SumOver(Ts, lhs)
  <2>1. Ints(Ts, lhs) /\ Ints(Ts, rhs)
    BY <1>9 DEF Ints
  <2> QED BY <1>6, <1>9, <2>1, SumsCompare
<1>11. SumOver(Ts, lhs) = (2 * all) * SumOver(Ts, n) /\ SumOver(Ts, rhs) = (3 * b) * SumOver(Ts, d)
  <2>1. 2 * all \in Int /\ 3 * b \in Int /\ \A t \in Ts : lhs[t] = (2 * all) * n[t] /\ rhs[t] = (3 * b) * d[t]
    BY <1>7
  <2> QED BY <1>6, <1>8, <2>1, SumScales
<1>12. (3 * b) * all <= (2 * all) * b
  BY <1>2, <1>3, <1>4, <1>5, <1>10, <1>11
<1>13. all * b > 0 /\ all * b \in Nat /\ (3 * b) * all = 3 * (all * b) /\ (2 * all) * b = 2 * (all * b)
  BY <1>4
<1> QED BY <1>12, <1>13

\* Only what is counted is told.
LEMMA LiftKeys ==
    ASSUME NEW counts, NEW base, NEW labels, labels = banLiftRows(counts, base, 2), NEW h \in DOMAIN labels
    PROVE  h \in DOMAIN counts
BY DEF banLiftRows

\* Half as much again as the field.
AboveMost(counts, base, h) == 2 * (counts[h] * Total(base)) >= 3 * (base[h] * Total(counts))
\* What is told of a team against the field.
LEMMA LiftIs ==
    ASSUME NEW counts, NEW base, NEW labels, labels = banLiftRows(counts, base, 2), NEW h \in DOMAIN labels,
           h \in DOMAIN base
    PROVE  /\ h \in DOMAIN counts /\ labels[h] # "new"
           /\ labels[h] = "more than most" => AboveMost(counts, base, h)
<1>1. h \in DOMAIN counts
  BY DEF banLiftRows
<1>2. labels[h] = IF 2 * (counts[h] * Total(base)) >= 3 * (base[h] * Total(counts)) THEN "more than most"
                  ELSE IF 10 * (counts[h] * Total(base)) <= 6 * (base[h] * Total(counts)) THEN "less than most"
                  ELSE "typical"
  BY DEF banLiftRows
<1> QED BY <1>1, <1>2 DEF AboveMost

\* One reading of the field, of all bans or of the first.
ToldOfEach(ms, firstOnly, labels) ==
    \A t \in SidesOf(ms) :
      labels[t] = banLiftRows(Count(ByBan(ReadFrom(ms, t, firstOnly), t)), divBanBaseFrom(ms, firstOnly), 2)
ReadsFair(ms, labels) ==
    /\ \A t \in SidesOf(ms) : \A h \in DOMAIN labels[t] : labels[t][h] # "new"
    /\ ~\E h \in UNION {DOMAIN labels[t] : t \in SidesOf(ms)} : \A t \in SidesOf(ms) :
          h \in DOMAIN labels[t] /\ labels[t][h] = "more than most"
\* Nobody is above it, and no hero is new to it.
LEMMA FieldReads ==
    ASSUME NEW ms, AreDrafts(ms), NEW firstOnly, NEW labels, ToldOfEach(ms, firstOnly, labels)
    PROVE  ReadsFair(ms, labels)
<1>1. PICK bans : bans = FieldBans(ms, firstOnly)
  OBVIOUS
<1>2. PICK base : base = divBanBaseFrom(ms, firstOnly)
  OBVIOUS
<1>3. PICK counts : counts = [t \in SidesOf(ms) |-> Count(ByBan(ReadFrom(ms, t, firstOnly), t))]
  OBVIOUS
<1>4. /\ DOMAIN base = HeroesIn(bans)
      /\ \A h \in DOMAIN base : base[h] = Cardinality(OfHero(bans, h)) /\ base[h] \in Nat /\ base[h] > 0
      /\ Total(base) = Cardinality(bans)
  BY <1>1, <1>2, BaseIs
<1>5. ASSUME NEW t \in SidesOf(ms)
      PROVE  /\ DOMAIN counts[t] = HeroesIn(ByTeam(bans, t))
             /\ \A h \in DOMAIN counts[t] : counts[t][h] = Cardinality(OfHero(ByTeam(bans, t), h))
             /\ Total(counts[t]) = Cardinality(ByTeam(bans, t))
             /\ labels[t] = banLiftRows(counts[t], base, 2)
  <2>1. PICK rows : rows = ReadFrom(ms, t, firstOnly)
    OBVIOUS
  <2>2. counts[t] = Count(ByBan(rows, t))
    BY <1>3, <2>1
  <2>3. labels[t] = banLiftRows(counts[t], base, 2)
    BY <1>2, <2>1, <2>2 DEF ToldOfEach
  <2> QED BY <1>1, <2>1, <2>2, <2>3, TeamCounts
<1>6. ASSUME NEW t \in SidesOf(ms), NEW h \in DOMAIN labels[t]
      PROVE  /\ h \in DOMAIN base /\ h \in DOMAIN counts[t] /\ labels[t][h] # "new"
             /\ labels[t][h] = "more than most" => AboveMost(counts[t], base, h)
  <2>1. PICK mine, told : mine = counts[t] /\ told = labels[t]
    OBVIOUS
  <2>2. told = banLiftRows(mine, base, 2) /\ DOMAIN mine = HeroesIn(ByTeam(bans, t)) /\ h \in DOMAIN told
    BY <1>5, <2>1
  <2>3. h \in DOMAIN mine
    BY <2>2, LiftKeys
  <2>4. HeroesIn(ByTeam(bans, t)) \subseteq HeroesIn(bans)
    BY DEF ByTeam, HeroesIn
  <2>5. h \in DOMAIN base
    BY <1>4, <2>2, <2>3, <2>4
  <2>6. /\ h \in DOMAIN mine /\ told[h] # "new"
        /\ told[h] = "more than most" => AboveMost(mine, base, h)
    BY <2>2, <2>5, LiftIs
  <2> QED BY <2>1, <2>3, <2>5, <2>6
<1>7. ASSUME NEW h \in UNION {DOMAIN labels[t] : t \in SidesOf(ms)},
             \A t \in SidesOf(ms) : h \in DOMAIN labels[t] /\ labels[t][h] = "more than most"
      PROVE  FALSE
  <2>1. PICK u \in SidesOf(ms) : h \in DOMAIN labels[u]
    OBVIOUS
  <2>2. ms # {}
    BY <2>1 DEF SidesOf
  <2>3. h \in DOMAIN base
    BY <1>6, <2>1
  <2>4. OfHero(bans, h) # {}
    BY <1>4, <2>3 DEF OfHero, HeroesIn
  <2>5. PICK n, d : /\ n = [t \in SidesOf(ms) |-> Cardinality(ByTeam(OfHero(bans, h), t))]
                    /\ d = [t \in SidesOf(ms) |-> Cardinality(ByTeam(bans, t))]
    OBVIOUS
  <2>6. ASSUME NEW t \in SidesOf(ms)
        PROVE  2 * (n[t] * Cardinality(bans)) >= 3 * (Cardinality(OfHero(bans, h)) * d[t])
    <3>1. ByTeam(OfHero(bans, h), t) = OfHero(ByTeam(bans, t), h)
      BY DEF ByTeam, OfHero
    <3>2. h \in DOMAIN counts[t]
      BY <1>6, <1>7
    <3>3. counts[t][h] = n[t] /\ Total(counts[t]) = d[t]
      BY <1>5, <2>5, <3>1, <3>2
    <3>4. 2 * (counts[t][h] * Total(base)) >= 3 * (base[h] * Total(counts[t]))
      BY <1>6, <1>7 DEF AboveMost
    <3>5. base[h] = Cardinality(OfHero(bans, h)) /\ Total(base) = Cardinality(bans)
      BY <1>4, <2>3
    <3> QED BY <3>3, <3>4, <3>5
  <2>7. MoreThanMost(ms, bans, h, n, d)
    BY <2>5, <2>6 DEF MoreThanMost
  <2> QED BY <1>1, <2>2, <2>4, <2>7, NotMoreByAll
<1> QED BY <1>6, <1>7 DEF ReadsFair

\* The glance card's field is the bans of the regular season's drafts.
LEMMA LeagueIs ==
    ASSUME NEW ms, AreDrafts(ms), NEW reg, reg = {m \in ms : ~m.playoff}
    PROVE  reg \subseteq ms /\ AreDrafts(reg) /\ LeagueBans(ms) = divBanBaseFrom(reg, FALSE)
<1>1. reg \subseteq ms
  OBVIOUS
<1>2. IsFiniteSet(reg)
  BY <1>1, FS_Subset DEF AreDrafts
<1>3. AreDrafts(reg)
  BY <1>1, <1>2 DEF AreDrafts
<1> QED BY <1>1, <1>3 DEF LeagueBans

\* Of a ban it knows nothing of, every game is of a playoff match.
LEMMA LackedInPlayoffs ==
    ASSUME NEW ms, AreDrafts(ms), NEW t, NEW h, h \notin DOMAIN LeagueBans(ms),
           NEW r \in BannedOn(TeamMaps(ms, t), t, h)
    PROVE  r.m.playoff
<1>1. PICK reg : reg = {m \in ms : ~m.playoff}
  OBVIOUS
<1>2. reg \subseteq ms /\ AreDrafts(reg) /\ LeagueBans(ms) = divBanBaseFrom(reg, FALSE)
  BY <1>1, LeagueIs
<1>3. PICK bans, base, no : no = FALSE /\ bans = FieldBans(reg, no) /\ base = divBanBaseFrom(reg, no)
  OBVIOUS
<1>4. DOMAIN base = HeroesIn(bans)
  BY <1>2, <1>3, BaseIs
<1>5. \A q \in MapGames(reg) : \A b \in q.g.bans : (no => b.order = 1) => <<q, b>> \in bans
  BY <1>2, <1>3, FieldIs
<1>6. PICK b \in DraftBan(r, t) : b.hero = h /\ r \in TeamMaps(ms, t)
  BY DEF BannedOn
<1>7. r \in MapGames(ms) /\ b \in r.g.bans
  <2>1. TheirMatches(ms, t) \subseteq ms
    BY DEF TheirMatches
  <2>2. TeamMaps(ms, t) \subseteq MapGames(ms)
    BY <2>1, MapGamesOfSome DEF TeamMaps
  <2> QED BY <1>6, <2>2 DEF DraftBan, OwnBans
<1>8. ASSUME ~r.m.playoff PROVE FALSE
  <2>1. r.m \in reg
    BY <1>1, <1>7, <1>8, MapGamesAre
  <2>2. r \in MapGames(reg)
    BY <1>2, <1>7, <2>1, MapGamesOfSome
  <2>3. <<r, b>> \in bans /\ <<r, b>>[2].hero = h
    BY <1>3, <1>5, <1>6, <1>7, <2>2
  <2>4. h \in DOMAIN base
    BY <1>4, <2>3 DEF HeroesIn
  <2> QED BY <1>2, <1>3, <2>4
<1> QED BY <1>8

\* While there are no playoffs it is the field of the ban tendencies, and what the card
\* calls a signature they call more than most.
LEMMA SignatureIsMore ==
    ASSUME NEW ms, AreDrafts(ms), \A m \in ms : ~m.playoff, NEW t,
           NEW counts, counts = Count(ByBan(TeamMaps(ms, t), t)), NEW h \in DOMAIN counts,
           NEW labels, labels = banLiftRows(counts, divBanBaseFrom(ms, FALSE), 2),
           IsSignature(counts, LeagueBans(ms), h)
    PROVE  h \in DOMAIN labels /\ labels[h] = "more than most"
<1>1. PICK bans, base, no : no = FALSE /\ bans = FieldBans(ms, no) /\ base = divBanBaseFrom(ms, no)
  OBVIOUS
<1>2. LeagueBans(ms) = base
  <2>1. ms = {m \in ms : ~m.playoff}
    OBVIOUS
  <2> QED BY <1>1, <2>1 DEF LeagueBans
<1>3. /\ DOMAIN base = HeroesIn(bans) /\ Total(base) = Cardinality(bans)
      /\ \A k \in DOMAIN base : base[k] \in Nat /\ base[k] > 0
  BY <1>1, BaseIs
<1>4. /\ DOMAIN counts = HeroesIn(ByTeam(bans, t)) /\ Total(counts) = Cardinality(ByTeam(bans, t))
      /\ counts[h] = Cardinality(OfHero(ByTeam(bans, t), h))
  <2>1. PICK rows : rows = TeamMaps(ms, t)
    OBVIOUS
  <2>2. rows = ReadFrom(ms, t, no)
    BY <1>1, <2>1 DEF ReadFrom
  <2>3. counts = Count(ByBan(rows, t))
    BY <2>1
  <2> QED BY <1>1, <2>2, <2>3, TeamCounts
<1>5. IsFiniteSet(bans)
  BY <1>1, FieldIs
<1>6. /\ Cardinality(bans) \in Nat /\ Cardinality(ByTeam(bans, t)) \in Nat
      /\ Cardinality(OfHero(ByTeam(bans, t), h)) \in Nat
  <2>1. ByTeam(bans, t) \subseteq bans /\ OfHero(ByTeam(bans, t), h) \subseteq bans
    BY DEF ByTeam, OfHero
  <2> QED BY <1>5, <2>1, FS_Subset, FS_CardinalityType
<1>7. h \in DOMAIN base /\ bans # {}
  BY <1>3, <1>4 DEF ByTeam, HeroesIn
<1>8. Total(base) # 0
  BY <1>3, <1>5, <1>7, FS_EmptySet
<1>9. PICK n \in Nat, all \in Nat, f \in Nat, field \in Nat :
         n = counts[h] /\ all = Total(counts) /\ f = base[h] /\ field = Total(base)
  BY <1>3, <1>4, <1>6, <1>7
<1>10. n >= 2 /\ 10 * (n * field) >= 16 * (f * all)
  <2>1. IsSignature(counts, base, h)
    BY <1>2
  <2> QED BY <1>7, <1>8, <1>9, <2>1 DEF IsSignature
<1>11. PICK p \in Nat, q \in Nat : p = n * field /\ q = f * all
  <2>1. n * field \in Nat /\ f * all \in Nat
    OBVIOUS
  <2> QED BY <2>1
<1>12. 2 * p >= 3 * q
  BY <1>10, <1>11
<1>13. labels = banLiftRows(counts, base, 2)
  BY <1>1
<1>14. h \in DOMAIN labels
  BY <1>9, <1>10, <1>13 DEF banLiftRows
<1>15. labels[h] = IF 2 * (counts[h] * Total(base)) >= 3 * (base[h] * Total(counts)) THEN "more than most"
                   ELSE IF 10 * (counts[h] * Total(base)) <= 6 * (base[h] * Total(counts)) THEN "less than most"
                   ELSE "typical"
  BY <1>7, <1>13, <1>14 DEF banLiftRows
<1> QED BY <1>9, <1>11, <1>12, <1>14, <1>15

\* The field of the ban tendencies holds every ban of a team, so that no hero is banned more
\* than most by every team; that of the glance card lacks only bans of the playoffs, and
\* while there are none its signatures are banned more than most (app.js divBanBaseFrom,
\* banLiftRows, renderScoutBody's glance card).
THEOREM FieldsAreFair ==
    ASSUME NEW ms, AreDrafts(ms)
    PROVE  FieldIsFair(ms)
<1> DEFINE a == [t \in SidesOf(ms) |-> aggregate(TheirMatches(ms, t), t)]
           most == [t \in SidesOf(ms) |-> Tendency(ms, t, a[t])]
           first == [t \in SidesOf(ms) |-> FirstTendency(ms, t, a[t])]
           league == LeagueBans(ms)
           card == [t \in SidesOf(ms) |-> GlanceBans(a[t].games, t)]
<1>1. a = [t \in SidesOf(ms) |-> aggregate(TheirMatches(ms, t), t)]
  OBVIOUS
<1> HIDE DEF a
<1>2. /\ most = [t \in SidesOf(ms) |-> Tendency(ms, t, a[t])]
      /\ first = [t \in SidesOf(ms) |-> FirstTendency(ms, t, a[t])]
      /\ card = [t \in SidesOf(ms) |-> GlanceBans(a[t].games, t)]
  OBVIOUS
<1>6. league = LeagueBans(ms)
  OBVIOUS
<1> HIDE DEF most, first, league, card
<1>3. ASSUME NEW t \in SidesOf(ms)
      PROVE  /\ a[t].games = TeamMaps(ms, t)
             /\ a[t].bans = ByBan(TeamMaps(ms, t), t) /\ a[t].firstBans = ByBan(FirstOf(TeamMaps(ms, t), t), t)
  <2>1. PICK own : own = TheirMatches(ms, t)
    OBVIOUS
  <2>2. TheirMatches(own, t) = own
    BY <2>1 DEF TheirMatches
  <2>3. PICK b, rows : b = a[t] /\ rows = TeamMaps(own, t)
    OBVIOUS
  <2>4. b = aggregate(own, t)
    BY <1>1, <2>1, <2>3
  <2>5. b.bans = ByBan(rows, t) /\ b.firstBans = ByBan(FirstOf(rows, t), t)
    BY <2>3, <2>4, BansAre
  <2>6. rows = TeamMaps(ms, t)
    BY <2>1, <2>2, <2>3 DEF TeamMaps
  <2>7. b.games = rows
    BY <2>3, <2>4 DEF aggregate, TeamMaps
  <2> QED BY <2>3, <2>5, <2>6, <2>7
<1>4. ReadsFair(ms, most)
  <2>1. PICK no : no = FALSE
    OBVIOUS
  <2>2. \A t : ReadFrom(ms, t, no) = TeamMaps(ms, t)
    BY <2>1 DEF ReadFrom
  <2>3. ToldOfEach(ms, no, most)
    BY <1>2, <1>3, <2>1, <2>2 DEF Tendency, ToldOfEach
  <2> QED BY <2>3, FieldReads
<1>5. ReadsFair(ms, first)
  <2>1. PICK yes : yes = TRUE
    OBVIOUS
  <2>2. \A t : ReadFrom(ms, t, yes) = FirstOf(TeamMaps(ms, t), t)
    BY <2>1 DEF ReadFrom
  <2>3. ToldOfEach(ms, yes, first)
    BY <1>2, <1>3, <2>1, <2>2 DEF FirstTendency, ToldOfEach
  <2> QED BY <2>3, FieldReads
<1>7. ASSUME NEW t \in SidesOf(ms) PROVE card[t] = Count(ByBan(TeamMaps(ms, t), t))
  <2>1. PICK rows : rows = TeamMaps(ms, t)
    OBVIOUS
  <2>2. rows = MapGames(TheirMatches(ms, t)) /\ TheirMatches(ms, t) \subseteq ms
    BY <2>1 DEF TeamMaps, TheirMatches
  <2>3. /\ IsFiniteSet(rows)
        /\ \A r \in rows : DraftBan(r, t) = OwnBans(r, t) /\ \A b, c \in OwnBans(r, t) : b = c
    BY <2>2, DraftsAre
  <2> QED BY <1>2, <1>3, <2>1, <2>3, GlanceCounts
<1>8. ASSUME NEW t \in SidesOf(ms), NEW h \in DOMAIN card[t] \ DOMAIN league, NEW r \in a[t].bans[h]
      PROVE  r.m.playoff
  <2>1. PICK rows : rows = TeamMaps(ms, t)
    OBVIOUS
  <2>2. h \in Banned(rows, t)
    BY <1>7, <2>1 DEF Count, ByBan
  <2>3. r \in BannedOn(rows, t, h)
    BY <1>3, <2>1, <2>2 DEF ByBan
  <2> QED BY <1>6, <2>1, <2>3, LackedInPlayoffs
<1>9. ASSUME \A m \in ms : ~m.playoff, NEW t \in SidesOf(ms), NEW h \in DOMAIN card[t],
             IsSignature(card[t], league, h)
      PROVE  h \in DOMAIN most[t] /\ most[t][h] = "more than most"
  <2>1. PICK counts, told : counts = card[t] /\ told = most[t]
    OBVIOUS
  <2>2. told = banLiftRows(counts, divBanBaseFrom(ms, FALSE), 2)
    <3>1. counts = Count(a[t].bans)
      BY <1>3, <1>7, <2>1
    <3> QED BY <1>2, <2>1, <3>1 DEF Tendency
  <2>3. counts = Count(ByBan(TeamMaps(ms, t), t)) /\ h \in DOMAIN counts
    BY <1>7, <2>1
  <2>4. IsSignature(counts, LeagueBans(ms), h)
    BY <1>6, <1>9, <2>1
  <2>5. h \in DOMAIN told /\ told[h] = "more than most"
    BY <1>9, <2>2, <2>3, <2>4, SignatureIsMore
  <2> QED BY <2>1, <2>5
<1>10. /\ \A t \in SidesOf(ms) : \A h \in DOMAIN card[t] \ DOMAIN league : \A r \in a[t].bans[h] : r.m.playoff
       /\ \A t \in SidesOf(ms) : (\A m \in ms : ~m.playoff)
            => \A h \in DOMAIN card[t] : IsSignature(card[t], league, h)
                 => h \in DOMAIN most[t] /\ most[t][h] = "more than most"
  BY <1>8, <1>9
<1>11. SidesOf(ms) = UNION {{m.f1, m.f2} : m \in ms}
  BY DEF SidesOf
<1> QED BY <1>4, <1>5, <1>10, <1>11, Zenon DEF FieldIsFair, ReadsFair, SidesOf, a, most, first, league, card

\* The panels of a season's sheets do not contradict each other, in any window.
THEOREM PanelsAlwaysAgree ==
    ASSUME NEW ms, AreDrafts(ms)
    PROVE  PanelsAgree(ms)
<1>1. Cardinality(ms) \in Nat
  BY FS_CardinalityType DEF AreDrafts
<1>2. \A v \in 1..(Cardinality(ms) + 1) : v \in Nat /\ v >= 1
  BY <1>1
<1>3. \A m \in ms : \A t \in {m.f1, m.f2} : \A v \in 1..(Cardinality(ms) + 1) : SheetAgrees(ms, t, v)
  BY <1>2, SheetsAgree
<1> QED BY <1>3, FieldsAreFair DEF PanelsAgree

-----------------------------------------------------------------------------
(* Lesser, greater, and quotients *)

\* The lesser and the greater of two numbers.
LEMMA OfTwo ==
    ASSUME NEW a \in Int, NEW b \in Int
    PROVE  Min({a, b}) = (IF a <= b THEN a ELSE b) /\ Max({a, b}) = (IF a >= b THEN a ELSE b)
<1>1. Min({a, b}) \in {a, b} /\ \A y \in {a, b} : Min({a, b}) <= y
  <2>1. \E x \in {a, b} : \A y \in {a, b} : x <= y
    OBVIOUS
  <2> QED BY <2>1 DEF Min
<1>2. Max({a, b}) \in {a, b} /\ \A y \in {a, b} : Max({a, b}) >= y
  <2>1. \E x \in {a, b} : \A y \in {a, b} : x >= y
    OBVIOUS
  <2> QED BY <2>1 DEF Max
<1> QED BY <1>1, <1>2

\* The greater of two fractions is not rounded down to less.
LEMMA QuotientsRise ==
    ASSUME NEW x \in Int, NEW y \in Int, NEW c \in Nat, c > 0, NEW d \in Nat, d > 0, x * d <= y * c
    PROVE  x \div c \in Int /\ y \div d \in Int /\ x \div c <= y \div d
<1>1. PICK p \in Int, q \in Int : p = x \div c /\ q = y \div d
  BY QuotientIs
<1>2. c * p <= x /\ y < d * q + d
  BY <1>1, QuotientIs
<1>3. SUFFICES ASSUME p >= q + 1 PROVE FALSE
  BY <1>1
<1>4. (c * p) * d <= x * d
  BY <1>2
<1>5. y * c < (d * q + d) * c
  BY <1>2
<1>6. (d * q + d) * c <= (c * p) * d
  <2>1. c * d \in Nat
    OBVIOUS
  <2>2. (c * d) * (q + 1) <= (c * d) * p
    BY <1>3, <2>1
  <2>3. (d * q + d) * c = (c * d) * (q + 1) /\ (c * p) * d = (c * d) * p
    OBVIOUS
  <2> QED BY <2>2, <2>3
<1>7. PICK e \in Int, f \in Int, g \in Int, h \in Int :
        e = (c * p) * d /\ f = x * d /\ g = y * c /\ h = (d * q + d) * c
  OBVIOUS
<1> QED BY <1>4, <1>5, <1>6, <1>7

-----------------------------------------------------------------------------
(* Two teams compared *)

\* How much of an axis a side fills, by what the quotient is.
Filled(id, v) == IF id = "eff" THEN Max({0, Min({100, 50 + v \div 2})}) ELSE Min({v, 100})

\* It is a percentage, and rises with the quotient.
LEMMA FilledIs ==
    ASSUME NEW id, NEW v \in Int, id # "eff" => v >= 0
    PROVE  /\ Filled(id, v) \in 0..100
           /\ \A w \in Int : w <= v => Filled(id, w) <= Filled(id, v)
<1>1. ASSUME NEW w \in Int
      PROVE  /\ w \div 2 \in Int
             /\ Min({100, 50 + w \div 2}) = (IF 100 <= 50 + w \div 2 THEN 100 ELSE 50 + w \div 2)
             /\ Max({0, Min({100, 50 + w \div 2})})
                  = IF 100 <= 50 + w \div 2 THEN 100 ELSE IF 0 >= 50 + w \div 2 THEN 0 ELSE 50 + w \div 2
             /\ Min({w, 100}) = (IF w <= 100 THEN w ELSE 100)
  <2>1. PICK h \in Int : h = 50 + w \div 2 /\ w \div 2 \in Int
    BY QuotientIs
  <2>2. Min({100, h}) = (IF 100 <= h THEN 100 ELSE h)
    BY OfTwo
  <2>3. PICK g \in Int : g = IF 100 <= h THEN 100 ELSE h
    OBVIOUS
  <2>4. Max({0, g}) = IF 0 >= g THEN 0 ELSE g
    BY OfTwo
  <2>5. Min({w, 100}) = (IF w <= 100 THEN w ELSE 100)
    BY OfTwo
  <2> QED BY <2>1, <2>2, <2>3, <2>4, <2>5
<1>2. PICK half : half = [w \in Int |-> w \div 2]
  OBVIOUS
<1>3. half \in [Int -> Int] /\ \A w \in Int : w <= v => half[w] <= half[v]
  <2>1. \A w \in Int : w \div 2 \in Int /\ (w <= v => w \div 2 <= v \div 2)
    OBVIOUS
  <2> QED BY <1>2, <2>1
<1>4. CASE id = "eff"
  <2>1. \A w \in Int : Filled(id, w)
          = IF 100 <= 50 + half[w] THEN 100 ELSE IF 0 >= 50 + half[w] THEN 0 ELSE 50 + half[w]
    BY <1>1, <1>2, <1>4 DEF Filled
  <2>2. Filled(id, v) \in 0..100
    <3>1. PICK h \in Int : h = half[v]
      BY <1>3
    <3>2. Filled(id, v) = IF 100 <= 50 + h THEN 100 ELSE IF 0 >= 50 + h THEN 0 ELSE 50 + h
      BY <2>1, <3>1
    <3> QED BY <3>2
  <2>3. ASSUME NEW w \in Int, w <= v PROVE Filled(id, w) <= Filled(id, v)
    <3>1. PICK g \in Int, h \in Int : g = half[w] /\ h = half[v] /\ g <= h
      BY <1>3, <2>3
    <3>2. /\ Filled(id, w) = IF 100 <= 50 + g THEN 100 ELSE IF 0 >= 50 + g THEN 0 ELSE 50 + g
          /\ Filled(id, v) = IF 100 <= 50 + h THEN 100 ELSE IF 0 >= 50 + h THEN 0 ELSE 50 + h
      BY <2>1, <3>1
    <3> QED BY <3>1, <3>2
  <2> QED BY <2>2, <2>3
<1>5. CASE id # "eff"
  <2>1. \A w \in Int : Filled(id, w) = IF w <= 100 THEN w ELSE 100
    BY <1>1, <1>5 DEF Filled
  <2> QED BY <1>5, <2>1
<1> QED BY <1>4, <1>5

\* An axis's end of a side that has a sample.
LEMMA AxisEndIs ==
    ASSUME NEW c, NEW side, IsSide(side), NEW id \in DOMAIN COMPARE_CAPS, NEW poolCap \in Nat
    PROVE  /\ Cap(id, poolCap) \in Nat /\ Cap(id, poolCap) > 0
           /\ side[id].raw = NoSample => AxisEnd(id, side[id], poolCap).val = NoValue
           /\ side[id].raw # NoSample =>
                /\ side[id].raw[1] \in Int /\ side[id].raw[2] \in Nat /\ side[id].raw[2] > 0
                /\ id # "eff" => side[id].raw[1] >= 0
                /\ AxisEnd(id, side[id], poolCap).val
                     = Filled(id, (100 * side[id].raw[1]) \div (side[id].raw[2] * Cap(id, poolCap)))
<1>1. Cap(id, poolCap) \in Nat /\ Cap(id, poolCap) > 0
  BY DEF Cap, COMPARE_CAPS
<1>2. side[id].raw # NoSample =>
        /\ side[id].raw[1] \in Int /\ side[id].raw[2] \in Nat /\ side[id].raw[2] > 0
        /\ id # "eff" => side[id].raw[1] >= 0
  BY DEF IsSide
<1>3. AxisEnd(id, side[id], poolCap).val
        = IF side[id].raw = NoSample THEN NoValue
          ELSE Filled(id, (100 * side[id].raw[1]) \div (side[id].raw[2] * Cap(id, poolCap)))
  BY DEF AxisEnd, Filled
<1> QED BY <1>1, <1>2, <1>3

\* The first of a list that is another.
LEMMA AnotherIs ==
    ASSUME NEW names, names \in Seq(Range(names)), NEW s \in Range(names), NEW t, s # t
    PROVE  Another(names, t) \in Range(names) /\ Another(names, t) # t
<1>1. PICK i \in DOMAIN names : names[i] = s
  BY DEF Range
<1>2. PICK N \in Nat : DOMAIN names = 1..N
  OBVIOUS
<1>3. PICK Is : Is = {j \in DOMAIN names : names[j] # t}
  OBVIOUS
<1>4. \E j \in Is : \A k \in Is : j <= k
  <2>1. Is \subseteq Nat /\ Is # {}
    BY <1>1, <1>2, <1>3
  <2> QED BY <2>1, LeastOf
<1>5. Min(Is) \in Is
  BY <1>4 DEF Min
<1>6. Another(names, t) = names[Min(Is)]
  BY <1>3 DEF Another
<1> QED BY <1>3, <1>5, <1>6 DEF Range

\* pure.js compareAxes, app.js renderCompare: whatever two teams have of the axes, they are
\* compared alike, and whatever teams a division has, two of them are compared.
THEOREM ComparisonsAreEven ==
    ASSUME NEW c, IsComparison(c)
    PROVE  CompareIsEven(c)
<1> DEFINE axes == compareAxes(c.a, c.b, c.poolCap)
           Greater(x, y) == x.raw[1] * y.raw[2] >= y.raw[1] * x.raw[2]
           Two(pair) == pair[1] # pair[2] /\ {pair[1], pair[2]} \subseteq Range(c.names)
           Links == {p \in (Range(c.names) \cup {"gone"}) \X (Range(c.names) \cup {"gone"}) :
                       p[2] # (IF p[1] \in Range(c.names) THEN p[1] ELSE c.names[1])}
<1>1. /\ IsSide(c.a) /\ IsSide(c.b) /\ c.poolCap \in Nat
      /\ c.names \in Seq(Range(c.names)) /\ \E s, t \in Range(c.names) : s # t
  BY DEF IsComparison
<1>2. /\ DOMAIN axes \subseteq DOMAIN COMPARE_CAPS
      /\ \A id \in DOMAIN axes : /\ axes[id].a = AxisEnd(id, c.a[id], c.poolCap)
                                 /\ axes[id].b = AxisEnd(id, c.b[id], c.poolCap)
  BY DEF compareAxes
<1>3. compareAxes(c.b, c.a, c.poolCap) = [id \in DOMAIN axes |-> [a |-> axes[id].b, b |-> axes[id].a]]
  <2>1. PICK ids : ids = {k \in DOMAIN COMPARE_CAPS : c.a[k].raw # NoSample \/ c.b[k].raw # NoSample}
    OBVIOUS
  <2>2. ids = {k \in DOMAIN COMPARE_CAPS : c.b[k].raw # NoSample \/ c.a[k].raw # NoSample}
    BY <2>1
  <2>3. axes = [id \in ids |-> [a |-> AxisEnd(id, c.a[id], c.poolCap), b |-> AxisEnd(id, c.b[id], c.poolCap)]]
    BY <2>1 DEF compareAxes
  <2>4. compareAxes(c.b, c.a, c.poolCap)
          = [id \in ids |-> [a |-> AxisEnd(id, c.b[id], c.poolCap), b |-> AxisEnd(id, c.a[id], c.poolCap)]]
    BY <2>2 DEF compareAxes
  <2> HIDE DEF axes
  <2> QED BY <2>3, <2>4
<1>4. ASSUME NEW id \in DOMAIN axes
      PROVE  /\ axes[id].a.val # NoValue => axes[id].a.val \in 0..100
             /\ axes[id].a.val # NoValue /\ axes[id].b.val # NoValue /\ Greater(c.a[id], c.b[id])
                  => axes[id].a.val >= axes[id].b.val
  <2> HIDE DEF axes
  <2>1. id \in DOMAIN COMPARE_CAPS
    BY <1>2
  <2>2. SUFFICES ASSUME axes[id].a.val # NoValue
                 PROVE  /\ axes[id].a.val \in 0..100
                        /\ axes[id].b.val # NoValue /\ Greater(c.a[id], c.b[id]) => axes[id].a.val >= axes[id].b.val
    OBVIOUS
  <2>3. PICK k \in Nat : k = Cap(id, c.poolCap) /\ k > 0
    BY <1>1, <2>1, AxisEndIs
  <2>4. c.a[id].raw # NoSample
    BY <1>1, <1>2, <2>1, <2>2, AxisEndIs
  <2>5. PICK x \in Int, m \in Nat : /\ x = c.a[id].raw[1] /\ m = c.a[id].raw[2] /\ m > 0
                                    /\ id # "eff" => x >= 0
                                    /\ axes[id].a.val = Filled(id, (100 * x) \div (m * k))
    <3>1. /\ c.a[id].raw[1] \in Int /\ c.a[id].raw[2] \in Nat /\ c.a[id].raw[2] > 0
          /\ id # "eff" => c.a[id].raw[1] >= 0
      BY <1>1, <2>1, <2>4, AxisEndIs
    <3>2. axes[id].a.val = Filled(id, (100 * c.a[id].raw[1]) \div (c.a[id].raw[2] * Cap(id, c.poolCap)))
      <4>1. axes[id].a = AxisEnd(id, c.a[id], c.poolCap)
        BY <1>2
      <4>2. AxisEnd(id, c.a[id], c.poolCap).val
              = Filled(id, (100 * c.a[id].raw[1]) \div (c.a[id].raw[2] * Cap(id, c.poolCap)))
        BY <1>1, <2>1, <2>4, AxisEndIs
      <4> QED BY <4>1, <4>2
    <3> QED BY <2>3, <3>1, <3>2
  <2>6. m * k \in Nat /\ m * k > 0 /\ 100 * x \in Int
    BY <2>3, <2>5
  <2>7. PICK v \in Int : v = (100 * x) \div (m * k) /\ (id # "eff" => v >= 0)
    <3>1. PICK v \in Int : v = (100 * x) \div (m * k) /\ 100 * x < (m * k) * v + m * k
      BY <2>6, QuotientIs
    <3>2. PICK mk \in Nat : mk = m * k /\ mk > 0
      BY <2>6
    <3>3. ASSUME x >= 0, v <= -1 PROVE FALSE
      <4>1. mk * v <= mk * (-1)
        BY <3>2, <3>3
      <4>2. mk * v + mk <= 0
        BY <3>2, <4>1
      <4> QED BY <3>1, <3>2, <3>3, <4>2
    <3> QED BY <2>5, <3>1, <3>3
  <2>8. axes[id].a.val \in 0..100 /\ \A w \in Int : w <= v => Filled(id, w) <= axes[id].a.val
    BY <2>5, <2>7, FilledIs
  <2>9. ASSUME axes[id].b.val # NoValue, Greater(c.a[id], c.b[id])
        PROVE  axes[id].a.val >= axes[id].b.val
    <3>1. c.b[id].raw # NoSample
      <4>1. axes[id].b.val = AxisEnd(id, c.b[id], c.poolCap).val
        BY <1>2
      <4>2. SUFFICES ASSUME c.b[id].raw = NoSample PROVE FALSE
        OBVIOUS
      <4>3. AxisEnd(id, c.b[id], c.poolCap).val = NoValue
        BY <4>2 DEF AxisEnd
      <4> QED BY <2>9, <4>1, <4>3
    <3>2. PICK y \in Int, n \in Nat : /\ y = c.b[id].raw[1] /\ n = c.b[id].raw[2] /\ n > 0
                                      /\ id # "eff" => y >= 0
                                      /\ axes[id].b.val = Filled(id, (100 * y) \div (n * k))
      <4>1. /\ c.b[id].raw[1] \in Int /\ c.b[id].raw[2] \in Nat /\ c.b[id].raw[2] > 0
            /\ id # "eff" => c.b[id].raw[1] >= 0
        BY <1>1, <2>1, <3>1, AxisEndIs
      <4>2. axes[id].b.val = Filled(id, (100 * c.b[id].raw[1]) \div (c.b[id].raw[2] * Cap(id, c.poolCap)))
        <5>1. axes[id].b = AxisEnd(id, c.b[id], c.poolCap)
          BY <1>2
        <5>2. AxisEnd(id, c.b[id], c.poolCap).val
                = Filled(id, (100 * c.b[id].raw[1]) \div (c.b[id].raw[2] * Cap(id, c.poolCap)))
          BY <1>1, <2>1, <3>1, AxisEndIs
        <5> QED BY <5>1, <5>2
      <4> QED BY <2>3, <4>1, <4>2
    <3>3. y * m <= x * n
      BY <2>5, <2>9, <3>2
    <3>4. n * k \in Nat /\ n * k > 0 /\ 100 * y \in Int
      BY <2>3, <3>2
    <3>5. (100 * y) * (m * k) <= (100 * x) * (n * k)
      <4>1. PICK e \in Int, f \in Int : e = y * m /\ f = x * n /\ e <= f
        BY <3>3
      <4>2. (100 * k) * e <= (100 * k) * f
        BY <4>1
      <4>3. (100 * y) * (m * k) = (100 * k) * (y * m) /\ (100 * x) * (n * k) = (100 * k) * (x * n)
        OBVIOUS
      <4> QED BY <4>1, <4>2, <4>3
    <3>6. PICK w \in Int : w = (100 * y) \div (n * k) /\ w <= v
      BY <2>6, <2>7, <3>4, <3>5, QuotientsRise
    <3>7. axes[id].a.val \in Int /\ Filled(id, w) <= axes[id].a.val
      BY <2>8, <3>6
    <3>8. PICK u : u = Filled(id, w) /\ u = axes[id].b.val
      BY <3>2, <3>6
    <3>9. u \in 0..100
      <4>1. id # "eff" => w >= 0
        <5>1. PICK nk \in Nat : nk = n * k /\ nk > 0
          BY <3>4
        <5>2. 100 * y < nk * w + nk
          BY <3>4, <3>6, <5>1, QuotientIs
        <5>3. ASSUME y >= 0, w <= -1 PROVE FALSE
          <6>1. nk * w <= nk * (-1)
            BY <5>1, <5>3
          <6> QED BY <5>1, <5>2, <5>3, <6>1
        <5> QED BY <3>2, <5>3
      <4> QED BY <3>8, <4>1, FilledIs
    <3> QED BY <3>7, <3>8, <3>9
  <2> QED BY <2>8, <2>9
<1>5. ASSUME NEW pair \in Links
      PROVE  LET first == OpenedOn(c.names, pair)
                 second == CompareClicks(c.names, first)
             IN Two(first) /\ \A p \in second : Two(p) /\ \A q \in CompareClicks(c.names, p) : Two(q)
  <2>1. ASSUME NEW t PROVE Another(c.names, t) \in Range(c.names) /\ Another(c.names, t) # t
    BY <1>1, AnotherIs
  <2>2. ASSUME NEW p, Two(p), NEW q \in CompareClicks(c.names, p) PROVE Two(q)
    BY <2>1, <2>2 DEF CompareClicks
  <2>3. c.names[1] \in Range(c.names)
    <3>1. PICK N \in Nat : DOMAIN c.names = 1..N
      BY <1>1
    <3>2. N # 0
      BY <1>1, <3>1 DEF Range
    <3> QED BY <3>1, <3>2 DEF Range
  <2>4. Two(OpenedOn(c.names, pair))
    BY <2>1, <2>3 DEF OpenedOn
  <2> HIDE DEF Two
  <2> QED BY <2>2, <2>4
<1> HIDE DEF axes, Links
<1> QED BY <1>3, <1>4, <1>5 DEF CompareIsEven, axes, Links

-----------------------------------------------------------------------------
(* Sums of other indices, and weighted means *)

\* A sum is the same over other names of the same things.
LEMMA SumMoves ==
    ASSUME NEW Xs, IsFiniteSet(Xs), NEW Ys, NEW to \in Bijection(Ys, Xs), NEW f, Ints(Xs, f),
           NEW h, \A y \in Ys : h[y] = f[to[y]]
    PROVE  SumOver(Ys, h) = SumOver(Xs, f)
<1>1. /\ to \in [Ys -> Xs] /\ \A x, y \in Ys : to[x] = to[y] => x = y
      /\ \A x \in Xs : \E y \in Ys : to[y] = x
  BY DEF Bijection, Injection, Surjection, IsInjective
<1>2. IsFiniteSet(Ys)
  BY <1>1, FS_Injection, Zenon DEF Bijection
<1> DEFINE Taken(Rs) == {to[y] : y \in Rs}
           Good == {Rs \in SUBSET Ys : SumOver(Rs, h) = SumOver(Taken(Rs), f)}
<1>3. {} \in Good
  <2>1. Taken({}) = {}
    OBVIOUS
  <2> QED BY <2>1, SumOfNone
<1>4. ASSUME NEW Rs \in SUBSET Ys, NEW y \in Ys \ Rs, Rs \in Good
      PROVE  Rs \cup {y} \in Good
  <2>1. IsFiniteSet(Rs) /\ Ints(Rs \cup {y}, h)
    BY <1>1, <1>2, FS_Subset DEF Ints
  <2>2. /\ Taken(Rs \cup {y}) = Taken(Rs) \cup {to[y]} /\ to[y] \notin Taken(Rs)
        /\ Taken(Rs) \subseteq Xs /\ to[y] \in Xs
    BY <1>1
  <2>3. IsFiniteSet(Taken(Rs)) /\ Ints(Taken(Rs) \cup {to[y]}, f)
    <3>1. IsFiniteSet(Taken(Rs))
      BY <2>2, FS_Subset
    <3> QED BY <2>2, <3>1 DEF Ints
  <2>4. SumOver(Rs \cup {y}, h) = h[y] + SumOver(Rs, h)
    BY <2>1, SumGrows
  <2>5. SumOver(Taken(Rs) \cup {to[y]}, f) = f[to[y]] + SumOver(Taken(Rs), f)
    <3> HIDE DEF Taken
    <3> QED BY <2>2, <2>3, SumGrows
  <2>6. h[y] = f[to[y]] /\ SumOver(Rs, h) = SumOver(Taken(Rs), f)
    BY <1>4
  <2> QED BY <2>2, <2>4, <2>5, <2>6
<1> HIDE DEF Good
<1>5. Ys \in Good
  BY <1>2, <1>3, <1>4, OneByOne
<1>6. Taken(Ys) = Xs
  BY <1>1
<1> QED BY <1>5, <1>6 DEF Good

\* The least and the greatest of some numbers.
LEMMA MinMaxOf ==
    ASSUME NEW Xs, IsFiniteSet(Xs), Xs # {}, NEW f, Ints(Xs, f), NEW S, S = {f[x] : x \in Xs}
    PROVE  /\ Min(S) \in Int /\ Max(S) \in Int
           /\ \A x \in Xs : Min(S) <= f[x] /\ f[x] <= Max(S)
<1>1. S \subseteq Int
  BY DEF Ints
<1>2. (\E y \in S : \A z \in S : y <= z) /\ (\E y \in S : \A z \in S : y >= z)
  BY <1>1, MostOf DEF Ints
<1>3. /\ Min(S) \in S /\ \A z \in S : Min(S) <= z
      /\ Max(S) \in S /\ \A z \in S : Max(S) >= z
  BY <1>2 DEF Min, Max
<1>4. \A x \in Xs : f[x] \in S
  OBVIOUS
<1> QED BY <1>1, <1>3, <1>4

\* The nearest whole number to a quotient.
LEMMA NearestIs ==
    ASSUME NEW n \in Int, NEW d \in Nat, d > 0, NEW q, q = Nearest(n, d)
    PROVE  q \in Int /\ \A k \in Int : /\ q <= k <=> 2 * n < d * (2 * k + 1)
                                       /\ k <= q <=> d * (2 * k - 1) <= 2 * n
<1>1. 2 * n + d \in Int /\ 2 * d \in Nat /\ 2 * d > 0
  OBVIOUS
<1>2. q \in Int /\ (2 * d) * q <= 2 * n + d /\ 2 * n + d < (2 * d) * q + 2 * d
  BY <1>1, QuotientIs DEF Nearest
<1>3. ASSUME NEW k \in Int
      PROVE  /\ q <= k <=> 2 * n < d * (2 * k + 1)
             /\ k <= q <=> d * (2 * k - 1) <= 2 * n
  <2>1. PICK a \in Int, b \in Int : a = d * q /\ b = d * k
    BY <1>2
  <2>2. (2 * d) * q = 2 * a /\ d * (2 * k + 1) = 2 * b + d /\ d * (2 * k - 1) = 2 * b - d
    BY <1>2, <2>1
  <2>3. 2 * a <= 2 * n + d /\ 2 * n + d < 2 * a + 2 * d
    BY <1>2, <2>2
  <2>4. (q <= k => a <= b) /\ (q >= k + 1 => a >= b + d) /\ (k <= q => b <= a) /\ (k >= q + 1 => b >= a + d)
    <3>1. q <= k => a <= b
      BY <1>2, <2>1
    <3>2. q >= k + 1 => a >= b + d
      <4>1. d * (k + 1) = b + d
        BY <2>1
      <4> QED BY <1>2, <2>1, <4>1
    <3>3. k <= q => b <= a
      BY <1>2, <2>1
    <3>4. k >= q + 1 => b >= a + d
      <4>1. d * (q + 1) = a + d
        BY <1>2, <2>1
      <4> QED BY <1>2, <2>1, <4>1
    <3> QED BY <3>1, <3>2, <3>3, <3>4
  <2> QED BY <1>2, <2>1, <2>2, <2>3, <2>4
<1> QED BY <1>2, <1>3

\* A term's weight is put on it; and terms whose fractions lie between two numbers, rounded.
Weighed(Xs, e, g, p) == p = [x \in Xs |-> e[x] * g[x]]
Between(Xs, c, e, d, g, lo, hi) ==
    \A x \in Xs : /\ e[x] \in Int /\ d[x] \in Nat /\ d[x] > 0 /\ g[x] \in Nat /\ g[x] > 0
                  /\ lo <= Nearest(c * e[x], d[x]) /\ Nearest(c * e[x], d[x]) <= hi

\* The fraction of weighted sums lies between the fractions, rounded as they are.
LEMMA WeightedLies ==
    ASSUME NEW Xs, IsFiniteSet(Xs), Xs # {}, NEW c \in Nat, NEW lo \in Int, NEW hi \in Int,
           NEW e, NEW d, NEW g, Between(Xs, c, e, d, g, lo, hi),
           NEW eg, Weighed(Xs, e, g, eg), NEW es, es = SumOver(Xs, eg),
           NEW dg, Weighed(Xs, d, g, dg), NEW ds, ds = SumOver(Xs, dg)
    PROVE  /\ es \in Int /\ ds \in Nat /\ ds > 0
           /\ lo <= Nearest(c * es, ds) /\ Nearest(c * es, ds) <= hi
<1>0. /\ eg = [x \in Xs |-> e[x] * g[x]] /\ dg = [x \in Xs |-> d[x] * g[x]]
      /\ \A x \in Xs : /\ e[x] \in Int /\ d[x] \in Nat /\ d[x] > 0 /\ g[x] \in Nat /\ g[x] > 0
                       /\ lo <= Nearest(c * e[x], d[x]) /\ Nearest(c * e[x], d[x]) <= hi
  BY DEF Weighed, Between
<1>1. PICK ce, low, high, above, below :
        /\ ce = [x \in Xs |-> (2 * c) * eg[x]]
        /\ low = [x \in Xs |-> (2 * lo - 1) * dg[x]] /\ high = [x \in Xs |-> (2 * hi + 1) * dg[x]]
        /\ above = [x \in Xs |-> ce[x] - low[x]] /\ below = [x \in Xs |-> high[x] - ce[x]]
  OBVIOUS
<1>2. ASSUME NEW x \in Xs
      PROVE  /\ eg[x] \in Int /\ dg[x] \in Nat /\ dg[x] > 0 /\ ce[x] \in Int /\ low[x] \in Int /\ high[x] \in Int
             /\ above[x] \in Nat /\ below[x] \in Nat /\ below[x] > 0
  <2>1. PICK a \in Int, b \in Nat, w \in Nat : a = e[x] /\ b = d[x] /\ w = g[x] /\ b > 0 /\ w > 0
    BY <1>0
  <2>2. c * a \in Int /\ lo <= Nearest(c * a, b) /\ Nearest(c * a, b) <= hi
    BY <1>0, <2>1
  <2>3. 2 * (c * a) < b * (2 * hi + 1) /\ b * (2 * lo - 1) <= 2 * (c * a)
    BY <2>1, <2>2, NearestIs
  <2>4. PICK p \in Int, q \in Int, r \in Int : p = 2 * (c * a) /\ q = b * (2 * hi + 1) /\ r = b * (2 * lo - 1)
    <3>1. 2 * (c * a) \in Int
      BY <2>2
    <3>2. b * (2 * hi + 1) \in Int /\ b * (2 * lo - 1) \in Int
      BY <2>1
    <3> QED BY <3>1, <3>2
  <2>5. (q - p) * w > 0 /\ (p - r) * w >= 0 /\ (q - p) * w \in Int /\ (p - r) * w \in Int
    BY <2>1, <2>3, <2>4
  <2>6. eg[x] = a * w /\ dg[x] = b * w /\ ce[x] = p * w /\ low[x] = r * w /\ high[x] = q * w
    <3>1. eg[x] = a * w /\ dg[x] = b * w
      BY <1>0, <2>1
    <3>2. (2 * c) * (a * w) = p * w
      BY <2>1, <2>4
    <3>3. (2 * lo - 1) * (b * w) = r * w
      BY <2>1, <2>4
    <3>4. (2 * hi + 1) * (b * w) = q * w
      BY <2>1, <2>4
    <3> QED BY <1>1, <3>1, <3>2, <3>3, <3>4
  <2>7. a * w \in Int /\ b * w \in Nat /\ b * w > 0 /\ p * w \in Int /\ r * w \in Int /\ q * w \in Int
    BY <2>1, <2>4
  <2>8. above[x] = p * w - r * w /\ below[x] = q * w - p * w
    BY <1>1, <2>6
  <2>9. (q - p) * w = q * w - p * w /\ (p - r) * w = p * w - r * w
    OBVIOUS
  <2> QED BY <2>5, <2>6, <2>7, <2>8, <2>9
<1>3. Ints(Xs, eg) /\ Ints(Xs, dg) /\ Ints(Xs, ce) /\ Ints(Xs, low) /\ Ints(Xs, high)
  BY <1>2 DEF Ints
<1>4. es = SumOver(Xs, eg) /\ ds = SumOver(Xs, dg) /\ es \in Int /\ ds \in Nat
  BY <1>1, <1>2, <1>3, SumAdds, SumCovers
<1>5. /\ SumOver(Xs, ce) = (2 * c) * es
      /\ SumOver(Xs, low) = (2 * lo - 1) * ds /\ SumOver(Xs, high) = (2 * hi + 1) * ds
  <2>1. PICK k \in Int, l \in Int, h \in Int : k = 2 * c /\ l = 2 * lo - 1 /\ h = 2 * hi + 1
    OBVIOUS
  <2>2. (\A x \in Xs : ce[x] = k * eg[x]) /\ (\A x \in Xs : low[x] = l * dg[x]) /\ (\A x \in Xs : high[x] = h * dg[x])
    BY <1>1, <2>1
  <2>3. SumOver(Xs, ce) = k * SumOver(Xs, eg)
    BY <1>3, <2>2, SumScales
  <2>4. SumOver(Xs, low) = l * SumOver(Xs, dg)
    BY <1>3, <2>2, SumScales
  <2>5. SumOver(Xs, high) = h * SumOver(Xs, dg)
    BY <1>3, <2>2, SumScales
  <2> QED BY <2>1, <2>3, <2>4, <2>5
<1>6. /\ SumOver(Xs, above) = (2 * c) * es - (2 * lo - 1) * ds
      /\ SumOver(Xs, below) = (2 * hi + 1) * ds - (2 * c) * es
  <2>1. (\A x \in Xs : above[x] = ce[x] - low[x]) /\ (\A x \in Xs : below[x] = high[x] - ce[x])
    BY <1>1
  <2>2. SumOver(Xs, above) = SumOver(Xs, ce) - SumOver(Xs, low)
    BY <1>3, <2>1, SumsSubtract
  <2>3. SumOver(Xs, below) = SumOver(Xs, high) - SumOver(Xs, ce)
    BY <1>3, <2>1, SumsSubtract
  <2> QED BY <1>5, <2>2, <2>3
<1>7. PICK x \in Xs : TRUE
  OBVIOUS
<1>8. SumOver(Xs, above) >= 0 /\ SumOver(Xs, below) >= 1 /\ ds >= 1
  <2>1. SumOver(Xs, above) \in Nat
    BY <1>2, SumCovers
  <2>2. SumOver(Xs, below) \in Nat /\ below[x] <= SumOver(Xs, below)
    BY <1>2, SumCovers
  <2>3. SumOver(Xs, dg) \in Nat /\ dg[x] <= SumOver(Xs, dg)
    BY <1>2, SumCovers
  <2>4. below[x] \in Nat /\ below[x] > 0 /\ dg[x] \in Nat /\ dg[x] > 0
    BY <1>2
  <2> QED BY <1>4, <2>1, <2>2, <2>3, <2>4
<1>9. c * es \in Int /\ ds > 0 /\ ds \in Nat /\ es \in Int
  BY <1>4, <1>8
<1>10. 2 * (c * es) < ds * (2 * hi + 1) /\ ds * (2 * lo - 1) <= 2 * (c * es)
  <2>1. PICK p \in Int, q \in Int, r \in Int : p = (2 * c) * es /\ q = (2 * hi + 1) * ds /\ r = (2 * lo - 1) * ds
    <3>1. (2 * c) * es \in Int /\ (2 * hi + 1) * ds \in Int /\ (2 * lo - 1) * ds \in Int
      BY <1>9
    <3> QED BY <3>1
  <2>2. p - r >= 0 /\ q - p >= 1
    BY <1>6, <1>8, <2>1
  <2>3. 2 * (c * es) = p /\ ds * (2 * hi + 1) = q /\ ds * (2 * lo - 1) = r
    <3>1. 2 * (c * es) = (2 * c) * es
      BY <1>9
    <3>2. ds * (2 * hi + 1) = (2 * hi + 1) * ds
      BY <1>9
    <3>3. ds * (2 * lo - 1) = (2 * lo - 1) * ds
      BY <1>9
    <3> QED BY <2>1, <3>1, <3>2, <3>3
  <2> QED BY <2>1, <2>2, <2>3
<1> QED BY <1>9, <1>10, NearestIs

-----------------------------------------------------------------------------
(* A player of two teams *)

\* The rows that count, and the sum of a stat over them.
Counting(st) == {i \in DOMAIN st : st[i].games > 0}
WholeOf(st, of) == SumOver(Counting(st), [i \in Counting(st) |-> of[i] * st[i].games])
GamesOf(st) == SumOver(Counting(st), [i \in Counting(st) |-> st[i].games])
MergedFrom(games, dmg, elims, deaths) ==
    [games |-> games, dmg |-> Nearest(dmg, games),
     elims |-> Nearest(10 * elims, games), deaths |-> Nearest(10 * deaths, games),
     kd |-> IF deaths > 0 THEN Nearest(100 * elims, deaths) ELSE NoValue]

\* What a merged row is made of.
LEMMA MergedIs ==
    ASSUME NEW st
    PROVE  mergePlayerStats(st)
             = IF Counting(st) = {} THEN NoStats
               ELSE MergedFrom(GamesOf(st), WholeOf(st, [i \in Counting(st) |-> st[i].dmg]),
                               WholeOf(st, [i \in Counting(st) |-> st[i].elims]),
                               WholeOf(st, [i \in Counting(st) |-> st[i].deaths]))
BY DEF mergePlayerStats, Counting, WholeOf, GamesOf, MergedFrom

\* The sums are the same in another order of the rows.
LEMMA MergedMoves ==
    ASSUME NEW st, IsFiniteSet(DOMAIN st), NEW to \in Bijection(DOMAIN st, DOMAIN st),
           NEW mv, mv = [i \in DOMAIN st |-> st[to[i]]], NEW of, NEW os,
           \A i \in Counting(st) : st[i].games \in Int /\ of[i] \in Int,
           \A i \in Counting(mv) : os[i] = of[to[i]]
    PROVE  /\ WholeOf(mv, os) = WholeOf(st, of) /\ GamesOf(mv) = GamesOf(st)
           /\ Counting(mv) = {} <=> Counting(st) = {}
<1>1. /\ to \in [DOMAIN st -> DOMAIN st] /\ \A x, y \in DOMAIN st : to[x] = to[y] => x = y
      /\ \A x \in DOMAIN st : \E y \in DOMAIN st : to[y] = x
  BY DEF Bijection, Injection, Surjection, IsInjective
<1>2. Counting(mv) = {i \in DOMAIN st : to[i] \in Counting(st)}
  BY <1>1 DEF Counting
<1>3. PICK tp : tp = [i \in Counting(mv) |-> to[i]]
  OBVIOUS
<1>4. tp \in Bijection(Counting(mv), Counting(st))
  <2>1. tp \in [Counting(mv) -> Counting(st)]
    BY <1>2, <1>3
  <2>2. \A x, y \in Counting(mv) : tp[x] = tp[y] => x = y
    BY <1>1, <1>2, <1>3
  <2>3. \A x \in Counting(st) : \E y \in Counting(mv) : tp[y] = x
    BY <1>1, <1>2, <1>3 DEF Counting
  <2> QED BY <2>1, <2>2, <2>3 DEF Bijection, Injection, Surjection, IsInjective
<1>5. IsFiniteSet(Counting(st))
  <2>1. Counting(st) \subseteq DOMAIN st
    BY DEF Counting
  <2> QED BY <2>1, FS_Subset
<1>6. PICK f, g, h, k : /\ f = [i \in Counting(st) |-> of[i] * st[i].games] /\ g = [i \in Counting(st) |-> st[i].games]
                        /\ h = [i \in Counting(mv) |-> os[i] * mv[i].games] /\ k = [i \in Counting(mv) |-> mv[i].games]
  OBVIOUS
<1>7. Ints(Counting(st), f) /\ Ints(Counting(st), g)
  BY <1>6 DEF Ints
<1>8. \A y \in Counting(mv) : h[y] = f[tp[y]] /\ k[y] = g[tp[y]]
  <2> TAKE y \in Counting(mv)
  <2>1. y \in DOMAIN st /\ tp[y] = to[y] /\ to[y] \in Counting(st) /\ mv[y] = st[to[y]] /\ os[y] = of[to[y]]
    BY <1>2, <1>3
  <2> QED BY <1>6, <2>1
<1>9. SumOver(Counting(mv), h) = SumOver(Counting(st), f) /\ SumOver(Counting(mv), k) = SumOver(Counting(st), g)
  BY <1>4, <1>5, <1>7, <1>8, SumMoves
<1>10. Counting(mv) = {} <=> Counting(st) = {}
  BY <1>1, <1>2 DEF Counting
<1> QED BY <1>6, <1>9, <1>10 DEF WholeOf, GamesOf

\* pure.js mergePlayerStats: whatever rows are merged, the damage and the k/d lie between
\* those of the rows, and no order of the rows changes it.
THEOREM MergesAreFair ==
    ASSUME NEW stats, IsFiniteSet(DOMAIN stats), \A i \in DOMAIN stats : IsLine(stats[i])
    PROVE  MergeIsFair(stats)
<1>1. PICK some : some = Counting(stats)
  OBVIOUS
<1>2. /\ IsFiniteSet(some) /\ some \subseteq DOMAIN stats
      /\ \A i \in some : /\ stats[i].games \in Nat /\ stats[i].games > 0
                         /\ stats[i].dmg \in Nat /\ stats[i].elims \in Nat /\ stats[i].deaths \in Nat
  <2>1. some \subseteq DOMAIN stats
    BY <1>1 DEF Counting
  <2>2. \A i \in some : stats[i].games \in Nat /\ stats[i].games > 0
    BY <1>1 DEF Counting, IsLine
  <2> QED BY <2>1, <2>2, FS_Subset DEF IsLine
<1>3. PICK dmg, elims, deaths, games, ones :
        /\ dmg = [i \in some |-> stats[i].dmg] /\ elims = [i \in some |-> stats[i].elims]
        /\ deaths = [i \in some |-> stats[i].deaths] /\ games = [i \in some |-> stats[i].games]
        /\ ones = [i \in some |-> 1]
  OBVIOUS
<1>4. PICK whole : whole = mergePlayerStats(stats)
  OBVIOUS
<1>5. SUFFICES ASSUME some # {}
               PROVE  /\ whole.dmg \in Min({stats[i].dmg : i \in some})..Max({stats[i].dmg : i \in some})
                      /\ (\A i \in some : stats[i].deaths > 0) =>
                           \A kds \in {{Nearest(100 * stats[i].elims, stats[i].deaths) :
                                          i \in {j \in some : stats[j].deaths > 0}}} :
                             whole.kd \in Min(kds)..Max(kds)
                      /\ \A to \in Bijection(DOMAIN stats, DOMAIN stats) :
                           mergePlayerStats([i \in DOMAIN stats |-> stats[to[i]]]) = whole
  BY <1>1, <1>4 DEF MergeIsFair, Counting
<1>6. whole = MergedFrom(GamesOf(stats), WholeOf(stats, dmg), WholeOf(stats, elims), WholeOf(stats, deaths))
  BY <1>1, <1>3, <1>4, <1>5, MergedIs
<1>7. PICK dg, eg, hg, og :
        /\ dg = [x \in some |-> dmg[x] * games[x]] /\ eg = [x \in some |-> elims[x] * games[x]]
        /\ hg = [x \in some |-> deaths[x] * games[x]] /\ og = [x \in some |-> ones[x] * games[x]]
  OBVIOUS
<1>a. /\ Weighed(some, dmg, games, dg) /\ Weighed(some, elims, games, eg)
      /\ Weighed(some, deaths, games, hg) /\ Weighed(some, ones, games, og)
  BY <1>7 DEF Weighed
<1>8. /\ WholeOf(stats, dmg) = SumOver(some, dg) /\ WholeOf(stats, elims) = SumOver(some, eg)
      /\ WholeOf(stats, deaths) = SumOver(some, hg) /\ GamesOf(stats) = SumOver(some, og)
  <2>1. \A x \in some : games[x] = stats[x].games /\ ones[x] * games[x] = stats[x].games
    BY <1>2, <1>3
  <2>2. dg = [x \in some |-> dmg[x] * stats[x].games] /\ eg = [x \in some |-> elims[x] * stats[x].games]
    BY <1>7, <2>1
  <2>3. hg = [x \in some |-> deaths[x] * stats[x].games] /\ og = [x \in some |-> stats[x].games]
    BY <1>7, <2>1
  <2> QED BY <1>1, <2>2, <2>3 DEF WholeOf, GamesOf
<1>9. whole.dmg \in Min({stats[i].dmg : i \in some})..Max({stats[i].dmg : i \in some})
  <2>1. PICK S : S = {stats[i].dmg : i \in some} /\ S = {dmg[i] : i \in some}
    BY <1>3
  <2>2. Ints(some, dmg)
    BY <1>2, <1>3 DEF Ints
  <2>3. PICK lo \in Int, hi \in Int : lo = Min(S) /\ hi = Max(S) /\ \A x \in some : lo <= dmg[x] /\ dmg[x] <= hi
    BY <1>2, <1>5, <2>1, <2>2, MinMaxOf
  <2>4. \A n \in Int : Nearest(1 * n, 1) = n
    <3> TAKE n \in Int
    <3>1. PICK q \in Int : q = Nearest(1 * n, 1) /\ \A k \in Int : /\ q <= k <=> 2 * n < 1 * (2 * k + 1)
                                                                   /\ k <= q <=> 1 * (2 * k - 1) <= 2 * n
      BY NearestIs
    <3>2. q <= n /\ n <= q
      BY <3>1
    <3> QED BY <3>1, <3>2
  <2>5. \A x \in some : /\ dmg[x] \in Int /\ ones[x] \in Nat /\ ones[x] > 0 /\ games[x] \in Nat /\ games[x] > 0
                        /\ lo <= Nearest(1 * dmg[x], ones[x]) /\ Nearest(1 * dmg[x], ones[x]) <= hi
    BY <1>2, <1>3, <2>3, <2>4
  <2>6. PICK ds, gs : ds = WholeOf(stats, dmg) /\ gs = GamesOf(stats)
    OBVIOUS
  <2>7. /\ ds \in Int /\ gs \in Nat /\ gs > 0
        /\ lo <= Nearest(1 * ds, gs) /\ Nearest(1 * ds, gs) <= hi
    <3>1. PICK c \in Nat : c = 1
      OBVIOUS
    <3>2. Between(some, c, dmg, ones, games, lo, hi)
      BY <2>5, <3>1 DEF Between
    <3>3. ds = SumOver(some, dg) /\ gs = SumOver(some, og) /\ IsFiniteSet(some)
      BY <1>2, <1>8, <2>6
    <3>4. /\ ds \in Int /\ gs \in Nat /\ gs > 0
          /\ lo <= Nearest(c * ds, gs) /\ Nearest(c * ds, gs) <= hi
      BY <1>5, <1>a, <3>2, <3>3, WeightedLies
    <3> QED BY <3>1, <3>4
  <2>8. whole.dmg = Nearest(1 * ds, gs) /\ Nearest(1 * ds, gs) \in Int
    <3>1. 1 * ds = ds
      BY <2>7
    <3>2. whole.dmg = Nearest(ds, gs)
      BY <1>6, <2>6 DEF MergedFrom
    <3> QED BY <2>7, <3>1, <3>2, NearestIs
  <2> QED BY <2>1, <2>3, <2>7, <2>8
<1>10. ASSUME \A i \in some : stats[i].deaths > 0,
              NEW kds, kds = {Nearest(100 * stats[i].elims, stats[i].deaths) : i \in {j \in some : stats[j].deaths > 0}}
       PROVE  whole.kd \in Min(kds)..Max(kds)
  <2>1. PICK kd : kd = [i \in some |-> Nearest(100 * stats[i].elims, stats[i].deaths)]
    OBVIOUS
  <2>2. kds = {kd[i] : i \in some}
    BY <1>10, <2>1
  <2>3. \A i \in some : 100 * stats[i].elims \in Int /\ stats[i].deaths \in Nat /\ stats[i].deaths > 0
    BY <1>2, <1>10
  <2>4. Ints(some, kd)
    BY <2>1, <2>3, NearestIs DEF Ints
  <2>5. PICK lo \in Int, hi \in Int : lo = Min(kds) /\ hi = Max(kds) /\ \A x \in some : lo <= kd[x] /\ kd[x] <= hi
    BY <1>2, <1>5, <2>2, <2>4, MinMaxOf
  <2>6. \A x \in some : /\ elims[x] \in Int /\ deaths[x] \in Nat /\ deaths[x] > 0 /\ games[x] \in Nat /\ games[x] > 0
                        /\ lo <= Nearest(100 * elims[x], deaths[x]) /\ Nearest(100 * elims[x], deaths[x]) <= hi
    BY <1>2, <1>3, <2>1, <2>3, <2>5
  <2>7. PICK es, ds : es = WholeOf(stats, elims) /\ ds = WholeOf(stats, deaths)
    OBVIOUS
  <2>8. /\ es \in Int /\ ds \in Nat /\ ds > 0
        /\ lo <= Nearest(100 * es, ds) /\ Nearest(100 * es, ds) <= hi
    <3>1. PICK c \in Nat : c = 100
      OBVIOUS
    <3>2. Between(some, c, elims, deaths, games, lo, hi)
      BY <2>6, <3>1 DEF Between
    <3>3. es = SumOver(some, eg) /\ ds = SumOver(some, hg) /\ IsFiniteSet(some)
      BY <1>2, <1>8, <2>7
    <3>4. /\ es \in Int /\ ds \in Nat /\ ds > 0
          /\ lo <= Nearest(c * es, ds) /\ Nearest(c * es, ds) <= hi
      BY <1>5, <1>a, <3>2, <3>3, WeightedLies
    <3> QED BY <3>1, <3>4
  <2>9. whole.kd = Nearest(100 * es, ds)
    BY <1>6, <2>7, <2>8 DEF MergedFrom
  <2>10. Nearest(100 * es, ds) \in Int
    <3>1. 100 * es \in Int
      BY <2>8
    <3> QED BY <2>8, <3>1, NearestIs
  <2> QED BY <2>5, <2>8, <2>9, <2>10
<1>11. ASSUME NEW to \in Bijection(DOMAIN stats, DOMAIN stats)
       PROVE  mergePlayerStats([i \in DOMAIN stats |-> stats[to[i]]]) = whole
  <2>1. PICK mv : mv = [i \in DOMAIN stats |-> stats[to[i]]]
    OBVIOUS
  <2>2. to \in [DOMAIN stats -> DOMAIN stats] /\ Counting(mv) = {i \in DOMAIN stats : to[i] \in some}
    BY <1>1, <2>1 DEF Bijection, Injection, Counting
  <2>3. PICK dmg2, elims2, deaths2 :
          /\ dmg2 = [i \in Counting(mv) |-> mv[i].dmg] /\ elims2 = [i \in Counting(mv) |-> mv[i].elims]
          /\ deaths2 = [i \in Counting(mv) |-> mv[i].deaths]
    OBVIOUS
  <2>4. \A i \in Counting(mv) : dmg2[i] = dmg[to[i]] /\ elims2[i] = elims[to[i]] /\ deaths2[i] = deaths[to[i]]
    BY <1>3, <2>1, <2>2, <2>3
  <2>5. \A i \in some : stats[i].games \in Int /\ dmg[i] \in Int /\ elims[i] \in Int /\ deaths[i] \in Int
    BY <1>2, <1>3
  <2>6. WholeOf(mv, dmg2) = WholeOf(stats, dmg) /\ GamesOf(mv) = GamesOf(stats) /\ Counting(mv) # {}
    <3>1. \A i \in Counting(stats) : stats[i].games \in Int /\ dmg[i] \in Int
      BY <1>1, <2>5
    <3>2. \A i \in Counting(mv) : dmg2[i] = dmg[to[i]]
      BY <2>4
    <3>3. WholeOf(mv, dmg2) = WholeOf(stats, dmg) /\ GamesOf(mv) = GamesOf(stats)
          /\ (Counting(mv) = {} <=> Counting(stats) = {})
      BY <2>1, <3>1, <3>2, MergedMoves
    <3> QED BY <1>1, <1>5, <3>3
  <2>7. WholeOf(mv, elims2) = WholeOf(stats, elims)
    BY <1>1, <2>1, <2>4, <2>5, MergedMoves
  <2>8. WholeOf(mv, deaths2) = WholeOf(stats, deaths)
    BY <1>1, <2>1, <2>4, <2>5, MergedMoves
  <2>9. mergePlayerStats(mv) = MergedFrom(GamesOf(mv), WholeOf(mv, dmg2), WholeOf(mv, elims2), WholeOf(mv, deaths2))
    BY <2>3, <2>6, MergedIs
  <2> QED BY <1>6, <2>1, <2>6, <2>7, <2>8, <2>9
<1> QED BY <1>9, <1>10, <1>11

-----------------------------------------------------------------------------
(* What a sequence of steps leads to *)

\* What holds at first and is kept by each step holds after all of them.
LEMMA Reached ==
    ASSUME NEW N \in Nat, NEW Good, 0 \in Good, \A n \in 1..N : n - 1 \in Good => n \in Good
    PROVE  0..N \subseteq Good
<1>1. SUFFICES ASSUME (0..N) \ Good # {} PROVE FALSE
  OBVIOUS
<1>2. PICK n \in (0..N) \ Good : \A l \in (0..N) \ Good : n <= l
  <2>1. (0..N) \ Good \subseteq Nat
    OBVIOUS
  <2> QED BY <1>1, <2>1, LeastOf
<1>3. n \in 1..N /\ n - 1 \in 0..N /\ ~(n <= n - 1)
  BY <1>2
<1> QED BY <1>2, <1>3

\* The ways to take N steps through S, and what they lead to one after another.
StepsOver(N, Xs) == [Xs \X (1..N) -> Xs]
Trails(f, N, Xs, base, step) ==
    f \in [0..N -> Xs] /\ f[0] = base /\ \A n \in 1..N : f[n] = step[<<f[n - 1], n>>]

\* A function is defined by its first value and by each value's successor.
LEMMA Stepwise ==
    ASSUME NEW N \in Nat, NEW Xs, NEW base \in Xs, NEW step \in StepsOver(N, Xs)
    PROVE  \E f : Trails(f, N, Xs, base, step)
<1> USE DEF StepsOver, Trails
<1> DEFINE To(m, f) == /\ f \in [0..m -> Xs] /\ f[0] = base
                       /\ \A n \in 1..m : f[n] = step[<<f[n - 1], n>>]
<1>1. PICK Good : Good = {m \in 0..N : \E f : To(m, f)}
  OBVIOUS
<1>2. 0 \in Good
  <2>1. To(0, [n \in 0..0 |-> base])
    OBVIOUS
  <2> HIDE DEF To
  <2> QED BY <1>1, <2>1
<1>3. ASSUME NEW m \in 1..N, m - 1 \in Good PROVE m \in Good
  <2>1. PICK f : To(m - 1, f)
    <3> HIDE DEF To
    <3> QED BY <1>1, <1>3
  <2>2. PICK g : g = [n \in 0..m |-> IF n = m THEN step[<<f[m - 1], m>>] ELSE f[n]]
    OBVIOUS
  <2>3. m - 1 \in 0..m - 1 /\ m \in 0..m /\ 0 \in 0..m - 1 /\ m \in 1..N
    OBVIOUS
  <2>4. \A n \in 0..m - 1 : g[n] = f[n]
    BY <2>2
  <2>5. g \in [0..m -> Xs]
    <3>1. step[<<f[m - 1], m>>] \in Xs
      BY <2>1, <2>3
    <3>2. \A n \in 0..m : n # m => f[n] \in Xs
      BY <2>1
    <3> QED BY <2>2, <3>1, <3>2
  <2>6. \A n \in 1..m : g[n] = step[<<g[n - 1], n>>]
    <3> TAKE n \in 1..m
    <3>1. CASE n = m
      BY <2>2, <2>3, <2>4, <3>1
    <3>2. CASE n # m
      <4>1. n \in 1..m - 1 /\ n \in 0..m - 1 /\ n - 1 \in 0..m - 1
        BY <3>2
      <4> QED BY <2>1, <2>4, <4>1
    <3> QED BY <3>1, <3>2
  <2>7. To(m, g)
    BY <2>1, <2>3, <2>4, <2>5, <2>6
  <2> HIDE DEF To
  <2> QED BY <1>1, <2>7
<1>4. N \in Good
  <2>1. 0..N \subseteq Good
    <3> HIDE DEF To
    <3> QED BY <1>2, <1>3, Reached
  <2> QED BY <2>1
<1>5. PICK f : To(N, f)
  <2> HIDE DEF To
  <2> QED BY <1>1, <1>4
<1> QED BY <1>5


-----------------------------------------------------------------------------
(* Elo *)

\* The two of a pair after one of them won, or the other: points change hands, to the winner.
LEMMA BothMove ==
    ASSUME NEW q \in Int \X Int, NEW s \in {0, 1}, NEW k \in Nat, NEW p, p = Both(q, s, k)
    PROVE  /\ p \in Int \X Int /\ p[1] + p[2] = q[1] + q[2]
           /\ s = 1 => p[1] >= q[1] /\ p[2] <= q[2]
           /\ s = 0 => p[1] <= q[1] /\ p[2] >= q[2]
<1>0. PICK a \in Int, b \in Int : a = q[1] /\ b = q[2]
  OBVIOUS
<1>1. ASSUME NEW d \in Int
      PROVE  /\ Lead(d) \in -Far..Far
             /\ Lead(d) = IF d > Far THEN Far ELSE IF d < -Far THEN -Far ELSE d
  <2>1. Far \in Nat
    BY RatingsAssumption
  <2>2. PICK l \in Int : l = Min({Far, d}) /\ l = IF Far <= d THEN Far ELSE d
    BY <2>1, OfTwo
  <2>3. Max({-Far, l}) = IF -Far >= l THEN -Far ELSE l
    <3>1. PICK g \in Int : g = -Far
      BY <2>1
    <3>2. Max({g, l}) = IF g >= l THEN g ELSE l
      BY OfTwo
    <3> QED BY <3>1, <3>2
  <2> QED BY <2>1, <2>2, <2>3 DEF Lead
<1>2. PICK d \in Int : d = a - b /\ b - a = -d
  OBVIOUS
<1>3. PICK l \in -Far..Far : l = Lead(d) /\ -l \in -Far..Far /\ -l = Lead(-d)
  <2>1. Far \in Nat /\ -d \in Int
    BY RatingsAssumption
  <2> QED BY <1>1, <2>1
<1>4. PICK e \in 0..1000 : e = Expected[l] /\ Expected[-l] = 1000 - e
  <2>0. PICK Ds : Ds = -Far..Far
    OBVIOUS
  <2>1. Expected \in [Ds -> 0..1000]
    BY <2>0, RatingsAssumption
  <2>2. \A x \in Ds : Expected[-x] = 1000 - Expected[x]
    BY <2>0, RatingsAssumption, Zenon
  <2>3. l \in Ds
    BY <2>0
  <2>4. Expected[l] \in 0..1000
    BY <2>1, <2>3
  <2>5. Expected[-l] = 1000 - Expected[l]
    BY <2>2, <2>3, Zenon
  <2> QED BY <2>4, <2>5
<1>5. PICK x \in Int : x = k * (1000 * s - e)
  <2>1. k * (1000 * s - e) \in Int
    OBVIOUS
  <2> QED BY <2>1
<1>6. k * (1000 * (1 - s) - (1000 - e)) = -x
  <2>1. 1000 * (1 - s) - (1000 - e) = -(1000 * s - e)
    OBVIOUS
  <2>2. k * (-(1000 * s - e)) = -(k * (1000 * s - e))
    OBVIOUS
  <2> QED BY <1>5, <2>1, <2>2
<1>7. (s = 1 => x >= 0) /\ (s = 0 => x <= 0)
  <2>1. s = 1 => k * (1000 * s - e) >= 0
    OBVIOUS
  <2>2. s = 0 => k * (1000 * s - e) <= 0
    <3>1. CASE s = 0
      <4>1. 1000 * s - e <= 0 /\ 1000 * s - e \in Int
        BY <3>1
      <4> QED BY <4>1
    <3> QED BY <3>1
  <2> QED BY <1>5, <2>1, <2>2
<1>8. /\ Tenths(x) \in Int /\ Tenths(-x) = -Tenths(x)
      /\ x >= 0 => Tenths(x) >= 0
      /\ x <= 0 => Tenths(x) <= 0
  BY DEF Tenths
<1>9. p = <<a + Tenths(x), b + Tenths(-x)>>
  <2>1. eloNext(a, b, s, k) = a + Tenths(x)
    BY <1>2, <1>3, <1>4, <1>5 DEF eloNext
  <2>2. eloNext(b, a, 1 - s, k) = b + Tenths(-x)
    BY <1>2, <1>3, <1>4, <1>6 DEF eloNext
  <2> QED BY <1>0, <2>1, <2>2 DEF Both
<1> QED BY <1>0, <1>7, <1>8, <1>9

\* The maps of a match leave the sum of the two as it was.
LEMMA MapsMove ==
    ASSUME NEW pair \in Int \X Int, NEW m, m.games \in Seq(Range(m.games)), NEW p, p = OverMaps(pair, m)
    PROVE  /\ p \in Int \X Int /\ p[1] + p[2] = pair[1] + pair[2]
           /\ m.walkover => p = pair
<1>1. PICK N \in Nat : N = Len(m.games)
  OBVIOUS
<1>2. PICK step : step = [x \in (Int \X Int) \X (1..N) |->
                            IF m.games[x[2]] \in {m.f1, m.f2}
                            THEN Both(x[1], Score(m, m.games[x[2]]), MAP_ELO_K) ELSE x[1]]
  OBVIOUS
<1>3. ASSUME NEW q \in Int \X Int, NEW w
      PROVE  /\ Both(q, Score(m, w), MAP_ELO_K) \in Int \X Int
             /\ Both(q, Score(m, w), MAP_ELO_K)[1] + Both(q, Score(m, w), MAP_ELO_K)[2] = q[1] + q[2]
  <2>2. Score(m, w) \in {0, 1} /\ MAP_ELO_K \in Nat
    BY DEF Score, MAP_ELO_K
  <2>3. PICK s \in {0, 1}, k \in Nat : s = Score(m, w) /\ k = MAP_ELO_K
    BY <2>2
  <2>4. Both(q, s, k) \in Int \X Int /\ Both(q, s, k)[1] + Both(q, s, k)[2] = q[1] + q[2]
    BY BothMove
  <2> QED BY <2>3, <2>4
<1>4. step \in StepsOver(N, Int \X Int)
  BY <1>2, <1>3 DEF StepsOver
<1> DEFINE UpTo(f) == f = [n \in 0..Len(m.games) |->
                              IF n = 0 THEN pair
                              ELSE IF m.games[n] \in {m.f1, m.f2}
                                   THEN Both(f[n - 1], Score(m, m.games[n]), MAP_ELO_K)
                              ELSE f[n - 1]]
<1>5. \E f : UpTo(f)
  <2>1. PICK f : Trails(f, N, Int \X Int, pair, step)
    <3> HIDE DEF UpTo
    <3> QED BY <1>4, Stepwise
  <2>2. f \in [0..N -> Int \X Int] /\ f[0] = pair /\ \A n \in 1..N : f[n] = step[<<f[n - 1], n>>]
    <3> HIDE DEF UpTo
    <3> QED BY <2>1 DEF Trails
  <2>3. \A n \in 0..N : f[n] = IF n = 0 THEN pair
                               ELSE IF m.games[n] \in {m.f1, m.f2}
                                    THEN Both(f[n - 1], Score(m, m.games[n]), MAP_ELO_K)
                               ELSE f[n - 1]
    <3> TAKE n \in 0..N
    <3>1. CASE n = 0
      BY <2>2, <3>1
    <3>2. CASE n # 0
      <4>1. n \in 1..N /\ n - 1 \in 0..N
        BY <3>2
      <4>2. <<f[n - 1], n>> \in (Int \X Int) \X (1..N)
        BY <2>2, <4>1
      <4>3. step[<<f[n - 1], n>>] = IF m.games[n] \in {m.f1, m.f2}
                                    THEN Both(f[n - 1], Score(m, m.games[n]), MAP_ELO_K) ELSE f[n - 1]
        BY <1>2, <4>2
      <4> QED BY <2>2, <3>2, <4>1, <4>3
    <3> QED BY <3>1, <3>2
  <2>4. f = [n \in 0..N |-> f[n]]
    BY <2>2
  <2>5. UpTo(f)
    BY <1>1, <2>3, <2>4, Zenon
  <2> HIDE DEF UpTo
  <2> QED BY <2>5
<1>6. PICK upTo : upTo = CHOOSE f : UpTo(f)
  OBVIOUS
<1>7. UpTo(upTo)
  <2> HIDE DEF UpTo
  <2> QED BY <1>5, <1>6
<1>8. p = IF m.walkover THEN pair ELSE upTo[N]
  <2>1. OverMaps(pair, m) = IF m.walkover THEN pair ELSE (CHOOSE f : UpTo(f))[Len(m.games)]
    BY Zenon DEF OverMaps
  <2> HIDE DEF UpTo
  <2> QED BY <1>1, <1>6, <2>1
<1>9. /\ upTo[0] = pair
      /\ \A n \in 1..N : upTo[n] = IF m.games[n] \in {m.f1, m.f2}
                                   THEN Both(upTo[n - 1], Score(m, m.games[n]), MAP_ELO_K) ELSE upTo[n - 1]
  <2>1. upTo[0] = pair
    BY <1>1, <1>7
  <2>2. ASSUME NEW n \in 1..N
        PROVE  upTo[n] = IF m.games[n] \in {m.f1, m.f2}
                         THEN Both(upTo[n - 1], Score(m, m.games[n]), MAP_ELO_K) ELSE upTo[n - 1]
    <3>1. n \in 0..N /\ n # 0
      BY <1>1
    <3> QED BY <1>1, <1>7, <3>1
  <2> QED BY <2>1, <2>2
<1> HIDE DEF UpTo
<1>10. PICK Good : Good = {n \in 0..N : upTo[n] \in Int \X Int /\ upTo[n][1] + upTo[n][2] = pair[1] + pair[2]}
  OBVIOUS
<1>11. 0 \in Good
  BY <1>9, <1>10
<1>12. ASSUME NEW n \in 1..N, n - 1 \in Good PROVE n \in Good
  <2>1. PICK q \in Int \X Int : q = upTo[n - 1] /\ q[1] + q[2] = pair[1] + pair[2]
    BY <1>10, <1>12
  <2>2. PICK w : w = m.games[n]
    OBVIOUS
  <2>3. upTo[n] = Both(q, Score(m, w), MAP_ELO_K) \/ upTo[n] = q
    BY <1>9, <2>1, <2>2
  <2>4. upTo[n] \in Int \X Int /\ upTo[n][1] + upTo[n][2] = q[1] + q[2]
    BY <1>3, <2>3
  <2> QED BY <1>10, <2>1, <2>4
<1>13. N \in Good
  <2>1. 0..N \subseteq Good
    BY <1>11, <1>12, Reached
  <2> QED BY <2>1
<1> QED BY <1>8, <1>10, <1>13

\* Where two terms change and their sum does not, no more does the sum over all.
LEMMA TwoChange ==
    ASSUME NEW Xs, IsFiniteSet(Xs), NEW f, NEW g, Ints(Xs, f), Ints(Xs, g),
           NEW a \in Xs, NEW b \in Xs, a # b, f[a] + f[b] = g[a] + g[b],
           \A x \in Xs : x \notin {a, b} => f[x] = g[x]
    PROVE  SumOver(Xs, f) = SumOver(Xs, g)
<1>1. PICK Ys, Zs : Ys = Xs \ {a} /\ Zs = Ys \ {b}
  OBVIOUS
<1>2. IsFiniteSet(Ys) /\ IsFiniteSet(Zs) /\ b \in Ys
  BY <1>1, FS_RemoveElement
<1>3. Ints(Ys, f) /\ Ints(Ys, g) /\ Ints(Zs, f) /\ Ints(Zs, g)
  BY <1>1 DEF Ints
<1>4. SumOver(Xs, f) = f[a] + SumOver(Ys, f) /\ SumOver(Xs, g) = g[a] + SumOver(Ys, g)
  BY <1>1, SumAdds
<1>5. SumOver(Ys, f) = f[b] + SumOver(Zs, f) /\ SumOver(Ys, g) = g[b] + SumOver(Zs, g)
  BY <1>1, <1>2, <1>3, SumAdds
<1>6. SumOver(Zs, f) = SumOver(Zs, g) /\ SumOver(Zs, f) \in Int
  <2>1. \A x \in Zs : f[x] = g[x]
    BY <1>1
  <2> QED BY <1>2, <1>3, <2>1, SumsCompare, SumAdds
<1>7. f[a] \in Int /\ f[b] \in Int /\ g[a] \in Int /\ g[b] \in Int
  BY DEF Ints
<1> QED BY <1>4, <1>5, <1>6, <1>7

\* The ratings of the teams of a set of matches.
TeamsOf(ms) == UNION {{m.f1, m.f2} : m \in ms}
RatingsOf(ms) == [TeamsOf(ms) -> [rating : Int, mapRating : Int, n : Nat]]
SeriesPoints(ms, r) == SumOver(TeamsOf(ms), [t \in TeamsOf(ms) |-> r[t].rating])
MapPoints(ms, r) == SumOver(TeamsOf(ms), [t \in TeamsOf(ms) |-> r[t].mapRating])

\* What a match makes of them.
LEMMA MatchMoves ==
    ASSUME NEW ms, IsLadder(ms), IsFiniteSet(TeamsOf(ms)), NEW m \in ms, NEW r \in RatingsOf(ms),
           NEW q, q = PlayedOut(r, m)
    PROVE  /\ q \in RatingsOf(ms)
           /\ SeriesPoints(ms, q) = SeriesPoints(ms, r) /\ MapPoints(ms, q) = MapPoints(ms, r)
           /\ \A t \in TeamsOf(ms) :
                /\ t \notin {m.f1, m.f2} \/ m.walkover => q[t].mapRating = r[t].mapRating
                /\ t \notin {m.f1, m.f2} => q[t].rating = r[t].rating
                /\ m.winner = t => q[t].rating >= r[t].rating
                /\ m.winner # t => q[t].rating <= r[t].rating
<1>1. m.f1 # m.f2 /\ m.games \in Seq(Range(m.games)) /\ m.f1 \in TeamsOf(ms) /\ m.f2 \in TeamsOf(ms)
  BY DEF IsLadder, TeamsOf
<1>2. PICK a \in Int, b \in Int, c \in Int, d \in Int :
        a = r[m.f1].rating /\ b = r[m.f2].rating /\ c = r[m.f1].mapRating /\ d = r[m.f2].mapRating
  BY <1>1 DEF RatingsOf
<1>3. PICK decided, n, maps, series :
        /\ decided = (m.winner \in {m.f1, m.f2}) /\ n = (IF decided THEN 1 ELSE 0)
        /\ maps = OverMaps(<<c, d>>, m)
        /\ series = IF decided THEN Both(<<a, b>>, Score(m, m.winner), SERIES_ELO_K) ELSE <<a, b>>
  OBVIOUS
<1>4. q = [r EXCEPT ![m.f1] = [rating |-> series[1], mapRating |-> maps[1], n |-> @.n + n],
                    ![m.f2] = [rating |-> series[2], mapRating |-> maps[2], n |-> @.n + n]]
  BY <1>2, <1>3 DEF PlayedOut
<1>5. maps \in Int \X Int /\ maps[1] + maps[2] = c + d /\ (m.walkover => maps = <<c, d>>)
  <2>1. PICK pair \in Int \X Int : pair = <<c, d>>
    OBVIOUS
  <2>2. maps = OverMaps(pair, m)
    BY <1>3, <2>1
  <2>3. maps \in Int \X Int /\ maps[1] + maps[2] = pair[1] + pair[2] /\ (m.walkover => maps = pair)
    BY <1>1, <2>2, MapsMove
  <2> QED BY <2>1, <2>3
<1>6. /\ series \in Int \X Int /\ series[1] + series[2] = a + b
      /\ m.winner = m.f1 => series[1] >= a /\ series[2] <= b
      /\ m.winner = m.f2 => series[1] <= a /\ series[2] >= b
      /\ m.winner \notin {m.f1, m.f2} => series = <<a, b>>
  <2>1. CASE decided
    <3>1. PICK s \in {0, 1}, k \in Nat : s = Score(m, m.winner) /\ k = SERIES_ELO_K
      BY DEF Score, SERIES_ELO_K
    <3>2. (m.winner = m.f1 => s = 1) /\ (m.winner = m.f2 => s = 0)
      BY <1>1, <3>1 DEF Score
    <3>3. series = Both(<<a, b>>, s, k)
      BY <1>3, <2>1, <3>1
    <3>4. /\ series \in Int \X Int /\ series[1] + series[2] = a + b
          /\ s = 1 => series[1] >= a /\ series[2] <= b
          /\ s = 0 => series[1] <= a /\ series[2] >= b
      <4>1. PICK p \in Int \X Int : p = <<a, b>> /\ p[1] = a /\ p[2] = b
        <5>1. PICK p : p = <<a, b>>
          OBVIOUS
        <5>2. p \in Int \X Int /\ p[1] = a /\ p[2] = b
          BY <5>1
        <5> QED BY <5>1, <5>2
      <4>2. /\ Both(p, s, k) \in Int \X Int /\ Both(p, s, k)[1] + Both(p, s, k)[2] = p[1] + p[2]
            /\ s = 1 => Both(p, s, k)[1] >= p[1] /\ Both(p, s, k)[2] <= p[2]
            /\ s = 0 => Both(p, s, k)[1] <= p[1] /\ Both(p, s, k)[2] >= p[2]
        BY BothMove
      <4> QED BY <3>3, <4>1, <4>2
    <3> QED BY <1>3, <2>1, <3>2, <3>4
  <2>2. CASE ~decided
    BY <1>3, <2>2
  <2> QED BY <2>1, <2>2
<1>7. n \in Nat /\ DOMAIN r = TeamsOf(ms) /\ \A t \in TeamsOf(ms) : r[t] \in [rating : Int, mapRating : Int, n : Nat]
  BY <1>3 DEF RatingsOf
<1>8. /\ q[m.f1] = [rating |-> series[1], mapRating |-> maps[1], n |-> r[m.f1].n + n]
      /\ q[m.f2] = [rating |-> series[2], mapRating |-> maps[2], n |-> r[m.f2].n + n]
      /\ DOMAIN q = TeamsOf(ms) /\ \A t \in TeamsOf(ms) : t \notin {m.f1, m.f2} => q[t] = r[t]
  BY <1>1, <1>4, <1>7
<1>9. q \in RatingsOf(ms)
  <2>1. r[m.f1].n + n \in Nat /\ r[m.f2].n + n \in Nat
    BY <1>1, <1>7
  <2>2. \A t \in TeamsOf(ms) : q[t] \in [rating : Int, mapRating : Int, n : Nat]
    BY <1>5, <1>6, <1>7, <1>8, <2>1
  <2>3. q = [t \in TeamsOf(ms) |-> q[t]]
    BY <1>4, <1>7
  <2> QED BY <2>2, <2>3 DEF RatingsOf
<1>10. /\ q[m.f1].rating = series[1] /\ q[m.f2].rating = series[2]
       /\ q[m.f1].mapRating = maps[1] /\ q[m.f2].mapRating = maps[2]
  BY <1>8
<1>11. PICK rs, ns, rm, nm :
         /\ rs = [t \in TeamsOf(ms) |-> r[t].rating] /\ ns = [t \in TeamsOf(ms) |-> q[t].rating]
         /\ rm = [t \in TeamsOf(ms) |-> r[t].mapRating] /\ nm = [t \in TeamsOf(ms) |-> q[t].mapRating]
  OBVIOUS
<1>12. Ints(TeamsOf(ms), rs) /\ Ints(TeamsOf(ms), ns) /\ Ints(TeamsOf(ms), rm) /\ Ints(TeamsOf(ms), nm)
  BY <1>7, <1>9, <1>11 DEF Ints, RatingsOf
<1>13. SumOver(TeamsOf(ms), ns) = SumOver(TeamsOf(ms), rs)
  <2>1. ns[m.f1] + ns[m.f2] = rs[m.f1] + rs[m.f2]
    BY <1>1, <1>2, <1>6, <1>10, <1>11
  <2>2. \A t \in TeamsOf(ms) : t \notin {m.f1, m.f2} => ns[t] = rs[t]
    BY <1>8, <1>11
  <2> QED BY <1>1, <1>12, <2>1, <2>2, TwoChange
<1>14. SumOver(TeamsOf(ms), nm) = SumOver(TeamsOf(ms), rm)
  <2>1. nm[m.f1] + nm[m.f2] = rm[m.f1] + rm[m.f2]
    BY <1>1, <1>2, <1>5, <1>10, <1>11
  <2>2. \A t \in TeamsOf(ms) : t \notin {m.f1, m.f2} => nm[t] = rm[t]
    BY <1>8, <1>11
  <2> QED BY <1>1, <1>12, <2>1, <2>2, TwoChange
<1>15. ASSUME NEW t \in TeamsOf(ms)
       PROVE  /\ t \notin {m.f1, m.f2} \/ m.walkover => q[t].mapRating = r[t].mapRating
              /\ t \notin {m.f1, m.f2} => q[t].rating = r[t].rating
              /\ m.winner = t => q[t].rating >= r[t].rating
              /\ m.winner # t => q[t].rating <= r[t].rating
  <2>0. r[t].rating \in Int
    BY <1>7
  <2>1. CASE t = m.f1
    <3>1. m.walkover => q[t].mapRating = r[t].mapRating
      BY <1>2, <1>5, <1>10, <2>1
    <3>2. (m.winner = t => q[t].rating >= r[t].rating) /\ (m.winner # t => q[t].rating <= r[t].rating)
      <4>1. PICK x \in Int, y \in Int : x = series[1] /\ y = series[2]
        BY <1>6
      <4>2. q[t].rating = series[1] /\ r[t].rating = a
        BY <1>2, <1>10, <2>1
      <4> QED BY <1>1, <1>2, <1>6, <2>1, <4>1, <4>2
    <3> QED BY <2>1, <3>1, <3>2
  <2>2. CASE t = m.f2
    <3>1. m.walkover => q[t].mapRating = r[t].mapRating
      BY <1>2, <1>5, <1>10, <2>2
    <3>2. (m.winner = t => q[t].rating >= r[t].rating) /\ (m.winner # t => q[t].rating <= r[t].rating)
      <4>1. PICK x \in Int, y \in Int : x = series[1] /\ y = series[2]
        BY <1>6
      <4>2. q[t].rating = series[2] /\ r[t].rating = b
        BY <1>2, <1>10, <2>2
      <4> QED BY <1>1, <1>2, <1>6, <2>2, <4>1, <4>2
    <3> QED BY <2>2, <3>1, <3>2
  <2>3. CASE t \notin {m.f1, m.f2}
    BY <1>8, <2>0, <2>3
  <2> QED BY <2>1, <2>2, <2>3
<1> QED BY <1>9, <1>11, <1>13, <1>14, <1>15 DEF SeriesPoints, MapPoints

\* The matches a team did not win, and those it won.
NotWon(ms, t) == {m \in ms : t \in {m.f1, m.f2} /\ m.winner # t}
MatchesWon(ms, t) == {m \in ms : m.winner = t}

\* What holds after any number of matches.
EloInv(ms, r) ==
    /\ r \in RatingsOf(ms)
    /\ SeriesPoints(ms, r) = ELO_START * Cardinality(TeamsOf(ms))
    /\ MapPoints(ms, r) = ELO_START * Cardinality(TeamsOf(ms))
    /\ \A t \in TeamsOf(ms) : /\ (\A m \in ms : t \in {m.f1, m.f2} => m.walkover) => r[t].mapRating = ELO_START
                              /\ NotWon(ms, t) = {} => r[t].rating >= ELO_START
                              /\ MatchesWon(ms, t) = {} => r[t].rating <= ELO_START

\* The teams are finitely many, and begin alike.
LEMMA EloBegins ==
    ASSUME NEW ms, IsLadder(ms)
    PROVE  IsFiniteSet(TeamsOf(ms)) /\ EloInv(ms, Unrated(ms))
<1>1. IsFiniteSet(TeamsOf(ms))
  <2>1. IsFiniteSet({{m.f1, m.f2} : m \in ms})
    <3>1. IsFiniteSet(ms)
      BY DEF IsLadder
    <3>2. PICK g : g = [m \in ms |-> {m.f1, m.f2}]
      OBVIOUS
    <3>3. {{m.f1, m.f2} : m \in ms} = Image(ms, g)
      BY <3>2 DEF Image
    <3>4. IsFiniteSet(Image(ms, g))
      BY <3>1, ImageOf
    <3> QED BY <3>3, <3>4
  <2>2. \A S \in {{m.f1, m.f2} : m \in ms} : IsFiniteSet(S)
    <3> TAKE S \in {{m.f1, m.f2} : m \in ms}
    <3>1. PICK a, b : S = {a} \cup {b}
      OBVIOUS
    <3>2. IsFiniteSet({a}) /\ IsFiniteSet({b})
      BY FS_Singleton
    <3> QED BY <3>1, <3>2, FS_Union
  <2> QED BY <2>1, <2>2, FS_UNION DEF TeamsOf
<1>2. PICK Ts, r : Ts = TeamsOf(ms) /\ r = Unrated(ms)
  OBVIOUS
<1>3. r = [t \in Ts |-> [rating |-> ELO_START, mapRating |-> ELO_START, n |-> 0]]
  BY <1>2 DEF Unrated, TeamsOf
<1>4. r \in RatingsOf(ms) /\ \A t \in Ts : r[t].rating = ELO_START /\ r[t].mapRating = ELO_START
  BY <1>2, <1>3 DEF RatingsOf, ELO_START
<1>5. PICK ones, all : ones = [t \in Ts |-> 1] /\ all = [t \in Ts |-> ELO_START]
  OBVIOUS
<1>6. SumOver(Ts, ones) = Cardinality(Ts)
  BY <1>1, <1>2, <1>5, SumOfOnes
<1>7. SumOver(Ts, all) = ELO_START * Cardinality(Ts)
  <2>1. Ints(Ts, ones) /\ ELO_START \in Int
    BY <1>5 DEF Ints, ELO_START
  <2>2. PICK e \in Int : e = ELO_START
    BY <2>1
  <2>3. \A t \in Ts : all[t] = e * ones[t]
    BY <1>5, <2>2
  <2>4. SumOver(Ts, all) = e * SumOver(Ts, ones)
    BY <1>1, <1>2, <2>1, <2>3, SumScales
  <2> QED BY <1>6, <2>2, <2>4
<1>8. SeriesPoints(ms, r) = SumOver(Ts, all) /\ MapPoints(ms, r) = SumOver(Ts, all)
  <2>1. all = [t \in Ts |-> r[t].rating] /\ all = [t \in Ts |-> r[t].mapRating]
    BY <1>4, <1>5
  <2> QED BY <1>2, <2>1 DEF SeriesPoints, MapPoints
<1>9. EloInv(ms, r)
  BY <1>2, <1>4, <1>7, <1>8 DEF EloInv, ELO_START
<1> QED BY <1>1, <1>2, <1>9

\* A match keeps it.
LEMMA EloKeeps ==
    ASSUME NEW ms, IsLadder(ms), NEW m \in ms, NEW r, EloInv(ms, r)
    PROVE  EloInv(ms, PlayedOut(r, m))
<1>1. PICK q : q = PlayedOut(r, m)
  OBVIOUS
<1>2. IsFiniteSet(TeamsOf(ms)) /\ r \in RatingsOf(ms)
  BY EloBegins DEF EloInv
<1>3. /\ q \in RatingsOf(ms)
      /\ SeriesPoints(ms, q) = SeriesPoints(ms, r) /\ MapPoints(ms, q) = MapPoints(ms, r)
      /\ \A t \in TeamsOf(ms) :
           /\ t \notin {m.f1, m.f2} \/ m.walkover => q[t].mapRating = r[t].mapRating
           /\ t \notin {m.f1, m.f2} => q[t].rating = r[t].rating
           /\ m.winner = t => q[t].rating >= r[t].rating
           /\ m.winner # t => q[t].rating <= r[t].rating
  BY <1>1, <1>2, MatchMoves
<1>4. ASSUME NEW t \in TeamsOf(ms)
      PROVE  /\ (\A l \in ms : t \in {l.f1, l.f2} => l.walkover) => q[t].mapRating = ELO_START
             /\ NotWon(ms, t) = {} => q[t].rating >= ELO_START
             /\ MatchesWon(ms, t) = {} => q[t].rating <= ELO_START
  <2>1. q[t].rating \in Int /\ r[t].rating \in Int /\ ELO_START \in Int
    BY <1>2, <1>3 DEF RatingsOf, ELO_START
  <2>2. /\ (\A l \in ms : t \in {l.f1, l.f2} => l.walkover) => r[t].mapRating = ELO_START
        /\ NotWon(ms, t) = {} => r[t].rating >= ELO_START
        /\ MatchesWon(ms, t) = {} => r[t].rating <= ELO_START
    BY DEF EloInv
  <2>3. (\A l \in ms : t \in {l.f1, l.f2} => l.walkover) => q[t].mapRating = r[t].mapRating
    BY <1>3
  <2>4. ASSUME NotWon(ms, t) = {} PROVE q[t].rating >= r[t].rating
    <3>1. t \notin {m.f1, m.f2} \/ m.winner = t
      BY <2>4 DEF NotWon
    <3> QED BY <1>3, <2>1, <3>1
  <2>5. ASSUME MatchesWon(ms, t) = {} PROVE q[t].rating <= r[t].rating
    <3>1. m.winner # t
      BY <2>5 DEF MatchesWon
    <3> QED BY <1>3, <3>1
  <2> QED BY <2>1, <2>2, <2>3, <2>4, <2>5
<1>5. EloInv(ms, q)
  BY <1>3, <1>4 DEF EloInv
<1> QED BY <1>1, <1>5

\* In the order they were played the matches follow one another, each once.
LEMMA TimesList ==
    ASSUME NEW ms, IsLadder(ms)
    PROVE  Len(ByTime(ms)) \in Nat /\ \A n \in 1..Len(ByTime(ms)) : ByTime(ms)[n] \in ms
<1>1. PICK order : order = {p \in ms \X ms : p[1].at < p[2].at}
  OBVIOUS
<1>2. IsFiniteSet(ms) /\ (\A m \in ms : m.at \in Int) /\ \A m, l \in ms : m.at = l.at => m = l
  BY DEF IsLadder
<1>3. \A x, y \in ms : <<x, y>> \in order <=> x.at < y.at
  BY <1>1
<1>4. Orders(order, ms)
  BY <1>2, <1>3 DEF Orders
<1>5. PICK list : list = ByTime(ms)
  OBVIOUS
<1>6. \A m \in ms : {l \in ms : l.at < m.at} = {l \in ms : <<l, m>> \in order}
  BY <1>3
<1>7. list = [n \in 1..Cardinality(ms) |-> CHOOSE m \in ms : NoBefore(order, ms, m) = n - 1]
  <2>1. \A m \in ms : Cardinality({l \in ms : l.at < m.at}) = NoBefore(order, ms, m)
    BY <1>6 DEF NoBefore
  <2>2. \A n \in 1..Cardinality(ms) :
          (CHOOSE m \in ms : Cardinality({l \in ms : l.at < m.at}) = n - 1)
            = CHOOSE m \in ms : NoBefore(order, ms, m) = n - 1
    <3> TAKE n \in 1..Cardinality(ms)
    <3>1. \A m : (m \in ms /\ Cardinality({l \in ms : l.at < m.at}) = n - 1)
                   <=> (m \in ms /\ NoBefore(order, ms, m) = n - 1)
      BY <2>1
    <3> QED BY <3>1
  <2>3. list = [n \in 1..Cardinality(ms) |-> CHOOSE m \in ms : Cardinality({l \in ms : l.at < m.at}) = n - 1]
    BY <1>5 DEF ByTime
  <2>4. PICK other : other = [n \in 1..Cardinality(ms) |-> CHOOSE m \in ms : NoBefore(order, ms, m) = n - 1]
    OBVIOUS
  <2>5. \A n \in 1..Cardinality(ms) : list[n] = other[n]
    <3> TAKE n \in 1..Cardinality(ms)
    <3>1. list[n] = CHOOSE m \in ms : Cardinality({l \in ms : l.at < m.at}) = n - 1
      BY <2>3
    <3>2. other[n] = CHOOSE m \in ms : NoBefore(order, ms, m) = n - 1
      BY <2>4
    <3> QED BY <2>2, <3>1, <3>2, Zenon
  <2>6. list = other
    BY <2>3, <2>4, <2>5
  <2> QED BY <2>4, <2>6
<1>8. Lists(order, ms, list)
  BY <1>4, <1>7 DEF Lists
<1>9. Cardinality(ms) \in Nat /\ list \in [1..Cardinality(ms) -> ms]
  BY <1>2, <1>8, Listed
<1>10. Len(list) = Cardinality(ms)
  BY <1>7, <1>9
<1> QED BY <1>5, <1>9, <1>10

\* pure.js powerRankings: whatever matches were played, elo points only change hands.
THEOREM EloAlwaysMoves ==
    ASSUME NEW ms, IsLadder(ms)
    PROVE  EloIsMoved(ms)
<1>0. PICK list : list = ByTime(ms)
  OBVIOUS
<1>1. PICK N \in Nat : N = Len(list) /\ \A n \in 1..N : list[n] \in ms
  BY <1>0, TimesList
<1>2. PICK Rs : Rs = {r \in RatingsOf(ms) : EloInv(ms, r)}
  OBVIOUS
<1>3. PICK base : base = Unrated(ms) /\ base \in Rs
  BY <1>2, EloBegins DEF EloInv
<1>4. PICK step : step = [x \in Rs \X (1..N) |-> PlayedOut(x[1], list[x[2]])]
  OBVIOUS
<1>5. step \in StepsOver(N, Rs)
  <2>1. \A r \in Rs, n \in 1..N : PlayedOut(r, list[n]) \in Rs
    <3> TAKE r \in Rs, n \in 1..N
    <3>1. EloInv(ms, PlayedOut(r, list[n]))
      BY <1>1, <1>2, EloKeeps
    <3> QED BY <1>2, <3>1 DEF EloInv
  <2> QED BY <1>4, <2>1 DEF StepsOver
<1> DEFINE UpTo(f) == f = [n \in 0..N |-> IF n = 0 THEN Unrated(ms) ELSE PlayedOut(f[n - 1], list[n])]
<1>6. \E f : UpTo(f)
  <2>1. PICK f : Trails(f, N, Rs, base, step)
    <3> HIDE DEF UpTo
    <3> QED BY <1>3, <1>5, Stepwise
  <2>2. f \in [0..N -> Rs] /\ f[0] = base /\ \A n \in 1..N : f[n] = step[<<f[n - 1], n>>]
    <3> HIDE DEF UpTo
    <3> QED BY <2>1 DEF Trails
  <2>3. \A n \in 0..N : f[n] = IF n = 0 THEN Unrated(ms) ELSE PlayedOut(f[n - 1], list[n])
    <3> TAKE n \in 0..N
    <3>1. CASE n = 0
      BY <1>3, <2>2, <3>1
    <3>2. CASE n # 0
      <4>1. n \in 1..N /\ n - 1 \in 0..N
        BY <3>2
      <4>2. <<f[n - 1], n>> \in Rs \X (1..N)
        BY <2>2, <4>1
      <4>3. step[<<f[n - 1], n>>] = PlayedOut(f[n - 1], list[n])
        BY <1>4, <4>2
      <4> QED BY <2>2, <3>2, <4>1, <4>3
    <3> QED BY <3>1, <3>2
  <2>4. f = [n \in 0..N |-> f[n]]
    BY <2>2
  <2>5. UpTo(f)
    BY <2>3, <2>4, Zenon
  <2> HIDE DEF UpTo
  <2> QED BY <2>5
<1>7. PICK upTo : upTo = CHOOSE f : UpTo(f)
  OBVIOUS
<1>8. UpTo(upTo)
  <2> HIDE DEF UpTo
  <2> QED BY <1>6, <1>7
<1>9. powerRankings(ms) = upTo[N]
  BY <1>0, <1>1, <1>7, Zenon DEF powerRankings
<1>10. upTo[0] = base /\ \A n \in 1..N : upTo[n] = PlayedOut(upTo[n - 1], list[n])
  BY <1>3, <1>8
<1> HIDE DEF UpTo
<1>11. PICK Good : Good = {n \in 0..N : EloInv(ms, upTo[n])}
  OBVIOUS
<1>12. N \in Good
  <2>1. 0 \in Good
    BY <1>2, <1>3, <1>10, <1>11
  <2>2. ASSUME NEW n \in 1..N, n - 1 \in Good PROVE n \in Good
    BY <1>1, <1>10, <1>11, <2>2, EloKeeps
  <2>3. 0..N \subseteq Good
    BY <2>1, <2>2, Reached
  <2> QED BY <2>3
<1>13. PICK r : r = powerRankings(ms) /\ EloInv(ms, r)
  BY <1>9, <1>11, <1>12
<1>14. DOMAIN r = TeamsOf(ms) /\ \A t \in TeamsOf(ms) : r[t].rating \in Int
  BY <1>13 DEF EloInv, RatingsOf
<1>15. /\ SumOver(DOMAIN r, [t \in DOMAIN r |-> r[t].rating]) = ELO_START * Cardinality(DOMAIN r)
       /\ SumOver(DOMAIN r, [t \in DOMAIN r |-> r[t].mapRating]) = ELO_START * Cardinality(DOMAIN r)
  BY <1>13, <1>14 DEF EloInv, SeriesPoints, MapPoints
<1>16. \A t \in DOMAIN r : (\A m \in ms : t \in {m.f1, m.f2} => m.walkover) => r[t].mapRating = ELO_START
  BY <1>13, <1>14 DEF EloInv
<1>17. ASSUME NEW t \in DOMAIN r, NEW u \in DOMAIN r, NotWon(ms, t) = {}, MatchesWon(ms, u) = {}
       PROVE  r[t].rating >= r[u].rating
  <2>1. r[t].rating >= ELO_START /\ r[u].rating <= ELO_START
    BY <1>13, <1>14, <1>17 DEF EloInv
  <2> QED BY <1>14, <2>1 DEF ELO_START
<1> QED BY <1>13, <1>15, <1>16, <1>17 DEF EloIsMoved, Ranked, NotWon, MatchesWon

-----------------------------------------------------------------------------
(* Double sums, and roots *)

\* A sum over some is the one over all that takes nothing of the others.
LEMMA SumPads ==
    ASSUME NEW Xs, IsFiniteSet(Xs), NEW Ys, Ys \subseteq Xs, NEW f, Ints(Ys, f),
           NEW g, \A x \in Xs : g[x] = IF x \in Ys THEN f[x] ELSE 0
    PROVE  SumOver(Xs, g) = SumOver(Ys, f)
<1> DEFINE Good == {Rs \in SUBSET Xs : SumOver(Rs, g) = SumOver(Rs \cap Ys, f)}
<1>1. {} \in Good
  <2>1. {} \cap Ys = {}
    OBVIOUS
  <2> QED BY <2>1, SumOfNone
<1>2. ASSUME NEW Rs \in SUBSET Xs, NEW x \in Xs \ Rs, Rs \in Good
      PROVE  Rs \cup {x} \in Good
  <2>1. IsFiniteSet(Rs) /\ IsFiniteSet(Rs \cap Ys)
    BY FS_Subset
  <2>3. SumOver(Rs, g) = SumOver(Rs \cap Ys, f)
    BY <1>2
  <2>4. CASE x \in Ys
    <3>1. (Rs \cup {x}) \cap Ys = (Rs \cap Ys) \cup {x} /\ x \notin Rs \cap Ys
      BY <2>4
    <3>2. Ints(Rs \cup {x}, g) /\ Ints((Rs \cap Ys) \cup {x}, f)
      BY <2>4 DEF Ints
    <3>3. SumOver(Rs \cup {x}, g) = g[x] + SumOver(Rs, g)
      BY <2>1, <3>2, SumGrows
    <3>4. SumOver((Rs \cap Ys) \cup {x}, f) = f[x] + SumOver(Rs \cap Ys, f)
      BY <2>1, <3>1, <3>2, SumGrows
    <3> QED BY <2>3, <2>4, <3>1, <3>3, <3>4
  <2>5. CASE x \notin Ys
    <3>1. (Rs \cup {x}) \cap Ys = Rs \cap Ys
      BY <2>5
    <3>2. Ints(Rs \cup {x}, g) /\ Ints(Rs, g) /\ g[x] = 0
      BY <2>5 DEF Ints
    <3>3. SumOver(Rs \cup {x}, g) = g[x] + SumOver(Rs, g)
      BY <2>1, <3>2, SumGrows
    <3>5. SumOver(Rs, g) \in Int
      BY <2>1, <3>2, SumAdds
    <3>4. SumOver(Rs \cup {x}, g) = SumOver(Rs, g)
      BY <3>2, <3>3, <3>5
    <3> QED BY <2>3, <3>1, <3>4
  <2> QED BY <2>4, <2>5
<1> HIDE DEF Good
<1>3. Xs \in Good
  BY <1>1, <1>2, OneByOne
<1>4. Xs \cap Ys = Ys
  OBVIOUS
<1> QED BY <1>3, <1>4 DEF Good

\* What a table holds is summed by its rows or by its columns.
Row(h, Ys, x) == SumOver(Ys, [y \in Ys |-> h[<<x, y>>]])
Column(h, Xs, y) == SumOver(Xs, [x \in Xs |-> h[<<x, y>>]])

LEMMA SumsSwap ==
    ASSUME NEW Xs, IsFiniteSet(Xs), NEW Ys, IsFiniteSet(Ys), NEW h, \A x \in Xs, y \in Ys : h[<<x, y>>] \in Int
    PROVE  SumOver(Xs, [x \in Xs |-> Row(h, Ys, x)]) = SumOver(Ys, [y \in Ys |-> Column(h, Xs, y)])
<1>1. PICK rows : rows = [x \in Xs |-> Row(h, Ys, x)]
  OBVIOUS
<1> DEFINE Cols(Rs) == [y \in Ys |-> Column(h, Rs, y)]
           Good == {Rs \in SUBSET Xs : SumOver(Rs, rows) = SumOver(Ys, Cols(Rs))}
<1>2. ASSUME NEW Rs \in SUBSET Xs
      PROVE  IsFiniteSet(Rs) /\ Ints(Ys, Cols(Rs)) /\ Ints(Rs, rows)
  <2>1. IsFiniteSet(Rs)
    BY FS_Subset
  <2>2. ASSUME NEW y \in Ys PROVE Column(h, Rs, y) \in Int
    <3>1. PICK f : f = [x \in Rs |-> h[<<x, y>>]]
      OBVIOUS
    <3>2. Ints(Rs, f)
      BY <3>1 DEF Ints
    <3> QED BY <2>1, <3>1, <3>2, SumAdds DEF Column
  <2>3. ASSUME NEW x \in Rs PROVE rows[x] \in Int
    <3>1. PICK f : f = [y \in Ys |-> h[<<x, y>>]]
      OBVIOUS
    <3>2. Ints(Ys, f)
      BY <3>1 DEF Ints
    <3> QED BY <1>1, <3>1, <3>2, SumAdds DEF Row
  <2> QED BY <2>1, <2>2, <2>3 DEF Ints
<1>3. {} \in Good
  <2>1. \A y \in Ys : Cols({})[y] = 0
    <3> TAKE y \in Ys
    <3>1. Cols({})[y] = Column(h, {}, y)
      OBVIOUS
    <3> HIDE DEF Cols
    <3> QED BY <3>1, SumOfNone DEF Column
  <2>2. PICK c : c = Cols({})
    OBVIOUS
  <2>3. Ints(Ys, c) /\ \A y \in Ys : c[y] = 0 * c[y]
    BY <2>1, <2>2 DEF Ints
  <2>4. SumOver(Ys, c) = 0 * SumOver(Ys, c) /\ SumOver(Ys, c) \in Int
    BY <2>3, SumScales, SumAdds
  <2> HIDE DEF Cols
  <2> QED BY <2>2, <2>4, SumOfNone
<1>4. ASSUME NEW Rs \in SUBSET Xs, NEW x \in Xs \ Rs, Rs \in Good
      PROVE  Rs \cup {x} \in Good
  <2>1. PICK old, new, row : old = Cols(Rs) /\ new = Cols(Rs \cup {x}) /\ row = [y \in Ys |-> h[<<x, y>>]]
    OBVIOUS
  <2>2. \A y \in Ys : row[y] = new[y] - old[y]
    <3> TAKE y \in Ys
    <3>1. PICK f, g : f = [v \in Rs |-> h[<<v, y>>]] /\ g = [v \in Rs \cup {x} |-> h[<<v, y>>]]
      OBVIOUS
    <3>2. Ints(Rs \cup {x}, g) /\ Ints(Rs, f) /\ Ints(Rs, g) /\ \A v \in Rs : f[v] = g[v]
      BY <3>1 DEF Ints
    <3>3. IsFiniteSet(Rs)
      BY <1>2
    <3>4. SumOver(Rs \cup {x}, g) = g[x] + SumOver(Rs, g)
      BY <3>2, <3>3, SumGrows
    <3>5. SumOver(Rs, f) = SumOver(Rs, g) /\ SumOver(Rs, f) \in Int
      BY <3>2, <3>3, SumsCompare, SumAdds
    <3>6. old[y] = SumOver(Rs, f) /\ new[y] = SumOver(Rs \cup {x}, g) /\ row[y] = g[x] /\ g[x] \in Int
      BY <2>1, <3>1 DEF Column
    <3> QED BY <3>4, <3>5, <3>6
  <2>3. Rs \cup {x} \in SUBSET Xs
    OBVIOUS
  <2>4. Ints(Ys, old) /\ Ints(Ys, new) /\ Ints(Rs \cup {x}, rows) /\ IsFiniteSet(Rs)
    BY <1>2, <2>1, <2>3
  <2>5. SumOver(Ys, row) = SumOver(Ys, new) - SumOver(Ys, old)
    BY <2>2, <2>4, SumsSubtract
  <2>6. SumOver(Rs \cup {x}, rows) = rows[x] + SumOver(Rs, rows)
    BY <2>4, SumGrows
  <2>7. rows[x] = SumOver(Ys, row)
    BY <1>1, <2>1 DEF Row
  <2>8. SumOver(Ys, new) \in Int /\ SumOver(Ys, old) \in Int
    BY <2>4, SumAdds
  <2>9. SumOver(Rs, rows) = SumOver(Ys, old)
    BY <1>4, <2>1
  <2>10. SumOver(Rs \cup {x}, rows) = SumOver(Ys, new)
    BY <2>5, <2>6, <2>7, <2>8, <2>9
  <2> HIDE DEF Cols
  <2> QED BY <2>1, <2>3, <2>10
<1> HIDE DEF Good
<1>5. Xs \in Good
  BY <1>3, <1>4, OneByOne
<1> QED BY <1>1, <1>5 DEF Good

\* The root of a number, rounded down, is there, and is not nothing where the number is not.
LEMMA RootIs ==
    ASSUME NEW n \in Nat
    PROVE  Root(n) \in Nat /\ (n > 0 => Root(n) > 0)
<1>1. PICK Rs : Rs = {r \in Nat : (r + 1) * (r + 1) > n}
  OBVIOUS
<1>2. n \in Rs
  BY <1>1
<1>3. PICK r \in Rs : \A s \in Rs : r <= s
  <2>1. Rs \subseteq Nat
    BY <1>1
  <2> QED BY <1>2, <2>1, LeastOf
<1>4. r \in 0..n
  BY <1>1, <1>2, <1>3
<1>5. r * r <= n
  <2>1. CASE r = 0
    BY <2>1
  <2>2. CASE r # 0
    <3>1. r - 1 \in Nat /\ r - 1 \notin Rs /\ (r - 1) + 1 = r
      BY <1>1, <1>3, <2>2
    <3>2. r * r \in Int /\ ~(r * r > n)
      BY <1>1, <3>1
    <3> QED BY <3>2
  <2> QED BY <2>1, <2>2
<1>6. \E s \in 0..n : s * s <= n /\ (s + 1) * (s + 1) > n
  BY <1>1, <1>3, <1>4, <1>5
<1>7. Root(n) \in 0..n /\ (Root(n) + 1) * (Root(n) + 1) > n
  BY <1>6 DEF Root
<1>8. n > 0 => Root(n) # 0
  BY <1>7
<1> QED BY <1>7, <1>8

-----------------------------------------------------------------------------
(* A stat against the mean of the group *)

\* The same number for each of finitely many things.
LEMMA SumOfSame ==
    ASSUME NEW Xs, IsFiniteSet(Xs), NEW c \in Int, NEW f, \A x \in Xs : f[x] = c
    PROVE  SumOver(Xs, f) = c * Cardinality(Xs) /\ Cardinality(Xs) \in Nat
<1>1. PICK ones : ones = [x \in Xs |-> 1]
  OBVIOUS
<1>2. SumOver(Xs, ones) = Cardinality(Xs)
  BY <1>1, SumOfOnes
<1>3. Ints(Xs, ones) /\ \A x \in Xs : f[x] = c * ones[x]
  BY <1>1 DEF Ints
<1>4. SumOver(Xs, f) = c * SumOver(Xs, ones)
  BY <1>3, SumScales
<1> QED BY <1>2, <1>4, FS_CardinalityType

\* The square of the sum of some numbers is no more than as often the sum of their squares.
LEMMA SpreadIs ==
    ASSUME NEW Xs, IsFiniteSet(Xs), NEW of, Ints(Xs, of), NEW n, n = Cardinality(Xs), NEW s, s = SumOver(Xs, of),
           NEW sq, sq = [x \in Xs |-> of[x] * of[x]], NEW q, q = SumOver(Xs, sq)
    PROVE  n \in Nat /\ s \in Int /\ q \in Int /\ n * q - s * s \in Nat
<1>1. n \in Nat /\ s \in Int /\ q \in Int /\ Ints(Xs, sq)
  <2>1. Ints(Xs, sq)
    <3>1. \A x \in Xs : of[x] * of[x] \in Int
      BY DEF Ints
    <3> QED BY <3>1 DEF Ints
  <2> QED BY <2>1, SumAdds, FS_CardinalityType
<1>2. CASE n = 0
  <2>1. Xs = {}
    BY <1>2, FS_EmptySet
  <2>2. s = 0
    BY <2>1, SumOfNone
  <2> QED BY <1>1, <1>2, <2>2
<1>3. CASE n > 0
  <2>1. PICK nn \in Int, ns \in Int, ss \in Int : nn = n * n /\ ns = 2 * (n * s) /\ ss = s * s
    <3>1. n * n \in Int /\ 2 * (n * s) \in Int /\ s * s \in Int
      BY <1>1
    <3> QED BY <3>1
  <2>2. PICK a, b, c, d, dev :
          /\ a = [x \in Xs |-> nn * sq[x]] /\ b = [x \in Xs |-> ns * of[x]] /\ c = [x \in Xs |-> -ss]
          /\ d = [x \in Xs |-> a[x] - b[x]] /\ dev = [x \in Xs |-> d[x] - c[x]]
    OBVIOUS
  <2>3. ASSUME NEW x \in Xs PROVE a[x] \in Int /\ b[x] \in Int /\ c[x] \in Int /\ d[x] \in Int /\ dev[x] \in Nat
    <3>1. PICK v \in Int : v = of[x] /\ sq[x] = v * v
      BY DEF Ints
    <3>2. v * v \in Int /\ nn * (v * v) \in Int /\ ns * v \in Int
      BY <3>1
    <3>3. a[x] = nn * (v * v) /\ b[x] = ns * v /\ c[x] = -ss /\ d[x] = a[x] - b[x] /\ dev[x] = d[x] - c[x]
      BY <2>2, <3>1
    <3>4. PICK y \in Int : y = n * v - s
      <4>1. n * v - s \in Int
        BY <1>1, <3>1
      <4> QED BY <4>1
    <3>5. y * y = nn * (v * v) - ns * v + ss
      BY <1>1, <2>1, <3>1, <3>4
    <3>6. y * y >= 0 /\ y * y \in Int
      <4>1. CASE y >= 0
        BY <4>1
      <4>2. CASE y <= 0
        <5>1. PICK w \in Nat : w = -y
          BY <4>2
        <5>2. y * y = w * w /\ w * w \in Nat
          BY <5>1
        <5> QED BY <5>2
      <4> QED BY <4>1, <4>2
    <3>7. dev[x] = y * y
      BY <3>2, <3>3, <3>5
    <3> QED BY <3>2, <3>3, <3>6, <3>7
  <2>4. Ints(Xs, a) /\ Ints(Xs, b) /\ Ints(Xs, c) /\ Ints(Xs, d)
    BY <2>3 DEF Ints
  <2>5. SumOver(Xs, a) = nn * q
    <3>1. \A x \in Xs : a[x] = nn * sq[x]
      BY <2>2
    <3> QED BY <1>1, <3>1, SumScales
  <2>6. SumOver(Xs, b) = ns * s
    <3>1. \A x \in Xs : b[x] = ns * of[x]
      BY <2>2
    <3> QED BY <1>1, <3>1, SumScales
  <2>7. SumOver(Xs, c) = (-ss) * n
    <3>1. PICK m \in Int : m = -ss
      OBVIOUS
    <3>2. \A x \in Xs : c[x] = m
      BY <2>2, <3>1
    <3> QED BY <3>1, <3>2, SumOfSame
  <2>8. SumOver(Xs, d) = nn * q - ns * s
    <3>1. \A x \in Xs : d[x] = a[x] - b[x]
      BY <2>2
    <3> QED BY <2>4, <2>5, <2>6, <3>1, SumsSubtract
  <2>9. SumOver(Xs, dev) = SumOver(Xs, d) - SumOver(Xs, c)
    <3>1. \A x \in Xs : dev[x] = d[x] - c[x]
      BY <2>2
    <3> QED BY <2>4, <3>1, SumsSubtract
  <2>10. SumOver(Xs, dev) \in Nat
    BY <2>3, SumCovers
  <2>11. nn * q - ns * s - (-ss) * n = n * (n * q - s * s)
    BY <1>1, <2>1
  <2>12. n * (n * q - s * s) >= 0
    BY <2>7, <2>8, <2>9, <2>10, <2>11
  <2>13. PICK p \in Int : p = n * q - s * s
    <3>1. n * q \in Int /\ s * s \in Int
      BY <1>1
    <3> QED BY <3>1
  <2>14. p >= 0
    <3>1. SUFFICES ASSUME p <= -1 PROVE FALSE
      BY <2>13
    <3>2. n * p <= n * (-1)
      BY <1>1, <3>1
    <3> QED BY <1>1, <1>3, <2>12, <2>13, <3>2
  <2> QED BY <1>1, <2>13, <2>14
<1> QED BY <1>1, <1>2, <1>3

\* pure.js effZ: on the mean of the group nobody scores, and the more the stat the higher.
LEMMA ScoresAre ==
    ASSUME NEW rows, NEW ids, IsFiniteSet(ids), NEW k, \A i \in ids : rows[i].stats[k] \in Int,
           NEW z, z = effZ(rows, ids, k)
    PROVE  /\ DOMAIN z \subseteq ids /\ \A i \in DOMAIN z : z[i] \in Int
           /\ SumOver(DOMAIN z, z) <= 0
           /\ \A i, j \in DOMAIN z : rows[i].stats[k] <= rows[j].stats[k] => z[i] <= z[j]
<1>1. PICK told, of, sq : /\ told = {i \in ids : rows[i].stats[k] # NoValue}
                          /\ of = [i \in told |-> rows[i].stats[k]] /\ sq = [i \in told |-> of[i] * of[i]]
  OBVIOUS
<1>2. PICK n, sum, spread : /\ n = Cardinality(told) /\ sum = SumOver(told, of)
                            /\ spread = n * SumOver(told, sq) - sum * sum
  OBVIOUS
<1>3. z = [i \in IF spread = 0 THEN {} ELSE told |-> (1000 * (n * of[i] - sum)) \div Root(100 * spread)]
  BY <1>1, <1>2 DEF effZ
<1>4. IsFiniteSet(told) /\ told \subseteq ids /\ Ints(told, of) /\ \A i \in told : of[i] = rows[i].stats[k]
  BY <1>1, FS_Subset DEF Ints
<1>5. n \in Nat /\ sum \in Int /\ spread \in Nat
  <2>1. PICK q : q = SumOver(told, sq)
    OBVIOUS
  <2> QED BY <1>1, <1>2, <1>4, <2>1, SpreadIs
<1>6. CASE spread = 0
  <2>1. DOMAIN z = {}
    BY <1>3, <1>6
  <2> QED BY <2>1, SumOfNone
<1>7. CASE spread # 0
  <2>1. PICK R \in Nat : R = Root(100 * spread) /\ R > 0
    <3>1. 100 * spread \in Nat /\ 100 * spread > 0
      BY <1>5, <1>7
    <3> QED BY <3>1, RootIs
  <2>2. PICK x : x = [i \in told |-> 1000 * (n * of[i] - sum)]
    OBVIOUS
  <2>3. z = [i \in told |-> x[i] \div R]
    <3>1. z = [i \in told |-> (1000 * (n * of[i] - sum)) \div Root(100 * spread)]
      BY <1>3, <1>7
    <3> QED BY <2>1, <2>2, <3>1
  <2>4. ASSUME NEW i \in told PROVE x[i] \in Int /\ z[i] \in Int /\ R * z[i] <= x[i]
    <3>1. n * of[i] - sum \in Int
      BY <1>4, <1>5 DEF Ints
    <3>2. x[i] \in Int
      BY <2>2, <3>1
    <3>3. PICK y \in Int : y = x[i] /\ z[i] = y \div R
      BY <2>3, <3>2
    <3>4. y \div R \in Int /\ R * (y \div R) <= y
      BY <2>1, <3>3, QuotientIs
    <3> QED BY <3>3, <3>4
  <2>5. ASSUME NEW i \in told, NEW j \in told, of[i] <= of[j] PROVE z[i] <= z[j]
    <3>1. PICK a \in Int, b \in Int : a = of[i] /\ b = of[j] /\ a <= b
      BY <1>4, <2>5 DEF Ints
    <3>2. PICK c \in Int, d \in Int : c = n * a /\ d = n * b /\ c <= d
      <4>1. n * a \in Int /\ n * b \in Int /\ n * a <= n * b
        BY <1>5, <3>1
      <4> QED BY <4>1
    <3>3. PICK u \in Int, v \in Int : u = x[i] /\ v = x[j] /\ u <= v
      BY <1>5, <2>2, <3>1, <3>2
    <3>4. u * R <= v * R
      BY <2>1, <3>3
    <3>5. u \div R <= v \div R
      BY <2>1, <3>3, <3>4, QuotientsRise
    <3> QED BY <2>3, <3>3, <3>5
  <2>6. DOMAIN z = told /\ Ints(told, z) /\ Ints(told, x)
    BY <2>3, <2>4 DEF Ints
  <2>7. SumOver(told, x) = 0
    <3>1. PICK e \in Int, g \in Int : e = 1000 * n /\ g = 1000 * sum
      BY <1>5
    <3>2. PICK p, q : p = [i \in told |-> e * of[i]] /\ q = [i \in told |-> g]
      OBVIOUS
    <3>3. ASSUME NEW i \in told PROVE p[i] \in Int /\ x[i] = p[i] - q[i]
      <4>1. PICK a \in Int : a = of[i]
        BY <1>4 DEF Ints
      <4>2. 1000 * (n * a - sum) = e * a - g /\ e * a \in Int
        BY <1>5, <3>1
      <4> QED BY <2>2, <3>2, <4>1, <4>2
    <3>4. Ints(told, p) /\ Ints(told, q)
      BY <3>2, <3>3 DEF Ints
    <3>5. SumOver(told, x) = SumOver(told, p) - SumOver(told, q)
      BY <1>4, <3>3, <3>4, SumsSubtract
    <3>6. SumOver(told, p) = e * sum
      <4>1. \A i \in told : p[i] = e * of[i]
        BY <3>2
      <4> QED BY <1>2, <1>4, <4>1, SumScales
    <3>7. SumOver(told, q) = g * n
      <4>1. \A i \in told : q[i] = g
        BY <3>2
      <4> QED BY <1>2, <1>4, <4>1, SumOfSame
    <3>8. e * sum = g * n /\ e * sum \in Int
      BY <1>5, <3>1
    <3> QED BY <3>5, <3>6, <3>7, <3>8
  <2>8. SumOver(told, z) <= 0
    <3>1. PICK rz : rz = [i \in told |-> R * z[i]]
      OBVIOUS
    <3>2. ASSUME NEW i \in told PROVE rz[i] \in Int /\ rz[i] <= x[i] /\ rz[i] = R * z[i]
      <4>1. PICK w \in Int : w = z[i]
        BY <2>4
      <4>2. R * w \in Int
        BY <4>1
      <4> QED BY <2>4, <3>1, <4>1, <4>2
    <3>3. Ints(told, rz)
      BY <3>2 DEF Ints
    <3>4. SumOver(told, rz) <= SumOver(told, x)
      BY <1>4, <2>6, <3>2, <3>3, SumsCompare
    <3>5. SumOver(told, rz) = R * SumOver(told, z)
      BY <1>4, <2>6, <3>2, SumScales
    <3>6. PICK t \in Int : t = SumOver(told, z)
      BY <1>4, <2>6, SumAdds
    <3>7. SUFFICES ASSUME t >= 1 PROVE FALSE
      BY <3>6
    <3>8. R * t >= R * 1
      BY <2>1, <3>7
    <3> QED BY <2>1, <2>7, <3>4, <3>5, <3>6, <3>8
  <2> QED BY <1>4, <2>4, <2>5, <2>6, <2>8
<1> QED BY <1>5, <1>6, <1>7

-----------------------------------------------------------------------------
(* Ratings among peers *)

\* A player's seat is one of those the role allows, if there is one.
LEMMA SeatIs ==
    ASSUME NEW p, IsRow(p)
    PROVE  /\ p.role = NoRole => seatOfPlayer(p) = NoRole
           /\ seatOfPlayer(p) # NoRole => p.role \in Roles /\ seatOfPlayer(p) \in ROLE_SEATS[p.role]
<1>1. /\ p.role \in Roles \cup {NoRole} /\ IsFiniteSet(DOMAIN p.heroes)
      /\ \A h \in DOMAIN p.heroes : p.heroes[h] \in Int
  BY DEF IsRow
<1> DEFINE seats == {s \in ROLE_SEATS[p.role] : \E h \in DOMAIN p.heroes : SeatOf[h] = s}
<1>3. seatOfPlayer(p)
        = IF p.role = NoRole \/ p.heroes = <<>> THEN NoRole
          ELSE IF seats = {} THEN FirstSeat[p.role]
          ELSE CHOOSE s \in seats :
                 \A r \in seats : SumOver({h \in DOMAIN p.heroes : SeatOf[h] = s}, p.heroes)
                                    >= SumOver({h \in DOMAIN p.heroes : SeatOf[h] = r}, p.heroes)
  BY Zenon DEF seatOfPlayer
<1>2. seats \subseteq ROLE_SEATS[p.role]
  OBVIOUS
<1> HIDE DEF seats
<1>0. PICK played : played = [s \in seats |-> SumOver({h \in DOMAIN p.heroes : SeatOf[h] = s}, p.heroes)]
  OBVIOUS
<1>4. CASE p.role = NoRole \/ p.heroes = <<>>
  BY <1>3, <1>4
<1>5. CASE p.role # NoRole /\ p.heroes # <<>> /\ seats = {}
  <2>1. FirstSeat[p.role] \in ROLE_SEATS[p.role]
    BY <1>1, <1>5 DEF FirstSeat, ROLE_SEATS, Roles
  <2> QED BY <1>1, <1>3, <1>5, <2>1
<1>6. CASE p.role # NoRole /\ p.heroes # <<>> /\ seats # {}
  <2>1. IsFiniteSet(seats)
    <3>1. ROLE_SEATS[p.role]
            \subseteq {"Tank"} \cup {"Hitscan"} \cup {"FlexDPS"} \cup {"MainSupport"} \cup {"FlexSupport"}
      BY <1>1, <1>6 DEF ROLE_SEATS, Roles
    <3>2. IsFiniteSet({"Tank"} \cup {"Hitscan"} \cup {"FlexDPS"} \cup {"MainSupport"} \cup {"FlexSupport"})
      BY FS_Singleton, FS_Union
    <3> QED BY <1>2, <3>1, <3>2, FS_Subset
  <2>2. Ints(seats, played)
    <3>1. ASSUME NEW s \in seats PROVE SumOver({h \in DOMAIN p.heroes : SeatOf[h] = s}, p.heroes) \in Int
      <4>1. PICK hs : hs = {h \in DOMAIN p.heroes : SeatOf[h] = s} /\ hs \subseteq DOMAIN p.heroes
        OBVIOUS
      <4>2. IsFiniteSet(hs) /\ Ints(hs, p.heroes)
        BY <1>1, <4>1, FS_Subset DEF Ints
      <4> QED BY <4>1, <4>2, SumAdds
    <3> QED BY <1>0, <3>1 DEF Ints
  <2>3. PICK s \in seats : \A r \in seats : played[r] <= played[s]
    BY <1>6, <2>1, <2>2, MostOf
  <2>4. \A r \in seats : SumOver({h \in DOMAIN p.heroes : SeatOf[h] = s}, p.heroes)
                           >= SumOver({h \in DOMAIN p.heroes : SeatOf[h] = r}, p.heroes)
    BY <1>0, <2>2, <2>3 DEF Ints
  <2>5. (CHOOSE t \in seats :
           \A r \in seats : SumOver({h \in DOMAIN p.heroes : SeatOf[h] = t}, p.heroes)
                              >= SumOver({h \in DOMAIN p.heroes : SeatOf[h] = r}, p.heroes)) \in seats
    BY <2>4, Zenon
  <2>6. seatOfPlayer(p) \in seats
    BY <1>3, <1>6, <2>5
  <2> QED BY <1>1, <1>2, <1>6, <2>6
<1> QED BY <1>4, <1>5, <1>6

\* What a division is made of.
LEMMA DivisionIs ==
    ASSUME NEW rows, IsDivision(rows)
    PROVE  /\ Len(rows) \in Nat /\ DOMAIN rows = 1..Len(rows)
           /\ IsFiniteSet(DOMAIN rows) /\ Cardinality(DOMAIN rows) = Len(rows)
           /\ \A i \in DOMAIN rows :
                /\ IsRow(rows[i]) /\ i \in Int
                /\ rows[i].role \in Roles \cup {NoRole} /\ rows[i].nick \in Int /\ rows[i].current \in BOOLEAN
                /\ rows[i].elo \in Int /\ rows[i].maps \in Int /\ rows[i].stats.games \in Nat
                /\ rows[i].stats # NoStats => \A k \in KEYS : rows[i].stats[k] \in Int
<1>1. rows \in Seq(Range(rows)) /\ \A i \in DOMAIN rows : IsRow(rows[i])
  BY DEF IsDivision
<1>2. Len(rows) \in Nat /\ DOMAIN rows = 1..Len(rows)
  BY <1>1
<1>3. IsFiniteSet(DOMAIN rows) /\ Cardinality(DOMAIN rows) = Len(rows)
  <2>1. PICK n \in Nat : n = Len(rows)
    BY <1>2
  <2>2. IsFiniteSet(1..n) /\ Cardinality(1..n) = IF 1 <= n THEN n - 1 + 1 ELSE 0
    BY FS_Interval
  <2>3. Cardinality(1..n) = n
    BY <2>2
  <2> QED BY <1>2, <2>1, <2>2, <2>3
<1>4. \A i \in DOMAIN rows : i \in Int
  BY <1>2
<1> QED BY <1>1, <1>2, <1>3, <1>4 DEF IsRow

\* Who is measured, against whom, and in what.
SampledIn(rows) == {i \in DOMAIN rows : rows[i].stats.games >= LB_MIN_GAMES /\ rows[i].stats # NoStats}
PeersOf(rows, i) ==
    {j \in SampledIn(rows) : effGroupOf(rows[j]) = effGroupOf(rows[i]) /\ effGroupOf(rows[i]) # NoRole}
Comparable(rows, i) == i \in SampledIn(rows) /\ Cardinality(PeersOf(rows, i)) >= EFF_GROUP_MIN
CompsOfRow(rows, i) ==
    IF Comparable(rows, i) THEN {k \in KEYS : i \in DOMAIN effZ(rows, PeersOf(rows, i), k)} ELSE {}
ScoreSum(rows, i) ==
    SumOver(CompsOfRow(rows, i), [k \in CompsOfRow(rows, i) |-> effZ(rows, PeersOf(rows, i), k)[i]])

\* pure.js efficiencyRatings, row by row.
LEMMA EffIs ==
    ASSUME NEW rows, NEW effs, effs = efficiencyRatings(rows), NEW i \in DOMAIN rows
    PROVE  /\ effs[i].group = effGroupOf(rows[i]) /\ effs[i].peers = PeersOf(rows, i)
           /\ effs[i].comps = CompsOfRow(rows, i)
           /\ effs[i].eff = IF CompsOfRow(rows, i) = {} THEN NoValue
                            ELSE ScoreSum(rows, i) \div Cardinality(CompsOfRow(rows, i))
<1>1. PICK group, peers, z :
        /\ group = [j \in DOMAIN rows |-> effGroupOf(rows[j])]
        /\ peers = {j \in SampledIn(rows) : group[j] = group[i] /\ group[i] # NoRole}
        /\ z = IF i \in SampledIn(rows) /\ Cardinality(peers) >= EFF_GROUP_MIN
               THEN [k \in KEYS |-> effZ(rows, peers, k)] ELSE <<>>
  OBVIOUS
<1>2. PICK comps : comps = {k \in DOMAIN z : i \in DOMAIN z[k]}
  OBVIOUS
<1>3. effs[i] = [group |-> group[i], peers |-> peers, comps |-> comps,
                 eff |-> IF comps = {} THEN NoValue
                         ELSE SumOver(comps, [k \in comps |-> z[k][i]]) \div Cardinality(comps)]
  BY <1>1, <1>2 DEF efficiencyRatings, RatedIn, SampledIn
<1>4. group[i] = effGroupOf(rows[i]) /\ peers = PeersOf(rows, i)
  <2>1. \A j \in SampledIn(rows) : group[j] = effGroupOf(rows[j])
    BY <1>1 DEF SampledIn
  <2> QED BY <1>1, <2>1 DEF PeersOf
<1>5. comps = CompsOfRow(rows, i) /\ \A k \in comps : z[k] = effZ(rows, peers, k)
  <2>1. CASE Comparable(rows, i)
    <3>1. z = [k \in KEYS |-> effZ(rows, peers, k)]
      BY <1>1, <1>4, <2>1 DEF Comparable
    <3> QED BY <1>2, <1>4, <2>1, <3>1 DEF CompsOfRow
  <2>2. CASE ~Comparable(rows, i)
    <3>1. z = <<>>
      BY <1>1, <1>4, <2>2 DEF Comparable
    <3>2. comps = {}
      BY <1>2, <3>1
    <3> QED BY <2>2, <3>2 DEF CompsOfRow
  <2> QED BY <2>1, <2>2
<1>6. SumOver(comps, [k \in comps |-> z[k][i]]) = ScoreSum(rows, i)
  <2>1. [k \in comps |-> z[k][i]] = [k \in comps |-> effZ(rows, peers, k)[i]]
    BY <1>5
  <2> QED BY <1>4, <1>5, <2>1 DEF ScoreSum
<1> QED BY <1>3, <1>4, <1>5, <1>6

\* The scores of a group: of the measured, integers, on the mean nothing.
LEMMA GroupScores ==
    ASSUME NEW rows, IsDivision(rows), NEW i \in DOMAIN rows, NEW k \in KEYS,
           NEW z, z = effZ(rows, PeersOf(rows, i), k)
    PROVE  /\ IsFiniteSet(PeersOf(rows, i)) /\ PeersOf(rows, i) \subseteq SampledIn(rows)
           /\ DOMAIN z \subseteq PeersOf(rows, i) /\ \A j \in DOMAIN z : z[j] \in Int
           /\ SumOver(DOMAIN z, z) <= 0
           /\ \A j, l \in DOMAIN z : rows[j].stats[k] <= rows[l].stats[k] => z[j] <= z[l]
<1>1. IsFiniteSet(PeersOf(rows, i)) /\ PeersOf(rows, i) \subseteq SampledIn(rows)
  <2>1. PeersOf(rows, i) \subseteq SampledIn(rows) /\ PeersOf(rows, i) \subseteq DOMAIN rows
    BY DEF PeersOf, SampledIn
  <2> QED BY <2>1, DivisionIs, FS_Subset
<1>2. \A j \in PeersOf(rows, i) : rows[j].stats[k] \in Int
  <2> TAKE j \in PeersOf(rows, i)
  <2>1. j \in DOMAIN rows /\ rows[j].stats # NoStats
    BY <1>1 DEF SampledIn
  <2> QED BY <2>1, DivisionIs
<1> QED BY <1>1, <1>2, ScoresAre

\* The stats a row is measured in are finitely many, and its scores integers.
LEMMA RowScores ==
    ASSUME NEW rows, IsDivision(rows), NEW i \in DOMAIN rows
    PROVE  /\ IsFiniteSet(KEYS) /\ IsFiniteSet(CompsOfRow(rows, i)) /\ CompsOfRow(rows, i) \subseteq KEYS
           /\ \A k \in CompsOfRow(rows, i) : /\ i \in DOMAIN effZ(rows, PeersOf(rows, i), k)
                                             /\ effZ(rows, PeersOf(rows, i), k)[i] \in Int
           /\ ScoreSum(rows, i) \in Int
           /\ CompsOfRow(rows, i) # {} =>
                /\ Cardinality(CompsOfRow(rows, i)) \in Nat /\ Cardinality(CompsOfRow(rows, i)) > 0
                /\ ScoreSum(rows, i) \div Cardinality(CompsOfRow(rows, i)) \in Int
<1>1. IsFiniteSet(KEYS)
  <2>1. KEYS = {"dmg"} \cup {"heal"} \cup {"mit"} \cup {"kd"}
    BY DEF KEYS
  <2> QED BY <2>1, FS_Singleton, FS_Union
<1>2. PICK comps : comps = CompsOfRow(rows, i)
  OBVIOUS
<1>3. comps \subseteq KEYS /\ IsFiniteSet(comps) /\ \A k \in comps : i \in DOMAIN effZ(rows, PeersOf(rows, i), k)
  <2>1. comps \subseteq KEYS /\ \A k \in comps : i \in DOMAIN effZ(rows, PeersOf(rows, i), k)
    BY <1>2 DEF CompsOfRow
  <2> QED BY <1>1, <2>1, FS_Subset
<1>4. \A k \in comps : effZ(rows, PeersOf(rows, i), k)[i] \in Int
  <2> TAKE k \in comps
  <2>1. PICK z : z = effZ(rows, PeersOf(rows, i), k)
    OBVIOUS
  <2>2. \A j \in DOMAIN z : z[j] \in Int
    BY <1>3, <2>1, GroupScores
  <2> QED BY <1>3, <2>1, <2>2
<1>5. ScoreSum(rows, i) \in Int
  <2>1. PICK f : f = [k \in comps |-> effZ(rows, PeersOf(rows, i), k)[i]]
    OBVIOUS
  <2>2. Ints(comps, f)
    BY <1>4, <2>1 DEF Ints
  <2> QED BY <1>2, <1>3, <2>1, <2>2, SumAdds DEF ScoreSum
<1>6. comps # {} => Cardinality(comps) \in Nat /\ Cardinality(comps) > 0
  BY <1>3, FS_CardinalityType, FS_EmptySet
<1>7. comps # {} => ScoreSum(rows, i) \div Cardinality(comps) \in Int
  <2>1. PICK s \in Int : s = ScoreSum(rows, i)
    BY <1>5
  <2>2. ASSUME comps # {} PROVE s \div Cardinality(comps) \in Int
    <3>1. PICK n \in Nat : n = Cardinality(comps) /\ n > 0
      BY <1>6, <2>2
    <3>2. s \div n \in Int
      BY <3>1, QuotientIs
    <3> QED BY <3>1, <3>2
  <2> QED BY <2>1, <2>2
<1> QED BY <1>1, <1>2, <1>3, <1>4, <1>5, <1>6, <1>7

\* Who is rated is measured, and is a peer of its own; a rating is a whole number.
LEMMA RatedIs ==
    ASSUME NEW rows, IsDivision(rows), NEW effs, effs = efficiencyRatings(rows), NEW i \in DOMAIN rows
    PROVE  /\ effs[i].eff \in Int
           /\ effs[i].eff # NoValue =>
                /\ CompsOfRow(rows, i) # {} /\ Comparable(rows, i) /\ Sampled(rows[i]) /\ i \in PeersOf(rows, i)
                /\ effs[i].eff = ScoreSum(rows, i) \div Cardinality(CompsOfRow(rows, i))
<1>1. effs[i].eff = IF CompsOfRow(rows, i) = {} THEN NoValue
                    ELSE ScoreSum(rows, i) \div Cardinality(CompsOfRow(rows, i))
  BY EffIs
<1>2. effs[i].eff \in Int
  <2>1. NoValue \in Int
    BY DEF NoValue
  <2> QED BY <1>1, <2>1, RowScores
<1>3. ASSUME effs[i].eff # NoValue
      PROVE  /\ CompsOfRow(rows, i) # {} /\ Comparable(rows, i) /\ Sampled(rows[i]) /\ i \in PeersOf(rows, i)
             /\ effs[i].eff = ScoreSum(rows, i) \div Cardinality(CompsOfRow(rows, i))
  <2>1. CompsOfRow(rows, i) # {}
    BY <1>1, <1>3
  <2>2. Comparable(rows, i)
    BY <2>1 DEF CompsOfRow
  <2>3. Sampled(rows[i])
    BY <2>2 DEF Comparable, SampledIn, Sampled
  <2>4. i \in PeersOf(rows, i)
    <3>1. PICK k \in KEYS : i \in DOMAIN effZ(rows, PeersOf(rows, i), k)
      BY <2>1, <2>2 DEF CompsOfRow
    <3>2. PICK z : z = effZ(rows, PeersOf(rows, i), k)
      OBVIOUS
    <3>3. DOMAIN z \subseteq PeersOf(rows, i)
      BY <3>2, GroupScores
    <3> QED BY <3>1, <3>2, <3>3
  <2> QED BY <1>1, <2>1, <2>2, <2>3, <2>4
<1> QED BY <1>2, <1>3

\* The peers of a peer are the same.
LEMMA PeersShare ==
    ASSUME NEW rows, NEW i \in DOMAIN rows, NEW j \in PeersOf(rows, i)
    PROVE  j \in DOMAIN rows /\ PeersOf(rows, j) = PeersOf(rows, i)
BY DEF PeersOf, SampledIn

\* What a peer scores in a stat, or nothing, and the sum of that over the group.
Scored(rows, P) ==
    [p \in P \X KEYS |-> IF p[1] \in DOMAIN effZ(rows, P, p[2]) THEN effZ(rows, P, p[2])[p[1]] ELSE 0]

\* Nobody is above average without somebody who is not.
LEMMA SomebodyBelow ==
    ASSUME NEW rows, IsDivision(rows), NEW effs, effs = efficiencyRatings(rows), NEW i \in DOMAIN rows,
           effs[i].eff # NoValue
    PROVE  \E j \in PeersOf(rows, i) : j \in DOMAIN rows /\ (effs[j].eff = NoValue \/ effs[j].eff <= 0)
<1>1. SUFFICES ASSUME \A j \in PeersOf(rows, i) : j \in DOMAIN rows => effs[j].eff # NoValue /\ ~(effs[j].eff <= 0)
               PROVE FALSE
  OBVIOUS
<1>2. PICK P : P = PeersOf(rows, i)
  OBVIOUS
<1>3. IsFiniteSet(P) /\ i \in P /\ IsFiniteSet(KEYS)
  <2>1. "dmg" \in KEYS
    BY DEF KEYS
  <2> QED BY <1>2, <2>1, GroupScores, RatedIs, RowScores
<1>4. ASSUME NEW j \in P
      PROVE  /\ j \in DOMAIN rows /\ PeersOf(rows, j) = P
             /\ ScoreSum(rows, j) \in Int /\ ScoreSum(rows, j) > 0
             /\ Comparable(rows, j)
  <2>1. j \in DOMAIN rows /\ PeersOf(rows, j) = P
    BY <1>2, PeersShare
  <2>2. effs[j].eff \in Int /\ effs[j].eff > 0 /\ effs[j].eff # NoValue
    BY <1>1, <1>2, <2>1, RatedIs
  <2>3. PICK s \in Int, n \in Nat : /\ s = ScoreSum(rows, j) /\ n = Cardinality(CompsOfRow(rows, j)) /\ n > 0
                                    /\ effs[j].eff = s \div n
    BY <2>1, <2>2, RatedIs, RowScores
  <2>4. s > 0
    <3>1. SUFFICES ASSUME s <= 0 PROVE FALSE
      OBVIOUS
    <3>2. s < n * 0 + n
      BY <2>3, <3>1
    <3>3. s \div n <= 0
      BY <2>3, <3>2, QuotientBelow
    <3> QED BY <2>2, <2>3, <3>3
  <2>5. Comparable(rows, j)
    BY <2>1, <2>2, RatedIs
  <2> QED BY <2>1, <2>3, <2>4, <2>5
<1>5. PICK h : h = Scored(rows, P)
  OBVIOUS
<1>6. ASSUME NEW k \in KEYS
      PROVE  /\ DOMAIN effZ(rows, P, k) \subseteq P /\ \A j \in DOMAIN effZ(rows, P, k) : effZ(rows, P, k)[j] \in Int
             /\ SumOver(DOMAIN effZ(rows, P, k), effZ(rows, P, k)) <= 0
             /\ \A j \in P : h[<<j, k>>] = IF j \in DOMAIN effZ(rows, P, k) THEN effZ(rows, P, k)[j] ELSE 0
  <2>1. PICK z : z = effZ(rows, P, k)
    OBVIOUS
  <2>2. DOMAIN z \subseteq P /\ (\A j \in DOMAIN z : z[j] \in Int) /\ SumOver(DOMAIN z, z) <= 0
    BY <1>2, <2>1, GroupScores
  <2>3. ASSUME NEW j \in P PROVE h[<<j, k>>] = IF j \in DOMAIN effZ(rows, P, k) THEN effZ(rows, P, k)[j] ELSE 0
    <3>1. PICK p : p = <<j, k>>
      OBVIOUS
    <3>2. p \in P \X KEYS /\ p[1] = j /\ p[2] = k
      BY <3>1
    <3> QED BY <1>5, <3>1, <3>2 DEF Scored
  <2> QED BY <2>1, <2>2, <2>3
<1>7. \A j \in P, k \in KEYS : h[<<j, k>>] \in Int
  BY <1>6
<1>8. PICK lines, cols : lines = [j \in P |-> Row(h, KEYS, j)] /\ cols = [k \in KEYS |-> Column(h, P, k)]
  OBVIOUS
<1>9. SumOver(P, lines) = SumOver(KEYS, cols)
  BY <1>3, <1>7, <1>8, SumsSwap
<1>10. ASSUME NEW j \in P PROVE lines[j] = ScoreSum(rows, j)
  <2>1. PICK comps, f, g : /\ comps = CompsOfRow(rows, j) /\ f = [k \in comps |-> effZ(rows, P, k)[j]]
                           /\ g = [k \in KEYS |-> h[<<j, k>>]]
    OBVIOUS
  <2>2. comps = {k \in KEYS : j \in DOMAIN effZ(rows, P, k)}
    BY <1>4, <2>1 DEF CompsOfRow
  <2>3. \A k \in KEYS : g[k] = IF k \in comps THEN f[k] ELSE 0
    BY <1>6, <2>1, <2>2
  <2>4. Ints(comps, f)
    BY <1>6, <2>1, <2>2 DEF Ints
  <2>5. comps \subseteq KEYS
    BY <2>2
  <2>6. SumOver(KEYS, g) = SumOver(comps, f)
    BY <1>3, <2>3, <2>4, <2>5, SumPads
  <2>7. ScoreSum(rows, j) = SumOver(comps, f)
    BY <1>4, <2>1 DEF ScoreSum
  <2> QED BY <1>8, <2>1, <2>6, <2>7 DEF Row
<1>11. ASSUME NEW k \in KEYS PROVE cols[k] \in Int /\ cols[k] <= 0
  <2>1. PICK z, g : z = effZ(rows, P, k) /\ g = [j \in P |-> h[<<j, k>>]]
    OBVIOUS
  <2>2. \A j \in P : g[j] = IF j \in DOMAIN z THEN z[j] ELSE 0
    BY <1>6, <2>1
  <2>3. Ints(DOMAIN z, z) /\ DOMAIN z \subseteq P /\ Ints(P, g)
    BY <1>6, <2>1, <2>2 DEF Ints
  <2>4. SumOver(P, g) = SumOver(DOMAIN z, z) /\ SumOver(P, g) \in Int
    BY <1>3, <2>2, <2>3, SumPads, SumAdds
  <2>5. cols[k] = SumOver(P, g)
    BY <1>8, <2>1 DEF Column
  <2> QED BY <1>6, <2>1, <2>4, <2>5
<1>12. SumOver(KEYS, cols) <= 0
  <2>1. PICK none : none = [k \in KEYS |-> 0]
    OBVIOUS
  <2>2. Ints(KEYS, cols) /\ Ints(KEYS, none) /\ (\A k \in KEYS : cols[k] <= none[k]) /\ \A k \in KEYS : none[k] = 0
    BY <1>11, <2>1 DEF Ints
  <2>3. SumOver(KEYS, cols) <= SumOver(KEYS, none)
    BY <1>3, <2>2, SumsCompare
  <2>4. SumOver(KEYS, none) = 0 * Cardinality(KEYS) /\ Cardinality(KEYS) \in Nat
    BY <1>3, <2>2, SumOfSame
  <2>5. SumOver(KEYS, none) = 0
    BY <2>4
  <2> QED BY <2>3, <2>5
<1>13. SumOver(P, lines) \in Nat /\ SumOver(P, lines) > 0
  <2>1. \A j \in P : lines[j] \in Nat /\ lines[j] > 0
    BY <1>4, <1>10
  <2>2. SumOver(P, lines) \in Nat /\ lines[i] <= SumOver(P, lines)
    BY <1>3, <2>1, SumCovers
  <2> QED BY <1>3, <2>1, <2>2
<1> QED BY <1>9, <1>12, <1>13

\* Being no better in anything never rates higher.
LEMMA NoBetterNoHigher ==
    ASSUME NEW rows, IsDivision(rows), NEW effs, effs = efficiencyRatings(rows),
           NEW i \in DOMAIN rows, NEW j \in DOMAIN rows, effs[i].eff # NoValue, effs[j].eff # NoValue,
           effs[i].group = effs[j].group, effs[i].comps = effs[j].comps,
           \A k \in effs[i].comps : rows[i].stats[k] <= rows[j].stats[k]
    PROVE  effs[i].eff <= effs[j].eff
<1>1. effGroupOf(rows[i]) = effGroupOf(rows[j]) /\ CompsOfRow(rows, i) = CompsOfRow(rows, j)
      /\ effs[i].comps = CompsOfRow(rows, i)
  BY EffIs
<1>2. PICK P, comps : /\ P = PeersOf(rows, i) /\ P = PeersOf(rows, j)
                      /\ comps = CompsOfRow(rows, i) /\ comps = CompsOfRow(rows, j)
  BY <1>1 DEF PeersOf
<1>3. PICK f, g : f = [k \in comps |-> effZ(rows, P, k)[i]] /\ g = [k \in comps |-> effZ(rows, P, k)[j]]
  OBVIOUS
<1>4. ASSUME NEW k \in comps PROVE f[k] \in Int /\ g[k] \in Int /\ f[k] <= g[k]
  <2>1. PICK z : z = effZ(rows, P, k)
    OBVIOUS
  <2>2. i \in DOMAIN z /\ j \in DOMAIN z /\ z[i] \in Int /\ z[j] \in Int /\ k \in KEYS
    BY <1>2, <2>1, RowScores
  <2>3. rows[i].stats[k] <= rows[j].stats[k]
    BY <1>1, <1>2
  <2>4. z[i] <= z[j]
    BY <1>2, <2>1, <2>2, <2>3, GroupScores
  <2> QED BY <1>3, <2>1, <2>2, <2>4
<1>5. PICK s \in Int, t \in Int, n \in Nat :
        /\ s = ScoreSum(rows, i) /\ t = ScoreSum(rows, j) /\ n = Cardinality(comps) /\ n > 0
        /\ effs[i].eff = s \div n /\ effs[j].eff = t \div n
  <2>1. /\ effs[i].eff = ScoreSum(rows, i) \div Cardinality(comps)
        /\ effs[j].eff = ScoreSum(rows, j) \div Cardinality(comps)
        /\ comps # {}
    BY <1>2, RatedIs
  <2>2. ScoreSum(rows, i) \in Int /\ ScoreSum(rows, j) \in Int /\ Cardinality(comps) \in Nat /\ Cardinality(comps) > 0
    BY <1>2, <2>1, RowScores
  <2> QED BY <2>1, <2>2
<1>6. s <= t
  <2>1. s = SumOver(comps, f) /\ t = SumOver(comps, g)
    BY <1>2, <1>3, <1>5 DEF ScoreSum
  <2>2. Ints(comps, f) /\ Ints(comps, g) /\ IsFiniteSet(comps)
    BY <1>2, <1>4, RowScores DEF Ints
  <2> QED BY <1>4, <2>1, <2>2, SumsCompare
<1>7. s * n <= t * n
  BY <1>5, <1>6
<1>8. s \div n <= t \div n
  BY <1>5, <1>7, QuotientsRise
<1> QED BY <1>5, <1>8

\* Ratings are among peers, in every division.
LEMMA RatedAlways ==
    ASSUME NEW rows, IsDivision(rows), NEW effs, effs = efficiencyRatings(rows)
    PROVE  RatedAmongPeers(rows, effs)
<1>1. PICK Rated : Rated = {i \in DOMAIN rows : effs[i].eff # NoValue}
  OBVIOUS
<1>2. \A i \in Rated : Sampled(rows[i]) /\ Cardinality(effs[i].peers) >= 4
  <2> TAKE i \in Rated
  <2>1. Sampled(rows[i]) /\ Comparable(rows, i) /\ effs[i].peers = PeersOf(rows, i)
    BY <1>1, RatedIs, EffIs
  <2> QED BY <2>1 DEF Comparable, EFF_GROUP_MIN
<1>3. \A i \in Rated : \E j \in effs[i].peers : j \notin Rated \/ effs[j].eff <= 0
  <2> TAKE i \in Rated
  <2>1. \E j \in PeersOf(rows, i) : j \in DOMAIN rows /\ (effs[j].eff = NoValue \/ effs[j].eff <= 0)
    BY <1>1, SomebodyBelow
  <2>2. effs[i].peers = PeersOf(rows, i)
    BY <1>1, EffIs
  <2> QED BY <1>1, <2>1, <2>2
<1>4. \A i, j \in Rated :
        effs[i].group = effs[j].group /\ effs[i].comps = effs[j].comps
            /\ (\A k \in effs[i].comps : rows[i].stats[k] <= rows[j].stats[k])
          => effs[i].eff <= effs[j].eff
  BY <1>1, NoBetterNoHigher
<1>5. ASSUME NEW i \in DOMAIN rows, \A j \in DOMAIN rows : rows[j].nick = rows[i].nick => i <= j
      PROVE  playerEffFor(rows, rows[i].nick, TRUE) = effs[i].eff
  <2>1. [l \in DOMAIN rows |-> playerCaptures(rows[l], TRUE)] = rows
    <3>1. rows = [l \in DOMAIN rows |-> rows[l]]
      BY DEF IsDivision
    <3> QED BY <3>1 DEF playerCaptures
  <2>2. PICK Is : Is = {j \in DOMAIN rows : rows[j].nick = rows[i].nick}
    OBVIOUS
  <2>3. Min(Is) = i
    <3>1. i \in Is /\ \A j \in Is : i <= j
      BY <1>5, <2>2
    <3>2. Is \subseteq Int
      BY <2>2, DivisionIs
    <3>3. Min(Is) \in Is /\ \A j \in Is : Min(Is) <= j
      BY <3>1 DEF Min
    <3> QED BY <3>1, <3>2, <3>3
  <2> QED BY <2>1, <2>2, <2>3 DEF playerEffFor
<1> QED BY <1>1, <1>2, <1>3, <1>4, <1>5 DEF RatedAmongPeers

-----------------------------------------------------------------------------
(* The tables of players *)

\* A list by a strict order has everything once, and puts before what the order does.
ListsOnce(Xs, list) ==
    /\ IsFiniteSet(Xs) /\ Cardinality(Xs) \in Nat /\ Len(list) = Cardinality(Xs) /\ DOMAIN list = 1..Cardinality(Xs)
    /\ Range(list) = Xs /\ IsInjective(list) /\ Before(list) \subseteq Xs \X Xs

LEMMA ListBefore ==
    ASSUME NEW Xs, IsFiniteSet(Xs), NEW order, NEW list, Lists(order, Xs, list)
    PROVE  /\ ListsOnce(Xs, list)
           /\ \A m, n \in DOMAIN list : m < n => <<list[m], list[n]>> \in order
           /\ \A p \in Xs \X Xs : p \in Before(list) <=> p \in order
<1>1. PICK N \in Nat : N = Cardinality(Xs)
  BY Listed
<1>2. /\ list \in [1..N -> Xs]
      /\ \A x \in Xs : \E n \in 1..N : list[n] = x
      /\ \A m, n \in 1..N : <<list[m], list[n]>> \in order => m < n
  BY <1>1, Listed
<1>3. Len(list) = N /\ DOMAIN list = 1..N
  BY <1>2
<1>4. Range(list) = Xs
  BY <1>2, <1>3 DEF Range
<1>5. IsInjective(list)
  <2>1. IsFiniteSet(1..N) /\ Cardinality(1..N) = N
    <3>1. IsFiniteSet(1..N) /\ Cardinality(1..N) = IF 1 > N THEN 0 ELSE N - 1 + 1
      BY FS_Interval
    <3> QED BY <3>1
  <2>2. list \in Surjection(1..N, Xs)
    BY <1>2 DEF Surjection
  <2>3. list \in Injection(1..N, Xs)
    BY <1>1, <2>1, <2>2, FS_Surjection
  <2> QED BY <2>3 DEF Injection
<1>6. \A x, y \in Xs : x = y \/ <<x, y>> \in order \/ <<y, x>> \in order
  BY DEF Lists, Orders
<1>7. ASSUME NEW m \in 1..N, NEW n \in 1..N, m < n PROVE <<list[m], list[n]>> \in order
  <2>1. list[m] # list[n]
    BY <1>3, <1>5, <1>7 DEF IsInjective
  <2>2. list[m] \in Xs /\ list[n] \in Xs
    BY <1>2
  <2>3. <<list[n], list[m]>> \notin order
    BY <1>2, <1>7
  <2> QED BY <1>6, <2>1, <2>2, <2>3
<1>8. ASSUME NEW p \in Before(list)
      PROVE  \E m, n \in 1..N : m < n /\ p = <<list[m], list[n]>>
  <2>1. PICK q \in (DOMAIN list) \X (DOMAIN list) : q[1] < q[2] /\ p = <<list[q[1]], list[q[2]]>>
    BY DEF Before
  <2> QED BY <1>3, <2>1
<1>9. ASSUME NEW m \in 1..N, NEW n \in 1..N, m < n PROVE <<list[m], list[n]>> \in Before(list)
  <2>1. PICK q : q = <<m, n>>
    OBVIOUS
  <2>2. q \in (DOMAIN list) \X (DOMAIN list) /\ q[1] = m /\ q[2] = n
    BY <1>3, <2>1
  <2> QED BY <1>9, <2>2 DEF Before
<1>10. ASSUME NEW p \in Before(list) PROVE p \in Xs \X Xs
  <2>1. PICK m \in 1..N, n \in 1..N : p = <<list[m], list[n]>>
    BY <1>8
  <2>2. list[m] \in Xs /\ list[n] \in Xs
    BY <1>2
  <2> QED BY <2>1, <2>2
<1>11. ASSUME NEW p \in Xs \X Xs PROVE p \in Before(list) <=> p \in order
  <2>1. ASSUME p \in Before(list) PROVE p \in order
    BY <1>7, <1>8, <2>1
  <2>2. ASSUME p \in order PROVE p \in Before(list)
    <3>1. PICK x \in Xs, y \in Xs : p = <<x, y>>
      OBVIOUS
    <3>2. PICK m \in 1..N, n \in 1..N : list[m] = x /\ list[n] = y
      BY <1>2
    <3>3. m < n
      BY <1>2, <2>2, <3>1, <3>2
    <3> QED BY <1>9, <3>1, <3>2, <3>3
  <2> QED BY <2>1, <2>2
<1> QED BY <1>1, <1>3, <1>4, <1>5, <1>7, <1>10, <1>11 DEF ListsOnce

\* pure.js rankPlayers' comparison puts any rows with values in one order.
LEMMA ByValueIs ==
    ASSUME NEW rows, IsDivision(rows), NEW ids, ids \subseteq DOMAIN rows,
           NEW value, \A i \in ids : value[i] \in Int, NEW list, list = ByValue(ids, value, rows)
    PROVE  /\ ListsOnce(ids, list)
           /\ \A m, n \in DOMAIN list : m < n => Ahead(rows, value, list[m], list[n])
           /\ \A p \in ids \X ids : p \in Before(list) <=> Ahead(rows, value, p[1], p[2])
<1>1. PICK order : order = {p \in ids \X ids : Ahead(rows, value, p[1], p[2])}
  OBVIOUS
<1>2. IsFiniteSet(ids)
  BY DivisionIs, FS_Subset
<1>3. \A x, y \in ids : <<x, y>> \in order <=> Ahead(rows, value, x, y)
  BY <1>1
<1>4. Orders(order, ids)
  <2>1. PICK no \in Int : no = NoValue
    BY DEF NoValue
  <2>2. \A i \in ids : i \in Int /\ value[i] \in Int /\ rows[i].nick \in Int
    BY DivisionIs
  <2>3. \A x \in ids : ~Ahead(rows, value, x, x)
    BY <2>1, <2>2 DEF Ahead
  <2>4. ASSUME NEW x \in ids, NEW y \in ids PROVE x = y \/ Ahead(rows, value, x, y) \/ Ahead(rows, value, y, x)
    BY <2>1, <2>2 DEF Ahead
  <2>5. ASSUME NEW x \in ids, NEW y \in ids, NEW z \in ids, Ahead(rows, value, x, y), Ahead(rows, value, y, z)
        PROVE  Ahead(rows, value, x, z)
    BY <2>1, <2>2, <2>5 DEF Ahead
  <2> QED BY <1>3, <2>3, <2>4, <2>5 DEF Orders
<1>5. \A i \in ids : Cardinality({j \in ids : Ahead(rows, value, j, i)}) = NoBefore(order, ids, i)
  <2> TAKE i \in ids
  <2>1. {j \in ids : Ahead(rows, value, j, i)} = {j \in ids : <<j, i>> \in order}
    BY <1>3
  <2> QED BY <2>1 DEF NoBefore
<1>6. list = [n \in 1..Cardinality(ids) |-> CHOOSE i \in ids : NoBefore(order, ids, i) = n - 1]
  <2>1. list = [n \in 1..Cardinality(ids) |->
                  CHOOSE i \in ids : Cardinality({j \in ids : Ahead(rows, value, j, i)}) = n - 1]
    BY DEF ByValue
  <2>2. PICK other : other = [n \in 1..Cardinality(ids) |-> CHOOSE i \in ids : NoBefore(order, ids, i) = n - 1]
    OBVIOUS
  <2>3. \A n \in 1..Cardinality(ids) : list[n] = other[n]
    <3> TAKE n \in 1..Cardinality(ids)
    <3>1. \A i : (i \in ids /\ Cardinality({j \in ids : Ahead(rows, value, j, i)}) = n - 1)
                   <=> (i \in ids /\ NoBefore(order, ids, i) = n - 1)
      BY <1>5
    <3>2. (CHOOSE i \in ids : Cardinality({j \in ids : Ahead(rows, value, j, i)}) = n - 1)
            = CHOOSE i \in ids : NoBefore(order, ids, i) = n - 1
      BY <3>1
    <3>3. list[n] = CHOOSE i \in ids : Cardinality({j \in ids : Ahead(rows, value, j, i)}) = n - 1
      BY <2>1
    <3>4. other[n] = CHOOSE i \in ids : NoBefore(order, ids, i) = n - 1
      BY <2>2
    <3> QED BY <3>2, <3>3, <3>4, Zenon
  <2>4. list = other
    BY <2>1, <2>2, <2>3
  <2> QED BY <2>2, <2>4
<1>7. Lists(order, ids, list)
  BY <1>4, <1>6 DEF Lists
<1>8. /\ ListsOnce(ids, list)
      /\ \A m, n \in DOMAIN list : m < n => <<list[m], list[n]>> \in order
      /\ \A p \in ids \X ids : p \in Before(list) <=> p \in order
  BY <1>2, <1>7, ListBefore
<1>9. ASSUME NEW m \in DOMAIN list, NEW n \in DOMAIN list, m < n PROVE Ahead(rows, value, list[m], list[n])
  <2>1. PICK p : p = <<list[m], list[n]>>
    OBVIOUS
  <2>2. p \in order
    BY <1>8, <1>9, <2>1
  <2> QED BY <1>1, <2>1, <2>2
<1> QED BY <1>1, <1>8, <1>9

RowsOfTeam(rows, team) == {i \in DOMAIN rows : rows[i].team = team}

\* app.js drawTeam lists the rows of a team, each once.
LEMMA TeamIs ==
    ASSUME NEW rows, IsDivision(rows), NEW team, NEW list, list = drawTeam(rows, team)
    PROVE  ListsOnce(RowsOfTeam(rows, team), list)
<1> DEFINE First(i, j) == IF rows[i].current = rows[j].current THEN i < j ELSE rows[i].current
           ids == RowsOfTeam(rows, team)
<1>1. PICK order : order = {p \in ids \X ids : First(p[1], p[2])}
  OBVIOUS
<1>2. IsFiniteSet(ids) /\ ids \subseteq DOMAIN rows
  BY DivisionIs, FS_Subset DEF RowsOfTeam
<1>3. \A x, y \in ids : <<x, y>> \in order <=> First(x, y)
  BY <1>1
<1>4. Orders(order, ids)
  <2>1. \A i \in ids : i \in Int /\ rows[i].current \in BOOLEAN
    BY <1>2, DivisionIs
  <2>2. \A x \in ids : ~First(x, x)
    BY <2>1
  <2>3. ASSUME NEW x \in ids, NEW y \in ids PROVE x = y \/ First(x, y) \/ First(y, x)
    BY <2>1
  <2>4. ASSUME NEW x \in ids, NEW y \in ids, NEW z \in ids, First(x, y), First(y, z) PROVE First(x, z)
    BY <2>1, <2>4
  <2> QED BY <1>3, <2>2, <2>3, <2>4 DEF Orders
<1>5. \A i \in ids : Cardinality({j \in ids : First(j, i)}) = NoBefore(order, ids, i)
  <2> TAKE i \in ids
  <2>1. {j \in ids : First(j, i)} = {j \in ids : <<j, i>> \in order}
    BY <1>3
  <2> QED BY <2>1 DEF NoBefore
<1>6. list = [n \in 1..Cardinality(ids) |-> CHOOSE i \in ids : NoBefore(order, ids, i) = n - 1]
  <2>1. list = [n \in 1..Cardinality(ids) |-> CHOOSE i \in ids : Cardinality({j \in ids : First(j, i)}) = n - 1]
    BY Zenon DEF drawTeam, RowsOfTeam
  <2>2. PICK other : other = [n \in 1..Cardinality(ids) |-> CHOOSE i \in ids : NoBefore(order, ids, i) = n - 1]
    OBVIOUS
  <2>3. \A n \in 1..Cardinality(ids) : list[n] = other[n]
    <3> TAKE n \in 1..Cardinality(ids)
    <3>1. \A i : (i \in ids /\ Cardinality({j \in ids : First(j, i)}) = n - 1)
                   <=> (i \in ids /\ NoBefore(order, ids, i) = n - 1)
      BY <1>5
    <3>2. (CHOOSE i \in ids : Cardinality({j \in ids : First(j, i)}) = n - 1)
            = CHOOSE i \in ids : NoBefore(order, ids, i) = n - 1
      BY <3>1
    <3>3. list[n] = CHOOSE i \in ids : Cardinality({j \in ids : First(j, i)}) = n - 1
      BY <2>1
    <3>4. other[n] = CHOOSE i \in ids : NoBefore(order, ids, i) = n - 1
      BY <2>2
    <3> QED BY <3>2, <3>3, <3>4, Zenon
  <2>4. list = other
    BY <2>1, <2>2, <2>3
  <2> QED BY <2>2, <2>4
<1>7. Lists(order, ids, list)
  BY <1>4, <1>6 DEF Lists
<1> QED BY <1>2, <1>7, ListBefore

\* What a player is listed by is a whole number, of nobody below the floor.
LEMMA ValueIs ==
    ASSUME NEW rows, IsDivision(rows), NEW effs, effs = efficiencyRatings(rows), NEW i \in DOMAIN rows,
           NEW key, key \in RateKeys \cup {"elo"}
    PROVE  /\ Value(rows[i], effs[i].eff, key) \in Int /\ NoValue \in Int
           /\ key \in RateKeys /\ key \notin KEYS /\ Value(rows[i], effs[i].eff, key) # NoValue => Sampled(rows[i])
<1>1. NoValue \in Int /\ effs[i].eff \in Int
  BY RatedIs DEF NoValue
<1>2. rows[i].elo \in Int /\ (rows[i].stats # NoStats => \A k \in KEYS : rows[i].stats[k] \in Int)
  BY DivisionIs
<1>3. CASE key = "eff"
  <2>1. Value(rows[i], effs[i].eff, key) = effs[i].eff
    BY <1>3 DEF Value, KEYS
  <2> QED BY <1>1, <2>1, RatedIs
<1>4. CASE key = "elo"
  <2>1. Value(rows[i], effs[i].eff, key) = rows[i].elo /\ key \notin RateKeys
    BY <1>4 DEF Value, RateKeys, KEYS
  <2> QED BY <1>1, <1>2, <2>1
<1>5. CASE key \in KEYS
  <2>1. key # "eff" /\ key # "elo" /\ key # "maps"
    BY <1>5 DEF KEYS
  <2>2. Value(rows[i], effs[i].eff, key) = IF rows[i].stats = NoStats THEN NoValue ELSE rows[i].stats[key]
    BY <1>5, <2>1 DEF Value
  <2> QED BY <1>1, <1>2, <1>5, <2>2
<1> QED BY <1>3, <1>4, <1>5 DEF RateKeys

\* Who is in a seat; who the leaderboard ranks.
RowsInSeat(rows, seat) == {i \in DOMAIN rows : rows[i].role # NoRole /\ seatOfPlayer(rows[i]) = seat}
RankedBy(rows, key, role) ==
    {i \in DOMAIN rows : /\ role \in {"All", rows[i].role}
                         /\ key \in RateKeys => rows[i].stats = NoStats \/ Sampled(rows[i])}

\* app.js' table of a seat: by what it shows of whom.
ShownOf(rows, effs, key, i) ==
    IF key \in KEYS /\ ~Sampled(rows[i]) THEN NoValue ELSE Value(rows[i], effs[i].eff, key)

LEMMA SeatTableIs ==
    ASSUME NEW rows, IsDivision(rows), NEW effs, effs = efficiencyRatings(rows), NEW seat, NEW key, key \in RateKeys,
           NEW list, list = drawRole(rows, effs, key, seat)
    PROVE  /\ ListsOnce(RowsInSeat(rows, seat), list)
           /\ \E value : /\ \A i \in RowsInSeat(rows, seat) : value[i] = ShownOf(rows, effs, key, i)
                         /\ \A m, n \in DOMAIN list : m < n => Ahead(rows, value, list[m], list[n])
                         /\ \A p \in RowsInSeat(rows, seat) \X RowsInSeat(rows, seat) :
                              p \in Before(list) <=> Ahead(rows, value, p[1], p[2])
<1>1. PICK ids : ids = RowsInSeat(rows, seat) /\ ids \subseteq DOMAIN rows
  BY DEF RowsInSeat
<1>2. PICK value : value = [i \in ids |-> IF key \in KEYS /\ ~Sampled(rows[i]) THEN NoValue
                                          ELSE Value(rows[i], effs[i].eff, key)]
  OBVIOUS
<1>3. list = ByValue(ids, value, rows)
  BY <1>1, <1>2 DEF drawRole, RowsInSeat
<1>4. \A i \in ids : value[i] = ShownOf(rows, effs, key, i)
  BY <1>2 DEF ShownOf
<1>5. \A i \in ids : value[i] \in Int
  <2> TAKE i \in ids
  <2>1. NoValue \in Int /\ Value(rows[i], effs[i].eff, key) \in Int
    BY <1>1, ValueIs
  <2> QED BY <1>4, <2>1 DEF ShownOf
<1>6. /\ ListsOnce(ids, list)
      /\ \A m, n \in DOMAIN list : m < n => Ahead(rows, value, list[m], list[n])
      /\ \A p \in ids \X ids : p \in Before(list) <=> Ahead(rows, value, p[1], p[2])
  BY <1>1, <1>3, <1>5, ByValueIs
<1> QED BY <1>1, <1>4, <1>6

\* pure.js' leaderboard.
LEMMA LeaderboardIs ==
    ASSUME NEW rows, IsDivision(rows), NEW effs, effs = efficiencyRatings(rows),
           NEW key, key \in RateKeys \cup {"elo"}, NEW role, NEW list, list = rankPlayers(rows, effs, key, role)
    PROVE  /\ ListsOnce(RankedBy(rows, key, role), list)
           /\ \E value : /\ \A i \in RankedBy(rows, key, role) : value[i] = Value(rows[i], effs[i].eff, key)
                         /\ \A p \in RankedBy(rows, key, role) \X RankedBy(rows, key, role) :
                              p \in Before(list) <=> Ahead(rows, value, p[1], p[2])
<1>1. PICK ids : ids = RankedBy(rows, key, role) /\ ids \subseteq DOMAIN rows
  BY DEF RankedBy
<1>2. PICK value : value = [i \in ids |-> Value(rows[i], effs[i].eff, key)]
  OBVIOUS
<1>3. list = ByValue(ids, value, rows)
  BY <1>1, <1>2 DEF rankPlayers, RankedBy
<1>4. \A i \in ids : value[i] = Value(rows[i], effs[i].eff, key) /\ value[i] \in Int
  BY <1>1, <1>2, ValueIs
<1>5. /\ ListsOnce(ids, list)
      /\ \A p \in ids \X ids : p \in Before(list) <=> Ahead(rows, value, p[1], p[2])
  BY <1>1, <1>3, <1>4, ByValueIs
<1> QED BY <1>1, <1>4, <1>5

\* Of values that are the same the comparison says the same.
LEMMA AheadAlike ==
    ASSUME NEW rows, NEW v, NEW w, NEW i, NEW j, v[i] = w[i], v[j] = w[j]
    PROVE  Ahead(rows, v, i, j) <=> Ahead(rows, w, i, j)
BY DEF Ahead

\* Who of a division, and of a seat, is known by a column.
KnownBy(rows, effs, key) == {i \in DOMAIN rows : Sampled(rows[i]) /\ Value(rows[i], effs[i].eff, key) # NoValue}
KnownIn(rows, effs, key, seat) == {i \in KnownBy(rows, effs, key) : seatOfPlayer(rows[i]) = seat}

\* The tables of players never disagree, in any division.
LEMMA TablesAlways ==
    ASSUME NEW rows, IsDivision(rows), NEW effs, effs = efficiencyRatings(rows)
    PROVE  TablesConcur(rows, effs)
<1>0. SUFFICES ASSUME NEW key \in RateKeys, NEW seat \in UNION {ROLE_SEATS[r] : r \in Roles},
                      NEW ranks \in {rankPlayers(rows, effs, key, "All")},
                      NEW inSeat \in {drawRole(rows, effs, key, seat)}
               PROVE  /\ Range(inSeat) \cap KnownBy(rows, effs, key) = KnownIn(rows, effs, key, seat)
                      /\ KnownIn(rows, effs, key, seat) \subseteq Range(ranks)
                      /\ Before(inSeat) \cap (KnownBy(rows, effs, key) \X KnownBy(rows, effs, key))
                           = Before(ranks) \cap (KnownIn(rows, effs, key, seat) \X KnownIn(rows, effs, key, seat))
                      /\ \A a, b \in DOMAIN inSeat :
                           a < b /\ inSeat[b] \in KnownBy(rows, effs, key) => inSeat[a] \in KnownBy(rows, effs, key)
  BY SMTT(20) DEF TablesConcur, KnownBy, KnownIn
<1> DEFINE Known == KnownBy(rows, effs, key)
           InSeat == KnownIn(rows, effs, key, seat)
<1>1. /\ ranks = rankPlayers(rows, effs, key, "All") /\ inSeat = drawRole(rows, effs, key, seat)
      /\ Known = {i \in DOMAIN rows : Sampled(rows[i]) /\ Value(rows[i], effs[i].eff, key) # NoValue}
      /\ InSeat = {i \in Known : seatOfPlayer(rows[i]) = seat}
  BY <1>0 DEF KnownBy, KnownIn
<1> SUFFICES /\ Range(inSeat) \cap Known = InSeat /\ InSeat \subseteq Range(ranks)
             /\ Before(inSeat) \cap (Known \X Known) = Before(ranks) \cap (InSeat \X InSeat)
             /\ \A a, b \in DOMAIN inSeat : a < b /\ inSeat[b] \in Known => inSeat[a] \in Known
  OBVIOUS
<1> HIDE DEF Known, InSeat
<1>2. PICK S, R : S = RowsInSeat(rows, seat) /\ R = RankedBy(rows, key, "All")
  OBVIOUS
<1>3. PICK v : /\ \A i \in S : v[i] = ShownOf(rows, effs, key, i)
               /\ \A m, n \in DOMAIN inSeat : m < n => Ahead(rows, v, inSeat[m], inSeat[n])
               /\ \A p \in S \X S : p \in Before(inSeat) <=> Ahead(rows, v, p[1], p[2])
  BY <1>1, <1>2, SeatTableIs
<1>4. PICK w : /\ \A i \in R : w[i] = Value(rows[i], effs[i].eff, key)
               /\ \A p \in R \X R : p \in Before(ranks) <=> Ahead(rows, w, p[1], p[2])
  BY <1>1, <1>2, LeaderboardIs
<1>5. /\ Range(inSeat) = S /\ Before(inSeat) \subseteq S \X S /\ Range(ranks) = R
      /\ \A n \in DOMAIN inSeat : inSeat[n] \in S
  <2>1. ListsOnce(S, inSeat) /\ ListsOnce(R, ranks)
    BY <1>1, <1>2, SeatTableIs, LeaderboardIs
  <2> QED BY <2>1 DEF ListsOnce, Range
<1>6. S \cap Known = InSeat
  <2>1. seat # NoRole
    <3>1. PICK r \in Roles : seat \in ROLE_SEATS[r]
      OBVIOUS
    <3> QED BY <3>1 DEF Roles, ROLE_SEATS, NoRole
  <2>2. ASSUME NEW i \in InSeat PROVE rows[i].role # NoRole
    <3>1. IsRow(rows[i])
      BY <1>1, DivisionIs
    <3> QED BY <1>1, <2>1, <3>1, SeatIs
  <2> QED BY <1>1, <1>2, <2>2 DEF RowsInSeat
<1>7. InSeat \subseteq R
  BY <1>1, <1>2 DEF RankedBy
<1>8. \A i \in InSeat : v[i] = w[i]
  <2> TAKE i \in InSeat
  <2>1. v[i] = ShownOf(rows, effs, key, i) /\ w[i] = Value(rows[i], effs[i].eff, key)
    BY <1>3, <1>4, <1>6, <1>7
  <2> QED BY <1>1, <2>1 DEF ShownOf
<1>9. Before(inSeat) \cap (Known \X Known) = Before(ranks) \cap (InSeat \X InSeat)
  <2>1. ASSUME NEW p \in InSeat \X InSeat PROVE p \in Before(inSeat) <=> p \in Before(ranks)
    <3>1. p \in S \X S /\ p \in R \X R /\ v[p[1]] = w[p[1]] /\ v[p[2]] = w[p[2]]
      BY <1>6, <1>7, <1>8
    <3>2. Ahead(rows, v, p[1], p[2]) <=> Ahead(rows, w, p[1], p[2])
      BY <3>1, AheadAlike
    <3> QED BY <1>3, <1>4, <3>1, <3>2
  <2>2. Before(inSeat) \cap (Known \X Known) \subseteq InSeat \X InSeat
    BY <1>5, <1>6
  <2>3. InSeat \X InSeat \subseteq Known \X Known
    BY <1>6
  <2> QED BY <2>1, <2>2, <2>3
<1>10. ASSUME NEW a \in DOMAIN inSeat, NEW b \in DOMAIN inSeat, a < b, inSeat[b] \in Known
       PROVE  inSeat[a] \in Known
  <2>1. PICK i \in S, j \in S : i = inSeat[a] /\ j = inSeat[b] /\ i \in DOMAIN rows
    BY <1>2, <1>5 DEF RowsInSeat
  <2>2. Ahead(rows, v, i, j)
    BY <1>3, <1>10, <2>1
  <2>3. v[j] # NoValue
    <3>1. v[j] = ShownOf(rows, effs, key, j)
      BY <1>3
    <3> QED BY <1>1, <1>10, <2>1, <3>1 DEF ShownOf
  <2>4. v[i] # NoValue
    BY <2>2, <2>3 DEF Ahead
  <2>5. ShownOf(rows, effs, key, i) # NoValue
    BY <1>3, <2>4
  <2>6. Value(rows[i], effs[i].eff, key) # NoValue /\ (key \in KEYS => Sampled(rows[i]))
    BY <2>5 DEF ShownOf
  <2>7. Sampled(rows[i])
    BY <1>1, <2>1, <2>6, ValueIs
  <2> QED BY <1>1, <2>1, <2>6, <2>7
<1> QED BY <1>5, <1>6, <1>7, <1>9, <1>10

\* What the tab of players shows by team, by seat and by rank.
LEMMA TabsAre ==
    ASSUME NEW rows, NEW effs, effs = efficiencyRatings(rows)
    PROVE  /\ renderPlayers(rows, Controls("team", "eff", "All", "Tank"))
                = [t \in {rows[i].team : i \in DOMAIN rows} |-> drawTeam(rows, t)]
           /\ \A s : renderPlayers(rows, Controls("role", "dmg", "All", s))
                       = [table |-> drawRole(rows, effs, "dmg", s), foot |-> unseated(rows)]
           /\ \A r : renderPlayers(rows, Controls("rank", "elo", r, "Tank")) = rankPlayers(rows, effs, "elo", r)
<1>1. \A ui : renderPlayers(rows, ui) = Tab(rows, effs, ui)
  BY DEF renderPlayers
<1>2. ASSUME NEW ui, ui.view = "team"
      PROVE  Tab(rows, effs, ui) = [t \in {rows[i].team : i \in DOMAIN rows} |-> drawTeam(rows, t)]
  BY <1>2, Zenon DEF Tab
<1>3. ASSUME NEW ui, ui.view = "role"
      PROVE  Tab(rows, effs, ui) = [table |-> drawRole(rows, effs, ui.roleSort, ui.seat), foot |-> unseated(rows)]
  BY <1>3 DEF Tab
<1>4. ASSUME NEW ui, ui.view = "rank" PROVE Tab(rows, effs, ui) = rankPlayers(rows, effs, ui.sort, ui.role)
  BY <1>4 DEF Tab
<1>5. renderPlayers(rows, Controls("team", "eff", "All", "Tank"))
        = [t \in {rows[i].team : i \in DOMAIN rows} |-> drawTeam(rows, t)]
  <2>1. PICK ui : ui = Controls("team", "eff", "All", "Tank")
    OBVIOUS
  <2>0. ui.view = "team"
    BY <2>1 DEF Controls
  <2>2. Tab(rows, effs, ui) = [t \in {rows[i].team : i \in DOMAIN rows} |-> drawTeam(rows, t)]
    BY <1>2, <2>0
  <2> QED BY <1>1, <2>1, <2>2
<1>6. ASSUME NEW s
      PROVE  renderPlayers(rows, Controls("role", "dmg", "All", s))
               = [table |-> drawRole(rows, effs, "dmg", s), foot |-> unseated(rows)]
  <2>1. PICK ui : ui = Controls("role", "dmg", "All", s)
    OBVIOUS
  <2>2. ui.view = "role" /\ ui.roleSort = "dmg" /\ ui.seat = s
    BY <2>1 DEF Controls
  <2> QED BY <1>1, <1>3, <2>1, <2>2
<1>7. ASSUME NEW r PROVE renderPlayers(rows, Controls("rank", "elo", r, "Tank")) = rankPlayers(rows, effs, "elo", r)
  <2>1. PICK ui : ui = Controls("rank", "elo", r, "Tank")
    OBVIOUS
  <2>2. ui.view = "rank" /\ ui.sort = "elo" /\ ui.role = r
    BY <2>1 DEF Controls
  <2> QED BY <1>1, <1>4, <2>1, <2>2
<1> QED BY <1>5, <1>6, <1>7

\* The teams hold every row once.
LEMMA TeamsHoldAll ==
    ASSUME NEW rows, IsDivision(rows), NEW cards,
           cards = [t \in {rows[i].team : i \in DOMAIN rows} |-> drawTeam(rows, t)]
    PROVE  /\ \A t \in DOMAIN cards : IsInjective(cards[t])
           /\ SumOver(DOMAIN cards, [t \in DOMAIN cards |-> Len(cards[t])]) = Len(rows)
<1>1. PICK Ts : Ts = {rows[i].team : i \in DOMAIN rows}
  OBVIOUS
<1>2. DOMAIN cards = Ts /\ \A t \in Ts : cards[t] = drawTeam(rows, t)
  BY <1>1
<1>3. \A t \in Ts : ListsOnce(RowsOfTeam(rows, t), cards[t])
  BY <1>2, TeamIs
<1>4. IsFiniteSet(Ts)
  <2>1. PICK g : g = [i \in DOMAIN rows |-> rows[i].team]
    OBVIOUS
  <2>2. Ts = Image(DOMAIN rows, g)
    BY <1>1, <2>1 DEF Image
  <2>3. IsFiniteSet(DOMAIN rows)
    BY DivisionIs
  <2> QED BY <2>2, <2>3, ImageOf
<1>5. PICK of, f : of = [t \in Ts |-> RowsOfTeam(rows, t)] /\ f = [t \in Ts |-> Len(cards[t])]
  OBVIOUS
<1>6. Each(Ts, of, f)
  BY <1>3, <1>5 DEF Each, ListsOnce
<1>7. All(Ts, of) = DOMAIN rows
  <2>1. ASSUME NEW i \in DOMAIN rows PROVE i \in All(Ts, of)
    <3>1. PICK t \in Ts : t = rows[i].team
      BY <1>1
    <3>2. i \in of[t]
      BY <1>5, <3>1 DEF RowsOfTeam
    <3> QED BY <3>2 DEF All
  <2>2. ASSUME NEW i \in All(Ts, of) PROVE i \in DOMAIN rows
    <3>1. PICK t \in Ts : i \in of[t]
      BY DEF All
    <3> QED BY <1>5, <3>1 DEF RowsOfTeam
  <2> QED BY <2>1, <2>2
<1>8. \A t, u \in Ts : t # u => of[t] \cap of[u] = {}
  BY <1>5 DEF RowsOfTeam
<1>9. SumOver(Ts, f) = Cardinality(All(Ts, of))
  BY <1>4, <1>6, <1>8, SumOfClasses
<1>10. SumOver(Ts, f) = Len(rows)
  BY <1>7, <1>9, DivisionIs
<1> QED BY <1>2, <1>3, <1>5, <1>10 DEF ListsOnce

\* The seats and the foot hold every player with a role once.
LEMMA SeatsHoldAll ==
    ASSUME NEW rows, IsDivision(rows), NEW Seats, Seats = UNION {ROLE_SEATS[r] : r \in Roles},
           NEW its, NEW i \in DOMAIN rows, its = {s \in Seats : i \in RowsInSeat(rows, s)}
    PROVE  Cardinality(its) + (IF i \in unseated(rows) THEN 1 ELSE 0)
             = IF rows[i].role = NoRole THEN 0 ELSE 1
<1>2. its = {s \in Seats : rows[i].role # NoRole /\ seatOfPlayer(rows[i]) = s}
  BY DEF RowsInSeat
<1>3. NoRole \notin Seats
  <2>1. \A r \in Roles : NoRole \notin ROLE_SEATS[r]
    BY DEF Roles, ROLE_SEATS, NoRole
  <2> QED BY <2>1
<1>4. IsRow(rows[i])
  BY DivisionIs
<1>5. CASE rows[i].role = NoRole
  <2>1. its = {} /\ i \notin unseated(rows)
    BY <1>2, <1>5 DEF unseated
  <2> QED BY <1>5, <2>1, FS_EmptySet
<1>6. CASE rows[i].role # NoRole /\ seatOfPlayer(rows[i]) = NoRole
  <2>1. its = {} /\ i \in unseated(rows)
    BY <1>2, <1>3, <1>6 DEF unseated
  <2> QED BY <1>6, <2>1, FS_EmptySet
<1>7. CASE rows[i].role # NoRole /\ seatOfPlayer(rows[i]) # NoRole
  <2>1. PICK s : s = seatOfPlayer(rows[i])
    OBVIOUS
  <2>2. s \in Seats
    BY <1>4, <1>7, <2>1, SeatIs
  <2>3. its = {s} /\ i \notin unseated(rows)
    BY <1>2, <1>7, <2>1, <2>2 DEF unseated
  <2>4. Cardinality({s}) = 1
    BY FS_Singleton
  <2> QED BY <1>7, <2>3, <2>4
<1> QED BY <1>5, <1>6, <1>7

\* No table of players loses or repeats anybody, in any division.
LEMMA OnceAlways ==
    ASSUME NEW rows, IsDivision(rows)
    PROVE  EverybodyOnce(rows)
<1>1. PICK effs : effs = efficiencyRatings(rows)
  OBVIOUS
<1>2. PICK Seats : Seats = UNION {ROLE_SEATS[r] : r \in Roles}
  OBVIOUS
<1>3. ASSUME NEW cards, cards = renderPlayers(rows, Controls("team", "eff", "All", "Tank"))
      PROVE  /\ \A t \in DOMAIN cards : IsInjective(cards[t])
             /\ SumOver(DOMAIN cards, [t \in DOMAIN cards |-> Len(cards[t])]) = Len(rows)
  BY <1>1, <1>3, TabsAre, TeamsHoldAll
<1>4. ASSUME NEW seated, seated = [s \in Seats |-> renderPlayers(rows, Controls("role", "dmg", "All", s))],
             NEW i \in DOMAIN rows
      PROVE  Cardinality({s \in Seats : i \in Range(seated[s].table)}) + (IF i \in seated["Tank"].foot THEN 1 ELSE 0)
               = IF rows[i].role = NoRole THEN 0 ELSE 1
  <2>1. \A s \in Seats : seated[s] = [table |-> drawRole(rows, effs, "dmg", s), foot |-> unseated(rows)]
    BY <1>1, <1>4, TabsAre
  <2>2. "dmg" \in RateKeys
    BY DEF RateKeys, KEYS
  <2>3. ASSUME NEW s \in Seats PROVE Range(seated[s].table) = RowsInSeat(rows, s)
    <3>1. PICK list : list = drawRole(rows, effs, "dmg", s)
      OBVIOUS
    <3>2. ListsOnce(RowsInSeat(rows, s), list)
      BY <1>1, <2>2, <3>1, SeatTableIs
    <3>3. seated[s] = [table |-> list, foot |-> unseated(rows)]
      BY <2>1, <3>1
    <3>4. seated[s].table = list
      BY <3>3
    <3> QED BY <3>2, <3>4 DEF ListsOnce
  <2>4. seated["Tank"].foot = unseated(rows)
    <3>1. "Tank" \in ROLE_SEATS["Tank"] /\ "Tank" \in Roles
      BY DEF ROLE_SEATS, Roles
    <3>2. "Tank" \in Seats
      BY <1>2, <3>1
    <3>3. seated["Tank"] = [table |-> drawRole(rows, effs, "dmg", "Tank"), foot |-> unseated(rows)]
      BY <2>1, <3>2
    <3> QED BY <3>3
  <2>5. PICK its : its = {s \in Seats : i \in RowsInSeat(rows, s)}
    OBVIOUS
  <2>6. its = {s \in Seats : i \in Range(seated[s].table)}
    BY <2>3, <2>5
  <2>7. Cardinality(its) + (IF i \in unseated(rows) THEN 1 ELSE 0) = IF rows[i].role = NoRole THEN 0 ELSE 1
    BY <1>2, <2>5, SeatsHoldAll
  <2> QED BY <2>4, <2>6, <2>7
<1>5. ASSUME NEW ranks, ranks = [r \in Roles \cup {"All"} |-> renderPlayers(rows, Controls("rank", "elo", r, "Tank"))]
      PROVE  /\ Len(ranks["All"]) = Len(rows) /\ IsInjective(ranks["All"])
             /\ \A r \in Roles : /\ Range(ranks[r]) = {i \in DOMAIN rows : rows[i].role = r} /\ IsInjective(ranks[r])
                                 /\ Before(ranks[r]) \subseteq Before(ranks["All"])
  <2>1. \A r \in Roles \cup {"All"} : ranks[r] = rankPlayers(rows, effs, "elo", r)
    BY <1>1, <1>5, TabsAre
  <2>2. "elo" \in RateKeys \cup {"elo"} /\ "elo" \notin RateKeys
    BY DEF RateKeys, KEYS
  <2>3. RankedBy(rows, "elo", "All") = DOMAIN rows
    BY <2>2 DEF RankedBy
  <2>4. \A r \in Roles : RankedBy(rows, "elo", r) = {i \in DOMAIN rows : rows[i].role = r}
    <3>1. \A r \in Roles : r # "All"
      BY DEF Roles
    <3> QED BY <2>2, <3>1 DEF RankedBy
  <2>5. ListsOnce(DOMAIN rows, ranks["All"])
    BY <1>1, <2>1, <2>2, <2>3, LeaderboardIs
  <2>6. PICK w : /\ \A i \in DOMAIN rows : w[i] = Value(rows[i], effs[i].eff, "elo")
                 /\ \A p \in (DOMAIN rows) \X (DOMAIN rows) :
                      p \in Before(ranks["All"]) <=> Ahead(rows, w, p[1], p[2])
    BY <1>1, <2>1, <2>2, <2>3, LeaderboardIs
  <2>7. ASSUME NEW r \in Roles
        PROVE  /\ Range(ranks[r]) = {i \in DOMAIN rows : rows[i].role = r} /\ IsInjective(ranks[r])
               /\ Before(ranks[r]) \subseteq Before(ranks["All"])
    <3>1. PICK R : R = RankedBy(rows, "elo", r) /\ R = {i \in DOMAIN rows : rows[i].role = r}
      BY <2>4
    <3>2. ListsOnce(R, ranks[r])
      BY <1>1, <2>1, <2>2, <3>1, LeaderboardIs
    <3>3. PICK v : /\ \A i \in R : v[i] = Value(rows[i], effs[i].eff, "elo")
                   /\ \A p \in R \X R : p \in Before(ranks[r]) <=> Ahead(rows, v, p[1], p[2])
      BY <1>1, <2>1, <2>2, <3>1, LeaderboardIs
    <3>4. ASSUME NEW p \in Before(ranks[r]) PROVE p \in Before(ranks["All"])
      <4>1. p \in R \X R
        BY <3>2 DEF ListsOnce
      <4>2. p \in (DOMAIN rows) \X (DOMAIN rows) /\ v[p[1]] = w[p[1]] /\ v[p[2]] = w[p[2]]
        BY <2>6, <3>1, <3>3, <4>1
      <4>3. Ahead(rows, v, p[1], p[2])
        BY <3>3, <4>1
      <4> QED BY <2>6, <4>2, <4>3, AheadAlike
    <3> QED BY <3>1, <3>2, <3>4 DEF ListsOnce
  <2>8. Len(ranks["All"]) = Len(rows) /\ IsInjective(ranks["All"])
    BY <2>5, DivisionIs DEF ListsOnce
  <2> QED BY <2>7, <2>8
<1> QED BY <1>2, <1>3, <1>4, <1>5 DEF EverybodyOnce

\* pure.js efficiencyRatings and rankPlayers, app.js renderPlayers and renderPlayer: whatever
\* the rows of a division, whoever is rated is so among peers, the tables never disagree,
\* and no view loses anybody or shows anybody twice.
THEOREM PlayersAlwaysFair ==
    ASSUME NEW rows, IsDivision(rows)
    PROVE  PlayersAreFair(rows)
BY RatedAlways, TablesAlways, OnceAlways DEF PlayersAreFair
=============================================================================
