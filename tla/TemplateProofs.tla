--------------------------- MODULE TemplateProofs ---------------------------
(***************************************************************************)
(* Proofs about the arguments of a command (Args) and about the layout and *)
(* the contents of a file system (Template, Elements).                     *)
(*                                                                         *)
(* Sums over sets of files are recursive functions on the subsets of a     *)
(* set.  What is needed of them is proved by induction: the numbers for    *)
(* which a statement fails have a least one (LeastOf), and the statement   *)
(* holds of it.                                                            *)
(***************************************************************************)
EXTENDS Template, Args, FiniteSetTheorems, TLAPS

-----------------------------------------------------------------------------
(* Numbers and sums.                                                       *)

(* A set of naturals has a least element.                                  *)
LEMMA LeastOf ==
    ASSUME NEW S \in SUBSET Nat, S # {}
    PROVE  \E m \in S : \A k \in S : m <= k
<1> DEFINE R == {ss \in Nat \X Nat : ss[1] < ss[2]}
<1>1. IsWellFoundedOn(R, Nat)
    BY NatLessThanWellFounded DEF OpToRel
<1>2. PICK m \in S : \A k \in S : ~ (<<k, m>> \in R)
    BY <1>1, WFMin
<1>3. ASSUME NEW k \in S PROVE m <= k
    <2>1. <<k, m>> \notin R /\ <<k, m>> \in Nat \X Nat
        BY <1>2
    <2>. QED  BY <2>1
<1>. QED  BY <1>3

(* A set of naturals with 0 and the successor of each is all of them.      *)
LEMMA Induction ==
    ASSUME NEW P \in SUBSET Nat, 0 \in P, \A n \in P : n + 1 \in P
    PROVE  P = Nat
<1>1. SUFFICES ASSUME P # Nat PROVE FALSE
    OBVIOUS
<1>2. PICK m \in Nat \ P : \A k \in Nat \ P : m <= k
    BY <1>1, LeastOf
<1>3. m # 0 /\ m - 1 \in Nat /\ ~ (m <= m - 1)
    BY <1>2
<1>4. m - 1 \in P
    BY <1>2, <1>3
<1>5. (m - 1) + 1 = m
    BY <1>2
<1>. QED  BY <1>2, <1>4, <1>5

\* The equation of a sum of g over the subsets of S.
IsSum(f, g, S) ==
    f = [s \in SUBSET S |-> IF s = {} THEN 0 ELSE LET x == CHOOSE y \in s : TRUE IN g[x] + f[s \ {x}]]

(* A sum is the value of a function that solves the equation.              *)
LEMMA SumIs ==
    ASSUME NEW g, NEW S, NEW f, IsSum(f, g, S)
    PROVE  \E h : IsSum(h, g, S) /\ SumFunctionOnSet(g, S) = h[S]
BY DEF IsSum, SumFunctionOnSet, FoldFunctionOnSet, MapThenFoldSet

(* The equation of a sum of numbers has a solution: the functions that     *)
(* solve it on sets of at most n elements grow with n.                     *)
LEMMA SumExists ==
    ASSUME NEW S, IsFiniteSet(S), NEW g, \A x \in S : g[x] \in Nat
    PROVE  \E f : IsSum(f, g, S) /\ f \in [SUBSET S -> Nat]
<1> DEFINE C(s) == CHOOSE y \in s : TRUE
           Solves(f, n) == \A s \in SUBSET S : Cardinality(s) <= n =>
                              f[s] = IF s = {} THEN 0 ELSE g[C(s)] + f[s \ {C(s)}]
           P == {n \in Nat : \E f \in [SUBSET S -> Nat] : Solves(f, n)}
<1>1. \A s \in SUBSET S : IsFiniteSet(s) /\ Cardinality(s) \in Nat /\ Cardinality(s) <= Cardinality(S)
    BY FS_Subset, FS_CardinalityType
<1>2. \A s \in SUBSET S : s # {} =>
            C(s) \in s /\ s \ {C(s)} \in SUBSET S /\ Cardinality(s \ {C(s)}) = Cardinality(s) - 1
    BY <1>1, FS_RemoveElement
<1>3. 0 \in P
    <2>1. \A s \in SUBSET S : Cardinality(s) <= 0 => s = {}
        BY <1>1, FS_EmptySet
    <2>2. [s \in SUBSET S |-> 0] \in [SUBSET S -> Nat] /\ Solves([s \in SUBSET S |-> 0], 0)
        BY <2>1
    <2>. QED  BY <2>2
<1>4. ASSUME NEW n \in P PROVE n + 1 \in P
    <2>1. PICK f \in [SUBSET S -> Nat] : Solves(f, n)
        OBVIOUS
    <2> DEFINE h == [s \in SUBSET S |->
                        IF Cardinality(s) <= n THEN f[s] ELSE IF s = {} THEN 0 ELSE g[C(s)] + f[s \ {C(s)}]]
    <2>2. h \in [SUBSET S -> Nat]
        BY <1>2
    <2>3. ASSUME NEW s \in SUBSET S, Cardinality(s) <= n + 1, s # {}
          PROVE  h[s] = g[C(s)] + h[s \ {C(s)}]
        <3>1. Cardinality(s \ {C(s)}) <= n /\ s \ {C(s)} \in SUBSET S
            BY <1>1, <1>2, <2>3
        <3>2. h[s \ {C(s)}] = f[s \ {C(s)}]
            BY <3>1
        <3>3. h[s] = g[C(s)] + f[s \ {C(s)}]
            BY <2>1, <2>3
        <3>. QED  BY <3>2, <3>3
    <2>4. h[{}] = 0
        <3>1. Cardinality({}) = 0 /\ {} \in SUBSET S /\ n \in Nat
            BY FS_EmptySet
        <3>2. f[{}] = 0
            BY <2>1, <3>1
        <3>. QED  BY <3>1, <3>2
    <2>5. Solves(h, n + 1)
        <3>. HIDE DEF h
        <3>1. ASSUME NEW s \in SUBSET S, Cardinality(s) <= n + 1
              PROVE  h[s] = IF s = {} THEN 0 ELSE g[C(s)] + h[s \ {C(s)}]
            BY <2>3, <2>4, <3>1
        <3>. QED  BY <3>1
    <2>6. n + 1 \in Nat
        OBVIOUS
    <2> HIDE DEF Solves, h
    <2>. QED  BY <2>2, <2>5, <2>6
<1>5. P = Nat
    BY <1>3, <1>4, Induction
<1>6. Cardinality(S) \in P
    BY <1>1, <1>5
<1>7. PICK f \in [SUBSET S -> Nat] : Solves(f, Cardinality(S))
    BY <1>6
<1>8. \A s \in SUBSET S : f[s] = IF s = {} THEN 0 ELSE g[C(s)] + f[s \ {C(s)}]
    BY <1>1, <1>7
<1>9. IsSum(f, g, S)
    BY <1>8 DEF IsSum
<1>. QED  BY <1>9

(* A solution on S gives the sums over all the subsets of S.               *)
LEMMA SumValue ==
    ASSUME NEW S, IsFiniteSet(S), NEW g, NEW f, IsSum(f, g, S), NEW T \in SUBSET S
    PROVE  SumFunctionOnSet(g, T) = f[T]
<1> DEFINE C(s) == CHOOSE y \in s : TRUE
           r == [s \in SUBSET T |-> f[s]]
<1>1. IsSum(r, g, T)
    <2>1. \A s \in SUBSET T : s # {} => s \ {C(s)} \in SUBSET T
        OBVIOUS
    <2>2. \A s \in SUBSET T : f[s] = IF s = {} THEN 0 ELSE g[C(s)] + f[s \ {C(s)}]
        BY DEF IsSum
    <2>. QED  BY <2>1, <2>2 DEF IsSum
<1>2. PICK h : IsSum(h, g, T) /\ SumFunctionOnSet(g, T) = h[T]
    BY <1>1, SumIs
<1> DEFINE P == {n \in Nat : \A s \in SUBSET T : Cardinality(s) <= n => h[s] = f[s]}
<1>3. \A s \in SUBSET T : IsFiniteSet(s) /\ Cardinality(s) \in Nat
    BY FS_Subset, FS_CardinalityType
<1>4. \A s \in SUBSET T : s # {} =>
            C(s) \in s /\ s \ {C(s)} \in SUBSET T /\ Cardinality(s \ {C(s)}) = Cardinality(s) - 1
    BY <1>3, FS_RemoveElement
<1>5. \A s \in SUBSET T :
            /\ h[s] = IF s = {} THEN 0 ELSE g[C(s)] + h[s \ {C(s)}]
            /\ f[s] = IF s = {} THEN 0 ELSE g[C(s)] + f[s \ {C(s)}]
    BY <1>2 DEF IsSum
<1>6. 0 \in P
    <2>1. \A s \in SUBSET T : Cardinality(s) <= 0 => s = {}
        BY <1>3, FS_EmptySet
    <2>. QED  BY <1>5, <2>1
<1>7. ASSUME NEW n \in P PROVE n + 1 \in P
    <2>1. ASSUME NEW s \in SUBSET T, Cardinality(s) <= n + 1, s # {} PROVE h[s] = f[s]
        <3>1. Cardinality(s \ {C(s)}) <= n /\ s \ {C(s)} \in SUBSET T
            BY <1>3, <1>4, <2>1
        <3>2. h[s \ {C(s)}] = f[s \ {C(s)}]
            BY <3>1
        <3>. QED  BY <1>5, <2>1, <3>2
    <2>2. h[{}] = f[{}]
        BY <1>5
    <2>. QED  BY <2>1, <2>2
<1>8. P = Nat
    BY <1>6, <1>7, Induction
<1>9. Cardinality(T) \in P
    BY <1>3, <1>8
<1>10. h[T] = f[T]
    BY <1>3, <1>9
<1>. QED  BY <1>2, <1>10

(* A sum does not depend on the order: any element may be the first.       *)
LEMMA SumRemove ==
    ASSUME NEW S, IsFiniteSet(S), NEW g, \A x \in S : g[x] \in Nat
    PROVE  /\ SumFunctionOnSet(g, S) \in Nat
           /\ SumFunctionOnSet(g, {}) = 0
           /\ \A x \in S : SumFunctionOnSet(g, S) = g[x] + SumFunctionOnSet(g, S \ {x})
<1> DEFINE C(s) == CHOOSE y \in s : TRUE
<1>1. PICK f \in [SUBSET S -> Nat] : IsSum(f, g, S)
    BY SumExists
<1>2. \A s \in SUBSET S : SumFunctionOnSet(g, s) = f[s]
    BY <1>1, SumValue
<1>3. \A s \in SUBSET S : f[s] = IF s = {} THEN 0 ELSE g[C(s)] + f[s \ {C(s)}]
    BY <1>1 DEF IsSum
<1>4. \A s \in SUBSET S : IsFiniteSet(s) /\ Cardinality(s) \in Nat
    BY FS_Subset, FS_CardinalityType
<1>5. \A s \in SUBSET S : \A x \in s :
            s \ {x} \in SUBSET S /\ Cardinality(s \ {x}) = Cardinality(s) - 1
    BY <1>4, FS_RemoveElement
<1> DEFINE P == {n \in Nat : \A s \in SUBSET S : Cardinality(s) <= n =>
                                \A x \in s : f[s] = g[x] + f[s \ {x}]}
<1>6. 0 \in P
    <2>1. \A s \in SUBSET S : Cardinality(s) <= 0 => s = {}
        BY <1>4, FS_EmptySet
    <2>. QED  BY <2>1
<1>7. ASSUME NEW n \in P PROVE n + 1 \in P
    <2>1. ASSUME NEW s \in SUBSET S, Cardinality(s) <= n + 1, NEW x \in s, x # C(s)
          PROVE  f[s] = g[x] + f[s \ {x}]
        <3> DEFINE c == C(s)
        <3>1. c \in s /\ c # x
            BY <2>1
        <3> HIDE DEF c
        <3>2. f[s] = g[c] + f[s \ {c}]
            BY <1>3, <2>1 DEF c
        <3>3. Cardinality(s \ {c}) <= n /\ s \ {c} \in SUBSET S /\ x \in s \ {c}
            BY <1>4, <1>5, <3>1, <2>1
        <3>4. f[s \ {c}] = g[x] + f[(s \ {c}) \ {x}]
            BY <3>3
        <3>5. Cardinality(s \ {x}) <= n /\ s \ {x} \in SUBSET S /\ c \in s \ {x}
            BY <1>4, <1>5, <3>1, <2>1
        <3>6. f[s \ {x}] = g[c] + f[(s \ {x}) \ {c}]
            BY <3>5
        <3> DEFINE rest == f[(s \ {x}) \ {c}]
        <3>7. (s \ {x}) \ {c} = (s \ {c}) \ {x} /\ (s \ {x}) \ {c} \in SUBSET S
            OBVIOUS
        <3>8. f[(s \ {c}) \ {x}] = rest
            BY <3>7
        <3>9. g[c] \in Nat /\ g[x] \in Nat /\ rest \in Nat
            BY <1>1, <3>1, <3>7
        <3>10. f[s] = g[c] + (g[x] + rest) /\ f[s \ {x}] = g[c] + rest
            BY <3>2, <3>4, <3>6, <3>8
        <3> HIDE DEF rest
        <3>. QED  BY <3>9, <3>10
    <2>2. ASSUME NEW s \in SUBSET S, NEW x \in s, x = C(s)
          PROVE  f[s] = g[x] + f[s \ {x}]
        BY <1>3, <2>2
    <2>3. ASSUME NEW s \in SUBSET S, Cardinality(s) <= n + 1, NEW x \in s
          PROVE  f[s] = g[x] + f[s \ {x}]
        BY <2>1, <2>2, <2>3
    <2>. QED  BY <2>3
<1>8. P = Nat
    BY <1>6, <1>7, Induction
<1>9. Cardinality(S) \in P
    BY <1>4, <1>8
<1>10. \A x \in S : f[S] = g[x] + f[S \ {x}]
    BY <1>4, <1>9
<1>11. f[{}] = 0 /\ f[S] \in Nat
    BY <1>1, <1>3
<1>. QED  BY <1>2, <1>10, <1>11

(* A sum over fewer elements is no greater.                                *)
LEMMA SumMonotone ==
    ASSUME NEW S, IsFiniteSet(S), NEW g, \A x \in S : g[x] \in Nat, NEW T \in SUBSET S
    PROVE  SumFunctionOnSet(g, T) <= SumFunctionOnSet(g, S)
<1> DEFINE sum(s) == SumFunctionOnSet(g, s)
           P == {n \in Nat : \A s \in SUBSET S : Cardinality(s) <= n => (T \subseteq s => sum(T) <= sum(s))}
<1>1. \A s \in SUBSET S : IsFiniteSet(s) /\ Cardinality(s) \in Nat
    BY FS_Subset, FS_CardinalityType
<1>2. \A s \in SUBSET S : sum(s) \in Nat /\ \A x \in s : sum(s) = g[x] + sum(s \ {x})
    BY <1>1, SumRemove
<1>3. \A s \in SUBSET S : \A x \in s :
            s \ {x} \in SUBSET S /\ Cardinality(s \ {x}) = Cardinality(s) - 1
    BY <1>1, FS_RemoveElement
<1> HIDE DEF sum
<1>4. 0 \in P
    <2>1. \A s \in SUBSET S : Cardinality(s) <= 0 => s = {}
        BY <1>1, FS_EmptySet
    <2>2. \A s \in SUBSET S : Cardinality(s) <= 0 /\ T \subseteq s => s = T
        BY <2>1
    <2>. QED  BY <1>2, <2>2
<1>5. ASSUME NEW n \in P PROVE n + 1 \in P
    <2>1. ASSUME NEW s \in SUBSET S, Cardinality(s) <= n + 1, T \subseteq s, T # s
          PROVE  sum(T) <= sum(s)
        <3>1. PICK x \in s : x \notin T
            BY <2>1
        <3>2. Cardinality(s \ {x}) <= n /\ s \ {x} \in SUBSET S /\ T \subseteq s \ {x}
            BY <1>1, <1>3, <2>1, <3>1
        <3>3. sum(T) <= sum(s \ {x})
            BY <3>2
        <3>4. sum(s) = g[x] + sum(s \ {x}) /\ g[x] \in Nat /\ sum(T) \in Nat /\ sum(s \ {x}) \in Nat
            BY <1>2, <3>2
        <3>. QED  BY <3>3, <3>4
    <2>2. sum(T) <= sum(T)
        BY <1>2
    <2>. QED  BY <2>1, <2>2
<1>6. P = Nat
    BY <1>4, <1>5, Induction
<1>7. Cardinality(S) \in P
    BY <1>1, <1>6
<1>8. sum(T) <= sum(S)
    BY <1>1, <1>7
<1>. QED  BY <1>8 DEF sum
-----------------------------------------------------------------------------
(* The layout of a template.                                               *)

IsTemplate(t) == t \in Seq([block : {"gfb", "iss", "isf"}, id : 0..255, size : Nat, stock : BOOLEAN])

\* The places of the template's files with an id below n.
Below(t, b, n) == {k \in InBlock(t, b) : t[k].id < n}

(* A finite set of positive numbers has a maximum, and Max is it.          *)
LEMMA MaxOf ==
    ASSUME NEW n \in Nat, NEW S \in SUBSET (1..n), S # {}
    PROVE  Max(S) \in S /\ \A k \in S : k <= Max(S)
<1> DEFINE D == {n - k : k \in S}
<1>1. D \in SUBSET Nat /\ D # {}
    OBVIOUS
<1> HIDE DEF D
<1>2. PICK d \in D : \A e \in D : d <= e
    BY <1>1, LeastOf
<1>3. PICK m \in S : d = n - m
    BY <1>2 DEF D
<1>4. ASSUME NEW k \in S PROVE m >= k
    <2>1. d <= n - k
        BY <1>2 DEF D
    <2>2. m \in Nat /\ k \in Nat
        OBVIOUS
    <2>. QED  BY <1>3, <2>1, <2>2
<1>5. \E x \in S : \A y \in S : x >= y
    BY <1>4
<1>6. Max(S) \in S /\ \A k \in S : Max(S) >= k
    BY <1>5 DEF Max
<1>. QED  BY <1>6

(* The sizes of a template's files, and the places of its files.           *)
LEMMA TemplateFiles ==
    ASSUME NEW t, IsTemplate(t), NEW b
    PROVE  /\ DOMAIN t = 1..Len(t) /\ Len(t) \in Nat
           /\ \A k \in DOMAIN t : t[k].size \in Nat /\ t[k].id \in Nat
           /\ InBlock(t, b) \subseteq 1..Len(t)
           /\ IsFiniteSet(InBlock(t, b))
           /\ \A k \in DOMAIN t : [h \in DOMAIN t |-> t[h].size][k] = t[k].size
<1> DEFINE R == [block : {"gfb", "iss", "isf"}, id : 0..255, size : Nat, stock : BOOLEAN]
<1>0. t \in Seq(R)
    BY DEF IsTemplate
<1>1. DOMAIN t = 1..Len(t) /\ Len(t) \in Nat
    BY <1>0
<1>2. \A k \in DOMAIN t : t[k].size \in Nat /\ t[k].id \in Nat
    <2>1. \A k \in DOMAIN t : t[k] \in R
        <3> HIDE DEF R
        <3>. QED  BY <1>0
    <2>. QED  BY <2>1
<1>3. InBlock(t, b) \subseteq 1..Len(t)
    BY <1>1 DEF InBlock
<1>4. IsFiniteSet(1..Len(t))
    BY <1>1, FS_Interval
<1>. QED  BY <1>1, <1>2, <1>3, <1>4, FS_Subset

(* What the table has for an id is no more than the last of its files has. *)
LEMMA HdrAllocOf ==
    ASSUME NEW t, IsTemplate(t), NEW b, NEW i
    PROVE  /\ HdrAlloc(t, b, i) \in Nat
           /\ \/ HdrAlloc(t, b, i) = 0 /\ {k \in InBlock(t, b) : t[k].id = i} = {}
              \/ \E k \in InBlock(t, b) : t[k].id = i /\ HdrAlloc(t, b, i) <= t[k].size
<1> DEFINE files == {k \in InBlock(t, b) : t[k].id = i}
<1>1. CASE files = {}
    <2>1. HdrAlloc(t, b, i) = 0
        BY <1>1 DEF HdrAlloc
    <2>. QED  BY <1>1, <2>1
<1>2. CASE files # {}
    <2>1. files \in SUBSET (1..Len(t)) /\ Len(t) \in Nat
        BY TemplateFiles
    <2> DEFINE last == Max(files)
    <2>2. last \in files
        BY <1>2, <2>1, MaxOf
    <2>3. HdrAlloc(t, b, i) = t[last].size % 65536
        BY <1>2 DEF HdrAlloc
    <2> HIDE DEF last
    <2>4. PICK k \in files : HdrAlloc(t, b, i) = t[k].size % 65536
        BY <2>2, <2>3
    <2>5. t[k].size \in Nat
        BY TemplateFiles, <2>1
    <2>6. \A n \in Nat : n % 65536 \in Nat /\ n % 65536 <= n
        OBVIOUS
    <2>. QED  BY <2>4, <2>5, <2>6
<1>. QED  BY <1>1, <1>2

(* What the table has for the first n ids of a block is no more than the   *)
(* files with such an id have: each entry is one of its files.             *)
LEMMA BeforeBound ==
    ASSUME NEW t, IsTemplate(t), NEW b, NEW n \in Nat
    PROVE  /\ Before(t, b, n) \in Nat
           /\ Before(t, b, n + 1) = Before(t, b, n) + HdrAlloc(t, b, n)
           /\ Before(t, b, n) <= BlockAlloc(t, b)
<1> DEFINE size == [k \in DOMAIN t |-> t[k].size]
           g == [h \in Nat |-> HdrAlloc(t, b, h)]
           sum(T) == SumFunctionOnSet(size, T)
           P == {m \in Nat : Before(t, b, m) <= sum(Below(t, b, m))}
<1>1. /\ InBlock(t, b) \subseteq DOMAIN t /\ IsFiniteSet(InBlock(t, b))
      /\ \A k \in InBlock(t, b) : size[k] \in Nat /\ size[k] = t[k].size /\ t[k].id \in Nat
    BY TemplateFiles
<1>2. \A h \in Nat : g[h] \in Nat /\ g[h] = HdrAlloc(t, b, h)
    BY HdrAllocOf
<1> HIDE DEF size
<1>3. ASSUME NEW m \in Nat
      PROVE  /\ Before(t, b, m) \in Nat
             /\ Before(t, b, m + 1) = Before(t, b, m) + HdrAlloc(t, b, m)
    <2>1. IsFiniteSet(0..(m - 1)) /\ IsFiniteSet(0..m)
        BY FS_Interval
    <2>2. m \in 0..m /\ (0..m) \ {m} = 0..(m - 1) /\ (m + 1) - 1 = m
        OBVIOUS
    <2>3. (\A h \in 0..(m - 1) : g[h] \in Nat) /\ (\A h \in 0..m : g[h] \in Nat)
        BY <1>2
    <2>4. SumFunctionOnSet(g, 0..(m - 1)) \in Nat
        BY <2>1, <2>3, SumRemove
    <2>5. SumFunctionOnSet(g, 0..m) = g[m] + SumFunctionOnSet(g, (0..m) \ {m})
        BY <2>1, <2>2, <2>3, SumRemove
    <2>6. Before(t, b, m) = SumFunctionOnSet(g, 0..(m - 1))
        BY DEF Before
    <2>7. Before(t, b, m + 1) = SumFunctionOnSet(g, 0..m)
        BY <2>2 DEF Before
    <2>8. SumFunctionOnSet(g, (0..m) \ {m}) = SumFunctionOnSet(g, 0..(m - 1))
        BY <2>2
    <2>9. g[m] = HdrAlloc(t, b, m) /\ HdrAlloc(t, b, m) \in Nat
        BY HdrAllocOf
    <2> HIDE DEF g
    <2>. QED  BY <2>4, <2>5, <2>6, <2>7, <2>8, <2>9
<1>4. ASSUME NEW T \in SUBSET InBlock(t, b)
      PROVE  /\ IsFiniteSet(T) /\ sum(T) \in Nat
             /\ \A U \in SUBSET T : sum(U) <= sum(T)
             /\ \A k \in T : sum(T) = size[k] + sum(T \ {k})
    <2>1. IsFiniteSet(T) /\ \A k \in T : size[k] \in Nat
        BY <1>1, FS_Subset
    <2>. QED  BY <2>1, SumRemove, SumMonotone
<1> HIDE DEF sum
<1>5. 0 \in P
    <2>1. SumFunctionOnSet(g, {}) = 0
        BY FS_EmptySet, SumRemove
    <2>2. 0..(0 - 1) = {}
        OBVIOUS
    <2>3. Before(t, b, 0) = 0
        BY <2>1, <2>2 DEF Before
    <2>4. Below(t, b, 0) \in SUBSET InBlock(t, b)
        BY DEF Below
    <2>5. sum(Below(t, b, 0)) \in Nat
        BY <1>4, <2>4
    <2>. QED  BY <2>3, <2>5
<1>6. ASSUME NEW m \in P PROVE m + 1 \in P
    <2> DEFINE T == Below(t, b, m)
               U == Below(t, b, m + 1)
    <2>1. m \in Nat /\ Before(t, b, m) <= sum(T) /\ m + 1 \in Nat
        OBVIOUS
    <2>2. T \in SUBSET U /\ U \in SUBSET InBlock(t, b) /\ T \in SUBSET InBlock(t, b)
        BY <1>1 DEF Below
    <2>3. sum(T) \in Nat /\ sum(U) \in Nat /\ sum(T) <= sum(U)
        BY <1>4, <2>2
    <2>4. CASE HdrAlloc(t, b, m) = 0
        BY <1>3, <2>1, <2>3, <2>4
    <2>5. ASSUME NEW k \in InBlock(t, b), t[k].id = m, HdrAlloc(t, b, m) <= t[k].size
          PROVE  Before(t, b, m + 1) <= sum(U)
        <3>1. k \in U /\ T \in SUBSET (U \ {k}) /\ U \ {k} \in SUBSET InBlock(t, b)
            BY <1>1, <2>2, <2>5 DEF Below
        <3>2. sum(U) = size[k] + sum(U \ {k}) /\ sum(T) <= sum(U \ {k}) /\ sum(U \ {k}) \in Nat
            BY <1>4, <2>2, <3>1
        <3>3. size[k] = t[k].size /\ t[k].size \in Nat
            BY <1>1
        <3>4. Before(t, b, m) \in Nat /\ HdrAlloc(t, b, m) \in Nat
            BY <1>3, <2>1, HdrAllocOf
        <3>. QED  BY <1>3, <2>1, <2>3, <2>5, <3>2, <3>3, <3>4
    <2>. QED  BY <2>1, <2>4, <2>5, HdrAllocOf
<1>7. P = Nat
    BY <1>5, <1>6, Induction
<1>8. Before(t, b, n) <= sum(Below(t, b, n))
    BY <1>7
<1>9. Below(t, b, n) \in SUBSET InBlock(t, b) /\ BlockAlloc(t, b) = sum(InBlock(t, b))
    BY DEF Below, BlockAlloc, sum, size
<1>10. sum(Below(t, b, n)) <= sum(InBlock(t, b)) /\ sum(Below(t, b, n)) \in Nat /\ sum(InBlock(t, b)) \in Nat
    BY <1>4, <1>9
<1>. QED  BY <1>3, <1>8, <1>9, <1>10

(* The table places the entries of a block one behind the other.           *)
LEMMA BeforeGrows ==
    ASSUME NEW t, IsTemplate(t), NEW b, NEW n \in Nat, NEW m \in 0..(n - 1)
    PROVE  Before(t, b, m) + HdrAlloc(t, b, m) <= Before(t, b, n)
<1> DEFINE g == [h \in Nat |-> HdrAlloc(t, b, h)]
<1>1. \A h \in 0..(n - 1) : g[h] \in Nat
    BY HdrAllocOf
<1>2. IsFiniteSet(0..(n - 1)) /\ 0..m \in SUBSET (0..(n - 1)) /\ m \in Nat /\ (m + 1) - 1 = m
    BY FS_Interval
<1>3. SumFunctionOnSet(g, 0..m) <= SumFunctionOnSet(g, 0..(n - 1))
    BY <1>1, <1>2, SumMonotone
<1>4. Before(t, b, m + 1) = SumFunctionOnSet(g, 0..m) /\ Before(t, b, n) = SumFunctionOnSet(g, 0..(n - 1))
    BY <1>2 DEF Before
<1>5. Before(t, b, m + 1) = Before(t, b, m) + HdrAlloc(t, b, m)
    BY <1>2, BeforeBound
<1> HIDE DEF g
<1>. QED  BY <1>3, <1>4, <1>5

(* A block starts where the one before it ends.                            *)
LEMMA StartOf ==
    ASSUME NEW t, IsTemplate(t), NEW j \in 1..3
    PROVE  /\ Start(t, j) \in Nat
           /\ Start(t, j + 1) \in Nat
           /\ BlockAlloc(t, Blocks[j]) \in Nat
           /\ Start(t, j + 1) = Start(t, j) + BlockAlloc(t, Blocks[j])
<1> DEFINE g == [h \in 1..3 |-> BlockAlloc(t, Blocks[h])]
<1>1. ASSUME NEW b PROVE BlockAlloc(t, b) \in Nat
    <2> DEFINE size == [k \in DOMAIN t |-> t[k].size]
    <2>1. IsFiniteSet(InBlock(t, b)) /\ \A k \in InBlock(t, b) : size[k] \in Nat
        BY TemplateFiles
    <2>2. SumFunctionOnSet(size, InBlock(t, b)) \in Nat
        BY <2>1, SumRemove
    <2>. QED  BY <2>2 DEF BlockAlloc
<1>2. /\ IsFiniteSet(1..(j - 1)) /\ IsFiniteSet(1..j) /\ j \in 1..j
      /\ (1..j) \ {j} = 1..(j - 1) /\ (j + 1) - 1 = j
    <2>1. IsFiniteSet(1..(j - 1)) /\ IsFiniteSet(1..j)
        BY FS_Interval
    <2>2. j \in 1..j /\ (1..j) \ {j} = 1..(j - 1) /\ (j + 1) - 1 = j
        OBVIOUS
    <2>. QED  BY <2>1, <2>2
<1>3. (\A h \in 1..(j - 1) : g[h] \in Nat) /\ (\A h \in 1..j : g[h] \in Nat)
    BY <1>1
<1>4. SumFunctionOnSet(g, 1..(j - 1)) \in Nat /\ SumFunctionOnSet(g, 1..j) \in Nat
    BY <1>2, <1>3, SumRemove
<1>5. SumFunctionOnSet(g, 1..j) = g[j] + SumFunctionOnSet(g, (1..j) \ {j})
    BY <1>2, <1>3, SumRemove
<1>6. SumFunctionOnSet(g, (1..j) \ {j}) = SumFunctionOnSet(g, 1..(j - 1))
    BY <1>2
<1>7. g[j] = BlockAlloc(t, Blocks[j]) /\ g[j] \in Nat
    BY <1>1
<1>8. Start(t, j) = SumFunctionOnSet(g, 1..(j - 1)) /\ Start(t, j + 1) = SumFunctionOnSet(g, 1..j)
    BY <1>2 DEF Start
<1> HIDE DEF g
<1>. QED  BY <1>4, <1>5, <1>6, <1>7, <1>8

\* The entry of the table for the i-th id of the j-th block.
IsEntry(t, s, e, j, i) ==
    /\ s = <<Blocks[j], i>>
    /\ e = [base |-> Start(t, j) + Before(t, Blocks[j], i), alloc |-> HdrAlloc(t, Blocks[j], i)]

(* The entries of the table.                                               *)
LEMMA HeadersOf ==
    ASSUME NEW t, IsTemplate(t), NEW s \in DOMAIN Headers(t)
    PROVE  \E j \in 1..3, i \in Nat : IsEntry(t, s, Headers(t)[s], j, i)
<1>1. \A b : Used(t, b) \in Nat
    <2>1. ASSUME NEW b PROVE Used(t, b) \in Nat
        <3>1. IsFiniteSet({k \in InBlock(t, b) : t[k].stock})
            BY TemplateFiles, FS_Subset
        <3>. QED  BY <3>1, FS_CardinalityType DEF Used
    <2>. QED  BY <2>1
<1>2. PICK j \in 1..3 : \E n \in 0..(Used(t, Blocks[j]) - 1) : s = <<Blocks[j], n>>
    BY DEF Headers
<1>3. PICK i \in 0..(Used(t, Blocks[j]) - 1) : s = <<Blocks[j], i>>
    BY <1>2
<1>a. i \in Nat
    BY <1>1
<1>4. \A n \in 1..3 : Blocks[n] = Blocks[j] => n = j
    BY DEF Blocks
<1>5. s[1] = Blocks[j] /\ s[2] = i
    BY <1>3
<1>6. (CHOOSE n \in 1..3 : Blocks[n] = s[1]) = j
    BY <1>4, <1>5
<1>7. Headers(t)[s] = [base |-> Start(t, j) + Before(t, s[1], s[2]), alloc |-> HdrAlloc(t, s[1], s[2])]
    BY <1>6 DEF Headers
<1>. QED  BY <1>a, <1>3, <1>5, <1>7 DEF IsEntry

(* An entry lies within the part of its block.                             *)
LEMMA EntryInBlock ==
    ASSUME NEW t, IsTemplate(t), NEW s, NEW e, NEW j \in 1..3, NEW i \in Nat, IsEntry(t, s, e, j, i)
    PROVE  /\ e.base \in Nat /\ e.alloc \in Nat /\ Blocks[j] = s[1]
           /\ Start(t, j) <= e.base /\ e.base + e.alloc <= Start(t, j + 1)
<1> DEFINE b == Blocks[j]
<1>1. e.base = Start(t, j) + Before(t, b, i) /\ e.alloc = HdrAlloc(t, b, i) /\ b = s[1]
    BY DEF IsEntry
<1> HIDE DEF b
<1>2. Before(t, b, i) \in Nat /\ HdrAlloc(t, b, i) \in Nat
    BY BeforeBound, HdrAllocOf
<1>3. Before(t, b, i + 1) = Before(t, b, i) + HdrAlloc(t, b, i) /\ Before(t, b, i + 1) <= BlockAlloc(t, b)
    <2>1. Before(t, b, i + 1) <= BlockAlloc(t, b)
        BY BeforeBound
    <2>. QED  BY <2>1, BeforeBound
<1>4. Start(t, j) \in Nat /\ Start(t, j + 1) = Start(t, j) + BlockAlloc(t, b) /\ BlockAlloc(t, b) \in Nat
    BY StartOf DEF b
<1>. QED  BY <1>1, <1>2, <1>3, <1>4 DEF b

(* Of two entries of the table one ends before the other starts.           *)
LEMMA EntriesApart ==
    ASSUME NEW t, IsTemplate(t), NEW s, NEW r, NEW d, NEW e, s # r,
           NEW j \in 1..3, NEW i \in Nat, IsEntry(t, s, d, j, i),
           NEW k \in 1..3, NEW n \in Nat, IsEntry(t, r, e, k, n)
    PROVE  d.base + d.alloc <= e.base \/ e.base + e.alloc <= d.base
<1>1. \A h \in 1..3 : Start(t, h) \in Nat /\ Start(t, h + 1) \in Nat /\ Start(t, h) <= Start(t, h + 1)
    BY StartOf
<1>2. \A g, h \in 1..3 : g < h => Start(t, g + 1) <= Start(t, h)
    <2>1. Start(t, 2) <= Start(t, 3) /\ Start(t, 2) \in Nat /\ Start(t, 3) \in Nat
        BY <1>1
    <2>2. \A g, h \in 1..3 : g < h => (g = 1 /\ h = 2) \/ (g = 2 /\ h = 3) \/ (g = 1 /\ h = 3)
        OBVIOUS
    <2>. QED  BY <2>1, <2>2
<1>3. /\ d.base \in Nat /\ d.alloc \in Nat /\ Start(t, j) <= d.base /\ d.base + d.alloc <= Start(t, j + 1)
      /\ e.base \in Nat /\ e.alloc \in Nat /\ Start(t, k) <= e.base /\ e.base + e.alloc <= Start(t, k + 1)
    BY EntryInBlock
<1>4. CASE j < k
    BY <1>1, <1>2, <1>3, <1>4
<1>5. CASE k < j
    BY <1>1, <1>2, <1>3, <1>5
<1>6. CASE j = k
    <2> DEFINE b == Blocks[j]
               at(m) == Before(t, b, m)
    <2>1. /\ d.base = Start(t, j) + at(i) /\ d.alloc = HdrAlloc(t, b, i)
          /\ e.base = Start(t, j) + at(n) /\ e.alloc = HdrAlloc(t, b, n)
          /\ i # n
        BY <1>6 DEF IsEntry
    <2>2. at(i) \in Nat /\ at(n) \in Nat /\ HdrAlloc(t, b, i) \in Nat /\ HdrAlloc(t, b, n) \in Nat
        BY BeforeBound, HdrAllocOf
    <2>3. i < n => at(i) + HdrAlloc(t, b, i) <= at(n)
        BY BeforeGrows
    <2>4. n < i => at(n) + HdrAlloc(t, b, n) <= at(i)
        BY BeforeGrows
    <2> HIDE DEF b, at
    <2>. QED  BY <1>1, <2>1, <2>2, <2>3, <2>4
<1>. QED  BY <1>4, <1>5, <1>6

-----------------------------------------------------------------------------
(* Loading an element.                                                     *)

IsType(type) ==
    /\ type \in STRING \X Nat
    /\ type[1] \in {"int", "uint"} => type[2] \in {0, 8, 16, 32, 64}

(* The sizes of types: a bit field has at most eight bits, all others have *)
(* whole bytes.                                                            *)
LEMMA SizeOf ==
    ASSUME NEW type, IsType(type)
    PROVE  LET i == TypeSize(type)
           IN  /\ i.bits \in Nat
               /\ i.index = "bit" => i.bits \in 1..8
               /\ i.index \in {"string", "hex"} => i.bits > 0 /\ i.bits % 8 = 0
               /\ i.index \in {"int", "uint"} => i.bits \in {8, 16, 32, 64}
               /\ i.index \notin {"bit", "string", "hex", "int", "uint"} => i.bits = 0
<1> DEFINE name == type[1]
           n == type[2]
<1>1. n \in Nat /\ (name \in {"int", "uint"} => n \in {0, 8, 16, 32, 64})
    BY DEF IsType
<1>2. TypeSize(type) =
          CASE name = "bitmask" -> [index |-> "bitmask", bits |-> 0]
            [] name = "bool" -> [index |-> "bit", bits |-> 1]
            [] name = "bit" -> [index |-> IF n = 0 THEN "bitmask" ELSE "bit", bits |-> Least(n, 8)]
            [] name = "char" -> IF n = 0 THEN [index |-> "int", bits |-> 8] ELSE [index |-> "string", bits |-> 8 * n]
            [] name = "hex" -> [index |-> "hex", bits |-> IF n = 0 THEN 8 ELSE 8 * n]
            [] name \in {"int", "uint"} -> [index |-> name, bits |-> IF n = 0 THEN 32 ELSE n]
            [] name = "long" -> [index |-> "int", bits |-> 32]
            [] name = "short" -> [index |-> "int", bits |-> 16]
            [] OTHER -> [index |-> "unknown", bits |-> 0]
    BY DEF TypeSize
<1> HIDE DEF name, n
<1>3. n \in Nat => 8 * n \in Nat /\ (8 * n) % 8 = 0 /\ (n # 0 => 8 * n > 0)
    OBVIOUS
<1>4. Least(n, 8) \in Nat /\ (n = 0 => Least(n, 8) = 0) /\ (n # 0 => Least(n, 8) \in 1..8)
    BY <1>1 DEF Least
<1>5. CASE name \in {"bitmask", "bool", "bit"}
    BY <1>1, <1>2, <1>4, <1>5
<1>6. CASE name \in {"char", "hex"}
    BY <1>1, <1>2, <1>3, <1>6
<1>7. CASE name \in {"int", "uint"}
    BY <1>1, <1>2, <1>7
<1>8. CASE name \notin {"bitmask", "bool", "bit", "char", "hex", "int", "uint"}
    BY <1>2, <1>8
<1>. QED  BY <1>5, <1>6, <1>7, <1>8

\* Memory m after the bits of a field at address a are exchanged for others.
Exchanged(m, a, field, bits) == (m \ {a + k : k \in field}) \cup {a + k : k \in bits}

\* The bits that an element has from its address on.
Own(bitpos, type) ==
    LET i == TypeSize(type)
        first == IF i.index = "bit" THEN bitpos ELSE 0
    IN  first..(first + i.bits - 1)

\* From m to r no more is changed than bits of own below the limit in bytes.
Exchanges(m, r, a, own, limit) ==
    \E field \in SUBSET own : \E bits \in SUBSET field :
        /\ \A k \in field : k \in Nat /\ k < 8 * limit
        /\ r = Exchanged(m, a, field, bits)

\* A string is longer than the number it is written into.
Overlong(type, v) == v.kind = "string" /\ TypeSize(type).index \in {"int", "uint"} /\ 8 * v.len > TypeSize(type).bits

(* What loading an element does: it exchanges bits of the element that lie *)
(* within the limit of its place, and no other.                            *)
LEMMA LoadExchanges ==
    ASSUME NEW m, NEW a, NEW limit \in Int, NEW bitpos \in Nat, NEW type, IsType(type),
           NEW v, IsValue(v), NEW junk \in SUBSET Nat, ~ Overlong(type, v)
    PROVE  Exchanges(m, LoadElement(m, a, limit, bitpos, type, v, junk), a, Own(bitpos, type), limit)
<1> DEFINE i == TypeSize(type)
           bytes == i.bits \div 8
           Fit == bytes <= limit
           n == IF v.kind = "string" THEN 8 * v.len ELSE 32
           text == {k \in v.bits : k < i.bits} \cup {k \in junk : n + 8 <= k /\ k < i.bits}
           result == LoadElement(m, a, limit, bitpos, type, v, junk)
           Claim == \E field \in SUBSET Own(bitpos, type) : \E bits \in SUBSET field :
                        /\ \A k \in field : k \in Nat /\ k < 8 * limit
                        /\ result = Exchanged(m, a, field, bits)
<1>1. /\ i.bits \in Nat
      /\ i.index = "bit" => i.bits \in 1..8
      /\ i.index \in {"string", "hex"} => i.bits % 8 = 0
      /\ i.index \in {"int", "uint"} => i.bits \in {8, 16, 32, 64}
    BY SizeOf
<1>2. \A k \in 0..(i.bits - 1) : i.index # "bit" => k \in Own(bitpos, type)
    <2>1. i.index # "bit" => Own(bitpos, type) = 0..(0 + i.bits - 1)
        BY DEF Own
    <2> HIDE DEF i
    <2>. QED  BY <1>1, <2>1
<1>3. i.index # "bit" /\ i.index \in {"string", "hex", "int", "uint"} /\ Fit =>
          \A k \in 0..(i.bits - 1) : k \in Nat /\ k < 8 * limit
    <2>1. \A b \in Nat : b % 8 = 0 => b = 8 * (b \div 8)
        OBVIOUS
    <2>2. i.index \in {"string", "hex", "int", "uint"} => i.bits = 8 * bytes /\ bytes \in Nat
        BY <1>1, <2>1
    <2> HIDE DEF bytes, i
    <2>. QED  BY <1>1, <2>2
<1>4. ASSUME result = m PROVE Claim
    <2>1. Exchanged(m, a, {}, {}) = m
        BY DEF Exchanged
    <2>2. {} \in SUBSET Own(bitpos, type) /\ {} \in SUBSET {} /\ \A k \in {} : k \in Nat /\ k < 8 * limit
        OBVIOUS
    <2> HIDE DEF result
    <2>. QED  BY <1>4, <2>1, <2>2
<1>5. ASSUME limit > 0, v # NoValue, i.index = "bit", ~ (1 + ((bitpos + i.bits) \div 8) > limit) PROVE Claim
    <2> DEFINE field == Field(bitpos, i.bits)
               bits == {k \in field : k - bitpos \in v.bits}
    <2>1. result = Exchanged(m, a, field, bits)
        BY <1>5 DEF LoadElement, Exchanged
    <2>2. \A k \in field : k \in Own(bitpos, type) /\ k \in Nat /\ k <= bitpos + i.bits - 1
        BY <1>1, <1>5 DEF Field, Own
    <2>3. bitpos + i.bits < 8 * limit
        <3>1. \A b \in Nat : b < 8 * (1 + (b \div 8)) /\ b \div 8 \in Nat
            OBVIOUS
        <3>2. bitpos + i.bits \in Nat
            BY <1>1
        <3> HIDE DEF i
        <3>. QED  BY <1>5, <3>1, <3>2
    <2>4. \A k \in field : k \in Nat /\ k < 8 * limit
        <3> HIDE DEF field, i
        <3>. QED  BY <1>1, <2>2, <2>3
    <2>5. field \in SUBSET Own(bitpos, type) /\ bits \in SUBSET field
        BY <2>2
    <2> HIDE DEF field, bits, result
    <2>. QED  BY <2>1, <2>4, <2>5
<1>6. ASSUME limit > 0, v # NoValue, i.index = "string", v.kind = "string", Fit PROVE Claim
    <2>1. result = Exchanged(m, a, 0..(i.bits - 1), text)
        BY <1>6 DEF LoadElement, Exchanged
    <2>2. text \in SUBSET (0..(i.bits - 1))
        <3>1. v.bits \subseteq Nat
            BY <1>6 DEF IsValue, NoValue, Number, String
        <3>2. \A k \in text : k \in Nat /\ k < i.bits
            BY <3>1
        <3> HIDE DEF i, text
        <3>. QED  BY <1>1, <3>2
    <2> HIDE DEF text, result, i, Fit
    <2>. QED  BY <1>2, <1>3, <1>6, <2>1, <2>2
<1>7. ASSUME limit > 0, v # NoValue, i.index = "hex", v.kind = "string", Fit PROVE Claim
    <2> DEFINE field == 0..(Least(n, i.bits) - 1)
               bits == {k \in v.bits : k < i.bits}
    <2>1. result = Exchanged(m, a, field, bits)
        BY <1>7 DEF LoadElement, Exchanged
    <2>2. v.len \in Nat /\ v.bits \subseteq 0..(8 * v.len - 1) /\ n = 8 * v.len
        BY <1>7 DEF IsValue, NoValue, Number, String
    <2>3. bits \in SUBSET field /\ field \in SUBSET (0..(i.bits - 1))
        <3> HIDE DEF n, i
        <3>. QED  BY <1>1, <2>2 DEF Least
    <2> HIDE DEF field, bits, result, i, Fit
    <2>. QED  BY <1>2, <1>3, <1>7, <2>1, <2>3
<1>8. ASSUME limit > 0, v # NoValue, i.index \in {"int", "uint"}, Fit, v.kind = "string" PROVE Claim
    <2>1. v.len \in Nat /\ v.bits \subseteq 0..(8 * v.len - 1) /\ n = 8 * v.len
        BY <1>8 DEF IsValue, NoValue, Number, String
    <2>2. n <= i.bits
        BY <1>1, <1>8, <2>1 DEF Overlong
    <2>3. Max({n, i.bits}) = i.bits
        <3>1. ASSUME NEW x \in Int, NEW y \in Int, x <= y PROVE Max({x, y}) = y
            <4>1. \E z \in {x, y} : \A w \in {x, y} : z >= w
                BY <3>1
            <4>2. Max({x, y}) \in {x, y} /\ \A w \in {x, y} : Max({x, y}) >= w
                BY <4>1 DEF Max
            <4>. QED  BY <3>1, <4>2
        <3>2. n \in Int /\ i.bits \in Int
            <4> HIDE DEF n, i
            <4>. QED  BY <1>1, <2>1
        <3> HIDE DEF n, i
        <3>. QED  BY <2>2, <3>1, <3>2
    <2>4. result = Exchanged(m, a, 0..(i.bits - 1), v.bits)
        BY <1>8, <2>3 DEF LoadElement, Exchanged
    <2>5. v.bits \in SUBSET (0..(i.bits - 1))
        <3> HIDE DEF n, i
        <3>. QED  BY <1>1, <2>1, <2>2
    <2> HIDE DEF n, result, i, Fit
    <2>. QED  BY <1>2, <1>3, <1>8, <2>4, <2>5
<1>9. ASSUME limit > 0, v # NoValue, i.index \in {"int", "uint"}, Fit, v.kind # "string" PROVE Claim
    <2> DEFINE bits == {k \in v.bits : k < i.bits}
    <2>1. result = Exchanged(m, a, 0..(i.bits - 1), bits)
        BY <1>9 DEF LoadElement, Exchanged
    <2>2. v.bits \subseteq Nat
        BY <1>9 DEF IsValue, NoValue, Number, String
    <2>3. bits \in SUBSET (0..(i.bits - 1))
        BY <1>1, <2>2
    <2> HIDE DEF bits, result, i, Fit
    <2>. QED  BY <1>2, <1>3, <1>9, <2>1, <2>3
<1>10. \/ result = m
       \/ /\ limit > 0 /\ v # NoValue
          /\ \/ i.index = "bit" /\ ~ (1 + ((bitpos + i.bits) \div 8) > limit)
             \/ i.index = "string" /\ v.kind = "string" /\ Fit
             \/ i.index = "hex" /\ v.kind = "string" /\ Fit
             \/ i.index \in {"int", "uint"} /\ Fit
    BY DEF LoadElement
<1> HIDE DEF Claim, result, i, Fit
<1>11. Claim
    BY <1>4, <1>5, <1>6, <1>7, <1>8, <1>9, <1>10
<1>. QED  BY <1>11 DEF Claim, result, Exchanges

-----------------------------------------------------------------------------
(* The invariant.                                                          *)

\* The file table is the one of the template.
TableInv ==
    \/ phase = "start" /\ hdr = <<>>
    \/ phase # "start" /\ IsTemplate(tmpl) /\ hdr = Headers(tmpl)

\* What was loaded are elements of files in the table.
LoadedInv ==
    /\ elems \in Seq(Nat \X Elements \X Values)
    /\ phase = "start" => elems = <<>>
    /\ \A i \in DOMAIN elems : elems[i][1] \in DOMAIN tmpl /\ InTable(tmpl, elems[i][1])

Inv == TableInv /\ LoadedInv

(* What open makes of a template is one.                                   *)
LEMMA FilledIsTemplate ==
    ASSUME NEW raw \in Templates,
           \A k \in DOMAIN raw : Missing \notin {raw[k].id, raw[k].size}
    PROVE  IsTemplate([k \in DOMAIN raw |-> Filled(raw[k])])
<1> DEFINE R == [block : STRING, id : Int, size : Nat \cup {Missing}, stock : STRING]
           Q == [block : {"gfb", "iss", "isf"}, id : 0..255, size : Nat, stock : BOOLEAN]
<1>1. raw \in Seq(R)
    BY TemplateAssumption
<1>2. DOMAIN raw = 1..Len(raw) /\ Len(raw) \in Nat /\ \A k \in DOMAIN raw : raw[k] \in R
    <2> HIDE DEF R
    <2>. QED  BY <1>1
<1>3. ASSUME NEW k \in DOMAIN raw PROVE Filled(raw[k]) \in Q
    <2>1. raw[k] \in R /\ raw[k].size # Missing
        BY <1>2
    <2>2. raw[k].id \in Int /\ raw[k].size \in Nat
        BY <2>1
    <2>3. raw[k].id % 256 \in 0..255
        <3>1. \A n \in Int : n % 256 \in 0..255
            OBVIOUS
        <3>. QED  BY <2>2, <3>1
    <2>. QED  BY <2>2, <2>3 DEF Filled
<1> HIDE DEF Q
<1>4. [k \in 1..Len(raw) |-> Filled(raw[k])] \in Seq(Q)
    BY <1>2, <1>3
<1>. QED  BY <1>2, <1>4 DEF IsTemplate, Q

(* The table is made once and never changed, and the elements are those of *)
(* its files.                                                              *)
LEMMA Invariance == Spec => []Inv
<1>1. Init => Inv
    BY DEF Init, Inv, TableInv, LoadedInv
<1>2. ASSUME Inv, [Next]_vars PROVE Inv'
    <2> USE <1>2 DEF Inv
    <2>1. ASSUME NEW raw \in Templates, OpenTemplate(raw) PROVE Inv'
        <3>1. IsTemplate(tmpl') /\ hdr' = Headers(tmpl') /\ phase' = "loading"
            BY <2>1, FilledIsTemplate DEF OpenTemplate
        <3>2. elems' = <<>> /\ elems' \in Seq(Nat \X Elements \X Values)
            BY <2>1 DEF OpenTemplate, LoadedInv
        <3>. QED  BY <3>1, <3>2 DEF TableInv, LoadedInv
    <2>2. ASSUME UNCHANGED <<tmpl, hdr>>, phase # "start", phase' # "start" PROVE TableInv'
        BY <2>2 DEF TableInv
    <2>3. ASSUME UNCHANGED <<tmpl, elems>>, phase # "start", phase' # "start" PROVE LoadedInv'
        BY <2>3 DEF LoadedInv
    <2>4. ASSUME NEW k \in DOMAIN tmpl, NEW e \in Elements, NEW v \in Values, NEW m, Loads(k, e, v, m)
          PROVE  Inv'
        <3>1. phase = "loading" /\ phase' = "loading" /\ UNCHANGED <<tmpl, hdr>> /\ InTable(tmpl, k)
              /\ elems' = Append(elems, <<k, e, v>>)
            BY <2>4 DEF Loads
        <3>2. k \in Nat
            BY <3>1, TemplateFiles DEF TableInv
        <3> DEFINE S == Nat \X Elements \X Values
        <3>3. elems \in Seq(S) /\ <<k, e, v>> \in S
            BY <3>2 DEF LoadedInv
        <3> HIDE DEF S
        <3>4. /\ elems' \in Seq(S)
              /\ \A i \in DOMAIN elems' : elems'[i] = <<k, e, v>> \/ (i \in DOMAIN elems /\ elems'[i] = elems[i])
            BY <3>1, <3>3
        <3>5. \A i \in DOMAIN elems' : elems'[i][1] \in DOMAIN tmpl /\ InTable(tmpl, elems'[i][1])
            BY <3>1, <3>4 DEF LoadedInv
        <3>6. LoadedInv'
            BY <3>1, <3>4, <3>5 DEF LoadedInv, S, InTable, Used, InBlock
        <3>. QED  BY <2>2, <3>1, <3>6
    <2>5. ASSUME NEW raw \in Templates, OpenFails(raw) PROVE Inv'
        BY <2>5 DEF OpenFails, vars, TableInv, LoadedInv
    <2>6. ASSUME NEW k \in DOMAIN tmpl, NEW e \in Elements, NEW v \in Values, NEW junk,
                 LoadDefault(k, e, v, junk) \/ LoadData(k, e, v, junk)
          PROVE  Inv'
        BY <2>4, <2>6 DEF LoadDefault, LoadData
    <2>7. ASSUME NEW k \in DOMAIN tmpl, NEW bits \in Writes, ClientWrites(k, bits) PROVE Inv'
        BY <2>2, <2>3, <2>7 DEF ClientWrites
    <2>8. CASE SaveContents
        BY <2>2, <2>3, <2>8 DEF SaveContents
    <2>9. ASSUME NEW junk, Reopen(junk) PROVE Inv'
        BY <2>2, <2>3, <2>9 DEF Reopen
    <2>10. CASE UNCHANGED vars
        BY <2>10 DEF vars, TableInv, LoadedInv
    <2>. QED  BY <2>1, <2>5, <2>6, <2>7, <2>8, <2>9, <2>10 DEF Next
<1>. QED  BY <1>1, <1>2, PTL DEF Spec

(* Files never share a byte and each lies in the part of its block, for    *)
(* every template whose sizes are numbers of bytes: any number of files,   *)
(* with ids that are missing, repeated or beyond the table and files that  *)
(* are not stock (cmd_open steps 3a to 4b).                                *)
THEOREM LayoutKeepsApart == Spec => []FilesApart
<1>1. ASSUME Inv PROVE FilesApart
    <2> USE <1>1
    <2>1. CASE hdr = <<>>
        BY <2>1 DEF FilesApart
    <2>2. CASE IsTemplate(tmpl) /\ hdr = Headers(tmpl)
        <3> USE <2>2
        <3>1. ASSUME NEW s \in DOMAIN hdr, NEW r \in DOMAIN hdr, s # r
              PROVE  {hdr[s].base + i : i \in 0..(hdr[s].alloc - 1)}
                        \cap {hdr[r].base + i : i \in 0..(hdr[r].alloc - 1)} = {}
            <4>1. PICK j \in 1..3, i \in Nat : IsEntry(tmpl, s, hdr[s], j, i)
                BY HeadersOf
            <4>2. PICK k \in 1..3, n \in Nat : IsEntry(tmpl, r, hdr[r], k, n)
                BY HeadersOf
            <4>3. /\ hdr[s].base \in Nat /\ hdr[s].alloc \in Nat
                  /\ hdr[r].base \in Nat /\ hdr[r].alloc \in Nat
                BY <4>1, <4>2, EntryInBlock
            <4>4. hdr[s].base + hdr[s].alloc <= hdr[r].base \/ hdr[r].base + hdr[r].alloc <= hdr[s].base
                BY <3>1, <4>1, <4>2, EntriesApart
            <4>. QED  BY <4>3, <4>4
        <3>2. ASSUME NEW s \in DOMAIN hdr
              PROVE  \E j \in 1..3 : /\ Blocks[j] = s[1] /\ hdr[s].base >= Start(tmpl, j)
                                     /\ hdr[s].base + hdr[s].alloc <= Start(tmpl, j + 1)
            <4>1. PICK j \in 1..3, i \in Nat : IsEntry(tmpl, s, hdr[s], j, i)
                BY HeadersOf
            <4>2. Start(tmpl, j) \in Nat
                BY StartOf
            <4>. QED  BY <4>1, <4>2, EntryInBlock
        <3>. QED  BY <3>1, <3>2 DEF FilesApart
    <2>. QED  BY <2>1, <2>2 DEF Inv, TableInv
<1>. QED  BY <1>1, Invariance, PTL

(* A file that is in the table has an entry there.                         *)
LEMMA SlotOf ==
    ASSUME TableInv, phase # "start", NEW k \in DOMAIN tmpl, InTable(tmpl, k)
    PROVE  Slot(k).base \in Nat /\ Slot(k).alloc \in Nat /\ tmpl[k].size \in Nat
<1>1. IsTemplate(tmpl) /\ hdr = Headers(tmpl)
    BY DEF TableInv
<1> DEFINE R == [block : {"gfb", "iss", "isf"}, id : 0..255, size : Nat, stock : BOOLEAN]
<1>2. tmpl[k] \in R
    <2>1. tmpl \in Seq(R)
        BY <1>1 DEF IsTemplate
    <2> HIDE DEF R
    <2>. QED  BY <2>1
<1>3. PICK j \in 1..3 : tmpl[k].block = Blocks[j]
    BY <1>2 DEF Blocks
<1>4. tmpl[k].id \in 0..(Used(tmpl, Blocks[j]) - 1)
    <2>1. tmpl[k].id \in Nat /\ tmpl[k].id < Used(tmpl, Blocks[j])
        BY <1>2, <1>3 DEF InTable
    <2>2. Used(tmpl, Blocks[j]) \in Nat
        <3>1. IsFiniteSet({h \in InBlock(tmpl, Blocks[j]) : tmpl[h].stock})
            BY <1>1, TemplateFiles, FS_Subset
        <3>. QED  BY <3>1, FS_CardinalityType DEF Used
    <2>. QED  BY <2>1, <2>2
<1> DEFINE s == <<tmpl[k].block, tmpl[k].id>>
<1>5. s \in DOMAIN Headers(tmpl)
    <2> DEFINE Slots(h) == {<<h, i>> : i \in 0..(Used(tmpl, Blocks[h]) - 1)}
               slots == UNION {Slots(h) : h \in 1..3}
               x == <<j, tmpl[k].id>>
    <2>1. x \in Slots(j)
        BY <1>4
    <2>2. x \in slots
        BY <2>1
    <2>3. s = <<Blocks[x[1]], x[2]>>
        BY <1>3
    <2>4. DOMAIN Headers(tmpl) = {<<Blocks[y[1]], y[2]>> : y \in slots}
        BY DEF Headers
    <2> HIDE DEF slots, x
    <2>. QED  BY <2>2, <2>3, <2>4
<1>6. PICK h \in 1..3, i \in Nat : IsEntry(tmpl, s, Headers(tmpl)[s], h, i)
    BY <1>1, <1>5, HeadersOf
<1>7. Headers(tmpl)[s].base \in Nat /\ Headers(tmpl)[s].alloc \in Nat
    BY <1>1, <1>6, EntryInBlock
<1>. QED  BY <1>1, <1>2, <1>7 DEF Slot

(* An element that is loaded within a limit that its place allows changes  *)
(* its own bits only.                                                      *)
LEMMA LoadOwnBits ==
    ASSUME TableInv, phase # "start", NEW k \in DOMAIN tmpl, InTable(tmpl, k),
           NEW e \in Elements, NEW v \in Values, NEW junk \in SUBSET Nat,
           NEW limit \in Int, IF e.nested THEN limit = e.size ELSE limit <= Slot(k).alloc - e.pos,
           NEW bitpos \in {0, e.bitpos},
           mem' = LoadElement(mem, Address(k, e), limit, bitpos, e.type, v, junk)
    PROVE  OwnBitsOf(k, e, v)
<1> DEFINE a == Address(k, e)
           changed == SymDiff(mem, mem')
<1>1. /\ e \in [nested : BOOLEAN, pos : Nat, bitpos : Nat, type : STRING \X Nat, size : Nat]
      /\ IsType(e.type) /\ IsValue(v)
    BY ElementsAssumption DEF IsType
<1>2. Slot(k).base \in Nat /\ Slot(k).alloc \in Nat
    BY SlotOf
<1>3. SUFFICES ASSUME ~ Overlong(e.type, v)
               PROVE  /\ changed \subseteq ElementBits(a, e.bitpos, e.type) \cup ElementBits(a, 0, e.type)
                      /\ (e.nested => e.pos + e.size <= Slot(k).alloc) => changed \subseteq FileBits(k)
    BY <1>1 DEF OwnBitsOf, TooLong, Overlong
<1>4. PICK field \in SUBSET Own(bitpos, e.type), bits \in SUBSET Own(bitpos, e.type) :
          /\ bits \subseteq field
          /\ \A n \in field : n \in Nat /\ n < 8 * limit
          /\ mem' = Exchanged(mem, a, field, bits)
    <2>1. bitpos \in Nat
        BY <1>1
    <2>2. Exchanges(mem, mem', a, Own(bitpos, e.type), limit)
        BY <1>1, <1>3, <2>1, LoadExchanges
    <2>. QED  BY <2>2 DEF Exchanges
<1>5. changed \subseteq {a + n : n \in field}
    BY <1>4 DEF Exchanged, SymDiff
<1>6. {a + n : n \in Own(bitpos, e.type)} = ElementBits(a, bitpos, e.type)
    BY DEF Own, ElementBits
<1>7. changed \subseteq ElementBits(a, bitpos, e.type)
    BY <1>4, <1>5, <1>6
<1>8. ASSUME e.nested => e.pos + e.size <= Slot(k).alloc
      PROVE  changed \subseteq FileBits(k)
    <2>1. e.pos \in Nat /\ e.size \in Nat /\ e.nested \in BOOLEAN
        BY <1>1
    <2>2. limit <= Slot(k).alloc - e.pos
        BY <1>2, <1>8, <2>1
    <2>3. a = 8 * (Slot(k).base + e.pos)
        BY DEF Address
    <2>4. FileBits(k) = 8 * Slot(k).base..(8 * (Slot(k).base + Slot(k).alloc) - 1)
        BY DEF FileBits
    <2>5. ASSUME NEW n \in field PROVE a + n \in FileBits(k)
        <3> DEFINE base == Slot(k).base
                   alloc == Slot(k).alloc
                   pos == e.pos
        <3>1. n \in Nat /\ n < 8 * limit
            BY <1>4
        <3>2. base \in Nat /\ alloc \in Nat /\ pos \in Nat /\ limit <= alloc - pos
            BY <1>2, <2>1, <2>2
        <3>3. a = 8 * (base + pos) /\ FileBits(k) = 8 * base..(8 * (base + alloc) - 1)
            BY <2>3, <2>4
        <3> HIDE DEF a, base, alloc, pos
        <3>4. 8 * base <= a + n /\ a + n <= 8 * (base + alloc) - 1 /\ a + n \in Int
            BY <3>1, <3>2, <3>3
        <3>. QED  BY <3>2, <3>3, <3>4
    <2>. QED  BY <1>5, <2>5
<1>. QED  BY <1>7, <1>8

(* Loading an element changes no bit of any other and no bit of another    *)
(* file, for all elements of the integer, bit, text and hex types, all     *)
(* places, and all values but hex strings that are longer than their       *)
(* element: what is read and written back in four bytes for a bit field is *)
(* put back as it was (jst_load_element, cmd_open, cmdsub_datafile).       *)
THEOREM LoadKeepsOthers == Spec => OnlyOwnBits
<1> DEFINE Own1 == Len(elems') > Len(elems) =>
                       OwnBitsOf(Last(elems')[1], Last(elems')[2], Last(elems')[3])
<1>1. ASSUME Inv, [Next]_vars PROVE [Own1]_vars
    <2> USE <1>1 DEF Inv
    <2>1. elems \in Seq(Nat \X Elements \X Values)
        BY DEF LoadedInv
    <2>2. ASSUME UNCHANGED elems PROVE Own1
        BY <2>1, <2>2
    <2>3. ASSUME NEW k \in DOMAIN tmpl, NEW e \in Elements, NEW v \in Values, NEW m,
                 Loads(k, e, v, m), OwnBitsOf(k, e, v)
          PROVE  Own1
        <3>1. elems' = Append(elems, <<k, e, v>>)
            BY <2>3 DEF Loads
        <3>2. Len(elems') = Len(elems) + 1 /\ elems'[Len(elems')] = <<k, e, v>>
            <4> HIDE DEF Own1
            <4>. QED  BY <2>1, <3>1
        <3>3. Last(elems')[1] = k /\ Last(elems')[2] = e /\ Last(elems')[3] = v
            BY <3>2 DEF Last
        <3>. QED  BY <2>3, <3>3
    <2>4. ASSUME NEW k \in DOMAIN tmpl, NEW e \in Elements, NEW v \in Values, NEW junk \in JunkOf(e)
          PROVE  /\ LoadDefault(k, e, v, junk) => Own1
                 /\ LoadData(k, e, v, junk) => Own1
        <3>1. junk \in SUBSET Nat
            BY DEF JunkOf, Junk
        <3>2. e \in [nested : BOOLEAN, pos : Nat, bitpos : Nat, type : STRING \X Nat, size : Nat]
            BY ElementsAssumption
        <3>3. ASSUME NEW m, Loads(k, e, v, m)
              PROVE  /\ phase # "start" /\ InTable(tmpl, k) /\ TableInv
                     /\ Slot(k).alloc \in Nat /\ tmpl[k].size \in Nat /\ mem' = m
            <4>1. phase # "start" /\ InTable(tmpl, k) /\ mem' = m
                BY <3>3 DEF Loads
            <4>. QED  BY <4>1, SlotOf
        <3>4. CASE LoadDefault(k, e, v, junk)
            <4> DEFINE limit == ContainerLimit(k, e)
                       bitpos == IF e.nested THEN e.bitpos ELSE 0
                       m == LoadElement(mem, Address(k, e), limit, bitpos, e.type, v, junk)
            <4>1. Loads(k, e, v, m)
                BY <3>4 DEF LoadDefault
            <4>2. /\ phase # "start" /\ InTable(tmpl, k) /\ TableInv
                  /\ Slot(k).alloc \in Nat /\ tmpl[k].size \in Nat /\ mem' = m
                BY <3>3, <4>1
            <4>3. /\ limit \in Int /\ bitpos \in {0, e.bitpos}
                  /\ IF e.nested THEN limit = e.size ELSE limit <= Slot(k).alloc - e.pos
                BY <3>2, <4>2 DEF ContainerLimit
            <4> HIDE DEF limit, bitpos
            <4>4. OwnBitsOf(k, e, v)
                BY <3>1, <4>2, <4>3, LoadOwnBits
            <4>. QED  BY <2>3, <4>1, <4>4
        <3>5. CASE LoadData(k, e, v, junk)
            <4> DEFINE limit == IF e.nested THEN e.size ELSE Least(tmpl[k].size, Slot(k).alloc) - e.pos
                       m == LoadElement(mem, Address(k, e), limit, e.bitpos, e.type, v, junk)
            <4>1. Loads(k, e, v, m)
                BY <3>5 DEF LoadData, DataElement
            <4>2. /\ phase # "start" /\ InTable(tmpl, k) /\ TableInv
                  /\ Slot(k).alloc \in Nat /\ tmpl[k].size \in Nat /\ mem' = m
                BY <3>3, <4>1
            <4>3. /\ limit \in Int /\ e.bitpos \in {0, e.bitpos}
                  /\ IF e.nested THEN limit = e.size ELSE limit <= Slot(k).alloc - e.pos
                BY <3>2, <4>2 DEF Least
            <4> HIDE DEF limit
            <4>4. OwnBitsOf(k, e, v)
                BY <3>1, <4>2, <4>3, LoadOwnBits
            <4>. QED  BY <2>3, <4>1, <4>4
        <3>. QED  BY <3>4, <3>5
    <2> HIDE DEF Own1
    <2>5. ASSUME NEW raw \in Templates, OpenFails(raw) \/ OpenTemplate(raw) PROVE Own1
        BY <2>2, <2>5 DEF OpenFails, OpenTemplate, vars
    <2>6. ASSUME NEW k \in DOMAIN tmpl, NEW bits \in Writes, ClientWrites(k, bits) PROVE Own1
        BY <2>2, <2>6 DEF ClientWrites
    <2>7. CASE SaveContents
        BY <2>2, <2>7 DEF SaveContents
    <2>8. ASSUME NEW junk, Reopen(junk) PROVE Own1
        BY <2>2, <2>8 DEF Reopen
    <2>. QED  BY <2>4, <2>5, <2>6, <2>7, <2>8 DEF Next
<1>. QED  BY <1>1, Invariance, PTL DEF OnlyOwnBits, Spec

-----------------------------------------------------------------------------
(* Storing an element and loading it again.                                *)

(* Exchanged bits are the new ones.                                        *)
LEMMA ExchangedAt ==
    ASSUME NEW m, NEW a \in Int, NEW field \in SUBSET Int, NEW bits \in SUBSET field, NEW k \in field
    PROVE  a + k \in Exchanged(m, a, field, bits) <=> k \in bits
<1>1. \A h \in Int : a + h = a + k => h = k
    OBVIOUS
<1>2. a + k \in {a + h : h \in bits} => k \in bits
    BY <1>1
<1>. QED  BY <1>2 DEF Exchanged

(* The length of a text that is stored.                                    *)
LEMMA MinOf ==
    ASSUME NEW S \in SUBSET Nat, S # {}
    PROVE  Min(S) \in S /\ \A k \in S : Min(S) <= k
BY LeastOf DEF Min

(* A printed number has its bits from 0 on.                                *)
LEMMA ValueIntIn ==
    ASSUME NEW n \in Nat, NEW bits \in SUBSET Nat, NEW signed
    PROVE  ValueInt(bits, n, signed) \in SUBSET Nat
<1>1. n..31 \in SUBSET Nat
    OBVIOUS
<1>2. 0..30 \in SUBSET Nat /\ {31} \in SUBSET Nat
    OBVIOUS
<1>. QED  BY <1>1, <1>2 DEF ValueInt

(* What is stored is a value that fits its type.                           *)
LEMMA StoredValue ==
    ASSUME NEW o, NEW a, NEW type, IsType(type)
    PROVE  IsValue(StoreElement(o, a, 0, type)) /\ ~ Overlong(type, StoreElement(o, a, 0, type))
<1> DEFINE i == TypeSize(type)
           n == i.bits
           read == {k \in 0..(n - 1) : (a + k) \in o}
           zeros == {p \in 0..(n \div 8) : p = n \div 8 \/ read \cap (8 * p)..(8 * p + 7) = {}}
           len == Min(zeros)
           v == StoreElement(o, a, 0, type)
<1>1. /\ n \in Nat
      /\ i.index \in {"string", "hex"} => n % 8 = 0
      /\ i.index \in {"int", "uint"} => n \in {8, 16, 32, 64}
    BY SizeOf
<1>2. \A b \in Nat : b \div 8 \in Nat /\ (b % 8 = 0 => b = 8 * (b \div 8))
    OBVIOUS
<1>3. n \div 8 \in Nat /\ (i.index \in {"string", "hex"} => n = 8 * (n \div 8))
    <2> HIDE DEF i
    <2>. QED  BY <1>1, <1>2
<1>4. len \in Nat
    <2>1. zeros \in SUBSET Nat /\ n \div 8 \in zeros
        <3> HIDE DEF read, n
        <3>. QED  BY <1>3
    <2> HIDE DEF zeros
    <2>. QED  BY <2>1, MinOf
<1>5. read \in SUBSET (0..(n - 1)) /\ read \in SUBSET Nat
    <2> HIDE DEF n
    <2>1. ASSUME NEW k \in read PROVE k \in 0..(n - 1) /\ k \in Nat
        BY <1>1
    <2> HIDE DEF read
    <2>. QED  BY <2>1
<1>6. CASE n = 0
    <2>1. i.index \notin {"bit", "string", "hex", "int", "uint"}
        BY <1>6, SizeOf
    <2>2. v = NoValue
        BY <1>6, <2>1 DEF StoreElement
    <2>. QED  BY <2>2 DEF IsValue, Overlong, NoValue
<1>7. CASE n # 0 /\ i.index = "bit"
    <2> DEFINE bits == {k \in Read(0, n) : (a + 0 + k) \in o}
    <2>1. v = Number(bits)
        BY <1>7 DEF StoreElement
    <2>2. bits \in SUBSET Nat
        BY DEF Read
    <2> HIDE DEF bits, v
    <2>. QED  BY <2>1, <2>2 DEF IsValue, Overlong, Number, v
<1>8. CASE n # 0 /\ i.index = "string"
    <2> DEFINE bits == {k \in read : k < 8 * len}
    <2>1. v = String(len, bits)
        BY <1>8 DEF StoreElement
    <2> HIDE DEF len, read
    <2>2. bits \in SUBSET (0..(8 * len - 1))
        <3> HIDE DEF n
        <3>1. ASSUME NEW k \in bits PROVE k \in 0..(8 * len - 1)
            BY <1>4, <1>5
        <3>. QED  BY <3>1
    <2>3. ~ Overlong(type, v)
        BY <1>8 DEF Overlong
    <2> HIDE DEF bits, v
    <2>. QED  BY <1>4, <2>1, <2>2, <2>3 DEF IsValue, String, v
<1>9. CASE n # 0 /\ i.index = "hex"
    <2>1. v = String(n \div 8, read)
        BY <1>9 DEF StoreElement
    <2>2. ~ Overlong(type, v)
        BY <1>9 DEF Overlong
    <2>3. read \in SUBSET (0..(8 * (n \div 8) - 1))
        BY <1>3, <1>5, <1>9
    <2> HIDE DEF v, read, n
    <2>. QED  BY <1>3, <2>1, <2>2, <2>3 DEF IsValue, String, v
<1>10. CASE n # 0 /\ i.index \in {"int", "uint"}
    <2> DEFINE bits == ValueInt(read, n, i.index = "int")
    <2>1. v = Number(bits)
        BY <1>10 DEF StoreElement
    <2>2. bits \in SUBSET Nat
        <3> HIDE DEF read, n
        <3>. QED  BY <1>1, <1>5, ValueIntIn
    <2> HIDE DEF bits, v
    <2>. QED  BY <2>1, <2>2 DEF IsValue, Overlong, Number, v
<1>11. CASE n # 0 /\ i.index \notin {"bit", "string", "hex", "int", "uint"}
    <2>1. v = NoValue
        BY <1>11 DEF StoreElement
    <2>. QED  BY <2>1 DEF IsValue, Overlong, NoValue
<1>. QED  BY <1>6, <1>7, <1>8, <1>9, <1>10, <1>11

\* What a type keeps of the bits at address a, in a place of limit bytes.
Storable(o, a, limit, bitpos, type) ==
    LET t == TypeSize(type)
    IN  /\ t.bits > 0
        /\ IF t.index = "bit" THEN bitpos = 0 /\ 1 + (t.bits \div 8) <= limit ELSE t.bits \div 8 <= limit
        /\ t.index = "int" /\ t.bits = 64 => o \cap (a + 31)..(a + 63) = {}
        /\ t.index = "uint" /\ t.bits >= 32 => o \cap (a + 31)..(a + t.bits - 1) = {}
        /\ t.index = "string" =>
                \A p \in 0..(t.bits \div 8 - 1) : o \cap (a + 8 * p)..(a + 8 * p + 7) # {}

(* The number that is printed for the bits of a type, and parsed again, has *)
(* the same bits within the type.                                           *)
LEMMA ValueIntKeeps ==
    ASSUME NEW n \in {8, 16, 32, 64}, NEW signed \in BOOLEAN, NEW bits \in SUBSET (0..(n - 1)),
           IF signed THEN n = 64 => bits \cap 31..63 = {} ELSE n >= 32 => bits \cap 31..(n - 1) = {}
    PROVE  \A k \in 0..(n - 1) : k \in ValueInt(bits, n, signed) <=> k \in bits
<1> DEFINE negative == signed /\ (n - 1) \in bits
           top == {k \in bits : k >= 31}
<1>1. CASE negative
    <2>1. n <= 32
        BY <1>1
    <2>2. ValueInt(bits, n, signed) = bits \cup n..31
        BY <1>1, <2>1 DEF ValueInt
    <2>. QED  BY <2>2
<1>2. CASE ~ negative
    <2>1. top = {}
        <3>1. ASSUME NEW k \in top PROVE FALSE
            <4>1. k \in bits /\ k >= 31
                OBVIOUS
            <4>2. k \in 0..(n - 1) /\ n \in {32, 64}
                BY <4>1
            <4>3. CASE ~ signed
                BY <4>1, <4>2, <4>3
            <4>4. CASE signed /\ n = 64
                BY <4>1, <4>2, <4>4
            <4>5. CASE signed /\ n = 32
                <5>1. k = n - 1
                    BY <4>1, <4>2, <4>5
                <5>2. (n - 1) \notin bits
                    BY <1>2, <4>5
                <5>. QED  BY <4>1, <5>1, <5>2
            <4>. QED  BY <4>2, <4>3, <4>4, <4>5
        <3> HIDE DEF top
        <3>. QED  BY <3>1
    <2>2. ValueInt(bits, n, signed) =
              IF negative
              THEN IF n <= 32 THEN bits \cup n..31
                   ELSE IF top = 31..(n - 1) THEN bits \cap 0..31 ELSE {31}
              ELSE IF top = {} THEN bits ELSE 0..30
        BY DEF ValueInt
    <2>3. ValueInt(bits, n, signed) = bits
        <3> HIDE DEF negative, top
        <3>. QED  BY <1>2, <2>1, <2>2
    <2>. QED  BY <2>3
<1>. QED  BY <1>1, <1>2

(* What is storable is loaded again bit for bit, whatever was there before. *)
LEMMA LoadStored ==
    ASSUME NEW m, NEW o, NEW a \in Int, NEW limit \in Int, NEW bitpos \in Nat,
           NEW type, IsType(type), NEW junk \in SUBSET Nat, Storable(o, a, limit, bitpos, type),
           NEW k \in Own(bitpos, type)
    PROVE  a + k \in LoadElement(m, a, limit, bitpos, type, StoreElement(o, a, 0, type), junk) <=> a + k \in o
<1> DEFINE i == TypeSize(type)
           n == i.bits
           read == {h \in 0..(n - 1) : (a + h) \in o}
           zeros == {p \in 0..(n \div 8) : p = n \div 8 \/ read \cap (8 * p)..(8 * p + 7) = {}}
           len == Min(zeros)
           v == StoreElement(o, a, 0, type)
           result == LoadElement(m, a, limit, bitpos, type, v, junk)
<1>1. /\ n \in Nat /\ n > 0
      /\ i.index = "bit" => n \in 1..8
      /\ i.index \in {"string", "hex"} => n % 8 = 0
      /\ i.index \in {"int", "uint"} => n \in {8, 16, 32, 64}
      /\ i.index \in {"bit", "string", "hex", "int", "uint"}
    BY SizeOf DEF Storable
<1>2. \A b \in Nat : b \div 8 \in Nat /\ (b % 8 = 0 => b = 8 * (b \div 8)) /\ b < 8 * (1 + (b \div 8))
    OBVIOUS
<1>3. /\ n \div 8 \in Nat /\ n < 8 * (1 + (n \div 8))
      /\ i.index # "bit" => n = 8 * (n \div 8)
    <2>1. i.index # "bit" => n % 8 = 0
        BY <1>1
    <2> HIDE DEF i
    <2>. QED  BY <1>1, <1>2, <2>1
<1>4. /\ i.index = "bit" => bitpos = 0 /\ 1 + (n \div 8) <= limit
      /\ i.index # "bit" => n \div 8 <= limit
    BY DEF Storable
<1>5. limit > 0
    <2> HIDE DEF i
    <2>. QED  BY <1>1, <1>3, <1>4
<1>6. k \in 0..(n - 1)
    <2>1. Own(bitpos, type) = IF i.index = "bit" THEN bitpos..(bitpos + n - 1) ELSE 0..(0 + n - 1)
        BY DEF Own
    <2> HIDE DEF i
    <2>. QED  BY <1>1, <1>4, <2>1
<1>7. k \in read <=> a + k \in o
    BY <1>6
<1>8. CASE i.index = "bit"
    <2> DEFINE bits == {h \in Read(0, n) : (a + 0 + h) \in o}
               field == Field(0, n)
               new == {h \in field : h - 0 \in bits}
    <2>1. v = Number(bits)
        BY <1>1, <1>8 DEF StoreElement
    <2>2. v # NoValue /\ v.bits = bits
        BY <2>1 DEF NoValue, Number
    <2>3. ~ (1 + ((0 + n) \div 8) > limit) /\ bitpos = 0
        <3> HIDE DEF i
        <3>. QED  BY <1>1, <1>3, <1>4, <1>8
    <2>4. result = Exchanged(m, a, field, new)
        <3> HIDE DEF v
        <3>. QED  BY <1>5, <1>8, <2>2, <2>3 DEF LoadElement, Exchanged
    <2>5. k \in field /\ field \in SUBSET Int
        <3> HIDE DEF i
        <3>. QED  BY <1>1, <1>6, <1>8 DEF Field
    <2>6. k \in new <=> a + k \in o
        <3>1. k - 0 = k /\ a + 0 + k = a + k /\ k \in Read(0, n)
            <4> HIDE DEF i
            <4>. QED  BY <1>1, <1>3, <1>6 DEF Read
        <3> HIDE DEF field
        <3>. QED  BY <2>5, <3>1
    <2>7. new \in SUBSET field
        OBVIOUS
    <2> HIDE DEF new, field, result
    <2>8. a + k \in result <=> k \in new
        BY <2>4, <2>5, <2>7, ExchangedAt
    <2>. QED  BY <2>6, <2>8 DEF result
<1>9. ASSUME NEW bits \in SUBSET (0..(n - 1)), k \in bits <=> k \in read,
             result = Exchanged(m, a, 0..(n - 1), bits)
      PROVE  a + k \in result <=> a + k \in o
    <2>1. 0..(n - 1) \in SUBSET Int
        OBVIOUS
    <2> HIDE DEF result, read, n
    <2>2. a + k \in result <=> k \in bits
        BY <1>6, <1>9, <2>1, ExchangedAt
    <2>. QED  BY <1>7, <1>9, <2>2
<1>10. CASE i.index = "string"
    <2>1. \A p \in 0..(n \div 8 - 1) : read \cap (8 * p)..(8 * p + 7) # {}
        <3>1. ASSUME NEW p \in 0..(n \div 8 - 1) PROVE \E h \in read : h \in (8 * p)..(8 * p + 7)
            <4>1. PICK y \in o : y \in (a + 8 * p)..(a + 8 * p + 7)
                BY <1>10 DEF Storable
            <4>2. y - a \in (8 * p)..(8 * p + 7) /\ a + (y - a) = y
                BY <4>1
            <4>3. y - a \in 0..(n - 1)
                <5> HIDE DEF i
                <5>. QED  BY <1>1, <1>3, <1>10, <4>2
            <4>. QED  BY <4>1, <4>2, <4>3
        <3>. QED  BY <3>1
    <2>2. zeros = {n \div 8}
        <3> HIDE DEF read, n
        <3>. QED  BY <1>3, <2>1
    <2>3. len = n \div 8
        <3>1. zeros \in SUBSET Nat /\ zeros # {}
            BY <1>3, <2>2
        <3>2. len \in zeros
            <4> HIDE DEF zeros
            <4>. QED  BY <3>1, MinOf
        <3> HIDE DEF zeros, len
        <3>. QED  BY <2>2, <3>2
    <2> DEFINE bits == {h \in read : h < 8 * len}
               text == {h \in bits : h < n} \cup {h \in junk : 8 * len + 8 <= h /\ h < n}
    <2>4. v = String(len, bits)
        BY <1>1, <1>10 DEF StoreElement
    <2>5. v # NoValue /\ v.kind = "string" /\ v.len = len /\ v.bits = bits
        <3> HIDE DEF v, bits, len
        <3>. QED  BY <2>4 DEF NoValue, String
    <2>6. result = Exchanged(m, a, 0..(n - 1), text)
        <3> HIDE DEF v, bits, len
        <3>. QED  BY <1>4, <1>5, <1>10, <2>5 DEF LoadElement, Exchanged
    <2>7. 8 * len = n
        BY <1>3, <1>10, <2>3
    <2>8. text \in SUBSET (0..(n - 1)) /\ (k \in text <=> k \in read)
        <3>1. read \in SUBSET (0..(n - 1))
            OBVIOUS
        <3>2. len \in Nat
            BY <1>3, <2>3
        <3> HIDE DEF read, len, n
        <3>3. \A h \in junk : ~ (8 * len + 8 <= h /\ h < n)
            <4>1. n \in Nat /\ \A h \in junk : h \in Nat
                BY <1>1
            <4>2. ASSUME NEW h \in Nat PROVE ~ (n + 8 <= h /\ h < n)
                BY <4>1
            <4>. QED  BY <2>7, <4>1, <4>2
        <3>4. \A h \in read : h < 8 * len /\ h < n
            BY <1>1, <2>7, <3>1, <3>2
        <3>5. text = read
            BY <3>3, <3>4
        <3>. QED  BY <3>1, <3>5
    <2> HIDE DEF text, result, read, n
    <2>9. a + k \in result <=> a + k \in o
        BY <1>9, <2>6, <2>8
    <2>. QED  BY <2>9 DEF result
<1>11. CASE i.index = "hex"
    <2> DEFINE bits == {h \in read : h < n}
    <2>1. v = String(n \div 8, read)
        BY <1>1, <1>11 DEF StoreElement
    <2>2. v # NoValue /\ v.kind = "string" /\ v.len = n \div 8 /\ v.bits = read
        <3> HIDE DEF v, read, n
        <3>. QED  BY <2>1 DEF NoValue, String
    <2>3. Least(8 * (n \div 8), n) = n
        <3>1. 8 * (n \div 8) = n
            BY <1>3, <1>11
        <3>. QED  BY <1>1, <3>1 DEF Least
    <2>4. result = Exchanged(m, a, 0..(n - 1), bits)
        <3> HIDE DEF v, read
        <3>. QED  BY <1>4, <1>5, <1>11, <2>2, <2>3 DEF LoadElement, Exchanged
    <2>5. bits \in SUBSET (0..(n - 1)) /\ (k \in bits <=> k \in read)
        BY <1>1, <1>6
    <2> HIDE DEF bits, result, read, n
    <2>6. a + k \in result <=> a + k \in o
        BY <1>9, <2>4, <2>5
    <2>. QED  BY <2>6 DEF result
<1>12. CASE i.index \in {"int", "uint"}
    <2> DEFINE value == ValueInt(read, n, i.index = "int")
               bits == {h \in value : h < n}
    <2>1. v = Number(value)
        BY <1>1, <1>12 DEF StoreElement
    <2>2. v # NoValue /\ v.kind # "string" /\ v.bits = value
        <3> HIDE DEF v, value
        <3>. QED  BY <2>1 DEF NoValue, Number
    <2>3. result = Exchanged(m, a, 0..(n - 1), bits)
        <3> HIDE DEF v, value
        <3>. QED  BY <1>4, <1>5, <1>12, <2>2 DEF LoadElement, Exchanged
    <2>4. \A h \in 0..(n - 1) : h \in value <=> h \in read
        <3>1. n \in {8, 16, 32, 64} /\ read \in SUBSET (0..(n - 1)) /\ (i.index = "int") \in BOOLEAN
            BY <1>1, <1>12
        <3>2. IF i.index = "int" THEN n = 64 => read \cap 31..63 = {} ELSE n >= 32 => read \cap 31..(n - 1) = {}
            <4>1. i.index = "int" /\ n = 64 => o \cap (a + 31)..(a + 63) = {}
                BY DEF Storable
            <4>2. i.index = "uint" /\ n >= 32 => o \cap (a + 31)..(a + n - 1) = {}
                BY DEF Storable
            <4>3. \A h \in read : h \in Int /\ a + h \in o
                OBVIOUS
            <4>4. \A h \in Int : \A b \in Int : h \in 31..b => a + h \in (a + 31)..(a + b)
                OBVIOUS
            <4>5. a + n - 1 = a + (n - 1) /\ n - 1 \in Int
                BY <3>1
            <4> HIDE DEF read, i
            <4>. QED  BY <1>12, <3>1, <4>1, <4>2, <4>3, <4>4, <4>5
        <3> DEFINE signed == i.index = "int"
        <3>3. signed \in BOOLEAN /\ value = ValueInt(read, n, signed)
            OBVIOUS
        <3>4. IF signed THEN n = 64 => read \cap 31..63 = {} ELSE n >= 32 => read \cap 31..(n - 1) = {}
            BY <3>2
        <3> HIDE DEF read, n, value, signed
        <3>. QED  BY <3>1, <3>3, <3>4, ValueIntKeeps
    <2>5. value \in SUBSET Nat
        <3>1. read \in SUBSET Nat
            <4> HIDE DEF n
            <4>1. 0..(n - 1) \in SUBSET Nat
                BY <1>1
            <4>. QED  BY <4>1
        <3> HIDE DEF read, n
        <3>. QED  BY <1>1, <3>1, ValueIntIn
    <2>6. bits \in SUBSET (0..(n - 1))
        <3> HIDE DEF value, n
        <3>1. ASSUME NEW h \in bits PROVE h \in 0..(n - 1)
            BY <1>1, <2>5
        <3>. QED  BY <3>1
    <2>7. k \in bits <=> k \in read
        <3> HIDE DEF value, read, n
        <3>. QED  BY <1>1, <1>6, <2>4
    <2> HIDE DEF bits, result, read, n
    <2>8. a + k \in result <=> a + k \in o
        BY <1>9, <2>3, <2>6, <2>7
    <2>. QED  BY <2>8 DEF result
<1>. QED  BY <1>1, <1>8, <1>10, <1>11, <1>12

\* What the i-th element is loaded with when the archive is opened again.
Again(m, i, junk) == DataElement(m, elems[i][1], elems[i][2], saved[i], junk)

\* The bits of the i-th element.
Bits(i) == ElementBits(Address(elems[i][1], elems[i][2]), elems[i][2].bitpos, elems[i][2].type)

\* The i-th element has its value again, if it can be kept and is not overwritten.
Survives(i) ==
    Keeps(i) /\ (\A j \in DOMAIN elems \ {i} : Bits(j) \cap Bits(i) = {})
        => old \cap Bits(i) = mem \cap Bits(i)

\* The equation of the memory after the elements of a set of places are loaded
\* in their order.
IsReload(f, places, junk) ==
    f = [s \in SUBSET DOMAIN places |->
            IF s = {} THEN {} ELSE Again(f[s \ {Max(s)}], places[Max(s)], junk)]

\* What save has written is what the memory had.
SavedInv ==
    phase = "saved" =>
        /\ old = mem
        /\ DOMAIN saved = DOMAIN elems
        /\ \A i \in DOMAIN elems :
                saved[i] = IF elems[i][2].nested THEN NoValue
                           ELSE StoreElement(old, Address(elems[i][1], elems[i][2]), 0, elems[i][2].type)

(* The memory after open is the value of a function that solves the        *)
(* equation.                                                               *)
LEMMA ReloadIs ==
    ASSUME NEW junk, Reopen(junk), NEW f, IsReload(f, [i \in DOMAIN elems |-> i], junk)
    PROVE  \E h : IsReload(h, [i \in DOMAIN elems |-> i], junk) /\ mem' = h[DOMAIN elems]
BY DEF IsReload, Reopen, FoldLeftDomain, FoldLeft, MapThenFoldSet, Again

(* The equation has a solution: the functions that solve it for at most n  *)
(* elements grow with n.                                                   *)
LEMMA ReloadExists ==
    ASSUME NEW n \in Nat, DOMAIN elems = 1..n, NEW junk
    PROVE  \E f : IsReload(f, [i \in DOMAIN elems |-> i], junk)
<1> DEFINE S == 1..n
           Solves(f, c) == \A s \in SUBSET S : Cardinality(s) <= c =>
                              f[s] = IF s = {} THEN {} ELSE Again(f[s \ {Max(s)}], Max(s), junk)
           P == {c \in Nat : \E f : Solves(f, c)}
<1>1. \A s \in SUBSET S : IsFiniteSet(s) /\ Cardinality(s) \in Nat /\ Cardinality(s) <= Cardinality(S)
    <2>1. IsFiniteSet(S)
        BY FS_Interval
    <2> HIDE DEF S
    <2>. QED  BY <2>1, FS_Subset, FS_CardinalityType
<1>2. \A s \in SUBSET S : s # {} =>
            Max(s) \in s /\ s \ {Max(s)} \in SUBSET S /\ Cardinality(s \ {Max(s)}) = Cardinality(s) - 1
    BY <1>1, MaxOf, FS_RemoveElement
<1>3. 0 \in P
    <2> DEFINE f == [s \in SUBSET S |-> {}]
    <2>1. \A s \in SUBSET S : Cardinality(s) <= 0 => s = {}
        BY <1>1, FS_EmptySet
    <2>2. Solves(f, 0)
        BY <2>1
    <2>. QED  BY <2>2
<1> HIDE DEF S
<1>4. ASSUME NEW c \in P PROVE c + 1 \in P
    <2>1. PICK f : Solves(f, c)
        OBVIOUS
    <2> DEFINE h == [s \in SUBSET S |->
                        IF Cardinality(s) <= c THEN f[s]
                        ELSE IF s = {} THEN {} ELSE Again(f[s \ {Max(s)}], Max(s), junk)]
    <2>2. ASSUME NEW s \in SUBSET S, Cardinality(s) <= c + 1, s # {}
          PROVE  h[s] = Again(h[s \ {Max(s)}], Max(s), junk)
        <3>1. Cardinality(s \ {Max(s)}) <= c /\ s \ {Max(s)} \in SUBSET S
            <4>1. Cardinality(s \ {Max(s)}) = Cardinality(s) - 1 /\ Cardinality(s) \in Nat /\ c \in Nat
                BY <1>1, <1>2, <2>2
            <4>2. s \ {Max(s)} \in SUBSET S
                OBVIOUS
            <4>. QED  BY <2>2, <4>1, <4>2
        <3>2. h[s \ {Max(s)}] = f[s \ {Max(s)}]
            BY <3>1
        <3>3. h[s] = Again(f[s \ {Max(s)}], Max(s), junk)
            BY <2>1, <2>2
        <3>. QED  BY <3>2, <3>3
    <2>3. h[{}] = {}
        <3>1. Cardinality({}) = 0 /\ {} \in SUBSET S /\ c \in Nat
            BY FS_EmptySet
        <3>2. f[{}] = {}
            BY <2>1, <3>1
        <3>. QED  BY <3>1, <3>2
    <2>4. Solves(h, c + 1)
        <3> HIDE DEF h
        <3>1. ASSUME NEW s \in SUBSET S, Cardinality(s) <= c + 1
              PROVE  h[s] = IF s = {} THEN {} ELSE Again(h[s \ {Max(s)}], Max(s), junk)
            BY <2>2, <2>3, <3>1
        <3>. QED  BY <3>1
    <2>5. c + 1 \in Nat
        OBVIOUS
    <2> HIDE DEF Solves, h
    <2>. QED  BY <2>4, <2>5
<1>5. P = Nat
    <2> HIDE DEF P
    <2>1. P \in SUBSET Nat
        BY DEF P
    <2>. QED  BY <1>3, <1>4, <2>1, Induction
<1>6. Cardinality(S) \in P
    BY <1>1, <1>5
<1>7. PICK f : Solves(f, Cardinality(S))
    BY <1>6
<1> DEFINE r == [s \in SUBSET S |-> f[s]]
<1>8. ASSUME NEW s \in SUBSET S
      PROVE  r[s] = IF s = {} THEN {} ELSE Again(r[s \ {Max(s)}], Max(s), junk)
    BY <1>1, <1>2, <1>7
<1>9. \A s \in SUBSET S : s # {} => [i \in DOMAIN elems |-> i][Max(s)] = Max(s)
    BY <1>2 DEF S
<1>10. r = [s \in SUBSET S |-> IF s = {} THEN {} ELSE Again(r[s \ {Max(s)}], Max(s), junk)]
    <2> HIDE DEF r
    <2>1. r = [s \in SUBSET S |-> r[s]]
        BY DEF r
    <2>. QED  BY <1>8, <2>1
<1> HIDE DEF r
<1>11. IsReload(r, [i \in DOMAIN elems |-> i], junk)
    BY <1>9, <1>10 DEF IsReload, S
<1>. QED  BY <1>11

(* Opening again loads the elements one after the other.                   *)
LEMMA ReloadChain ==
    ASSUME NEW n \in Nat, DOMAIN elems = 1..n, NEW junk, Reopen(junk)
    PROVE  \E f : /\ mem' = f[1..n]
                  /\ \A i \in 1..n : f[1..i] = Again(f[1..(i - 1)], i, junk)
<1>1. PICK f : IsReload(f, [i \in DOMAIN elems |-> i], junk) /\ mem' = f[DOMAIN elems]
    BY ReloadExists, ReloadIs
<1>2. ASSUME NEW i \in 1..n PROVE f[1..i] = Again(f[1..(i - 1)], i, junk)
    <2> DEFINE s == 1..i
               places == [h \in DOMAIN elems |-> h]
    <2>1. s \in SUBSET (1..n) /\ i \in s /\ s # {} /\ \A h \in s : h <= i
        <3>1. i \in s /\ \A h \in s : h \in 1..n /\ h <= i
            OBVIOUS
        <3> HIDE DEF s
        <3>. QED  BY <3>1
    <2>2. Max(s) = i
        <3>1. Max(s) \in s /\ \A k \in s : k <= Max(s)
            BY <2>1, MaxOf
        <3>2. Max(s) \in Int /\ i \in Int
            BY <2>1, <3>1
        <3>. QED  BY <2>1, <3>1, <3>2
    <2>3. s \ {i} = 1..(i - 1)
        OBVIOUS
    <2>4. f[s] = Again(f[s \ {Max(s)}], places[Max(s)], junk)
        <3>1. s \in SUBSET DOMAIN places
            BY <2>1
        <3> HIDE DEF s, places
        <3>. QED  BY <1>1, <2>1, <3>1 DEF IsReload, places
    <2>5. places[i] = i
        OBVIOUS
    <2> HIDE DEF places
    <2>. QED  BY <2>2, <2>3, <2>4, <2>5
<1>. QED  BY <1>1, <1>2

(* An element that was loaded has a place in the memory.                   *)
LEMMA ElementAt ==
    ASSUME Inv, phase # "start", NEW i \in DOMAIN elems
    PROVE  LET k == elems[i][1]
               e == elems[i][2]
           IN  /\ e \in [nested : BOOLEAN, pos : Nat, bitpos : Nat, type : STRING \X Nat, size : Nat]
               /\ IsType(e.type)
               /\ Address(k, e) \in Int
               /\ Slot(k).alloc \in Nat /\ tmpl[k].size \in Nat
<1> DEFINE k == elems[i][1]
           e == elems[i][2]
<1>1. k \in DOMAIN tmpl /\ InTable(tmpl, k) /\ e \in Elements
    <2> DEFINE R == Nat \X Elements \X Values
    <2>1. elems[i] \in R
        <3>1. elems \in Seq(R)
            BY DEF Inv, LoadedInv
        <3> HIDE DEF R
        <3>. QED  BY <3>1
    <2>. QED  BY <2>1 DEF Inv, LoadedInv
<1>2. e \in [nested : BOOLEAN, pos : Nat, bitpos : Nat, type : STRING \X Nat, size : Nat] /\ IsType(e.type)
    BY <1>1, ElementsAssumption DEF IsType
<1>3. Slot(k).base \in Nat /\ Slot(k).alloc \in Nat /\ tmpl[k].size \in Nat
    BY <1>1, SlotOf DEF Inv
<1>4. Address(k, e) \in Int
    <2>1. \A b \in Nat, p \in Nat : 8 * (b + p) \in Int
        OBVIOUS
    <2>. QED  BY <1>2, <1>3, <2>1 DEF Address
<1>. QED  BY <1>2, <1>3, <1>4

(* Loading what was saved leaves the bits of other elements.               *)
LEMMA AgainOwnBits ==
    ASSUME Inv, SavedInv, phase = "saved", NEW i \in DOMAIN elems, NEW junk \in SUBSET Nat,
           NEW m, NEW b, b \notin Bits(i)
    PROVE  b \in Again(m, i, junk) <=> b \in m
<1> DEFINE k == elems[i][1]
           e == elems[i][2]
           a == Address(k, e)
           v == saved[i]
           limit == IF e.nested THEN e.size ELSE Least(tmpl[k].size, Slot(k).alloc) - e.pos
<1>1. /\ e \in [nested : BOOLEAN, pos : Nat, bitpos : Nat, type : STRING \X Nat, size : Nat]
      /\ IsType(e.type) /\ Slot(k).alloc \in Nat /\ tmpl[k].size \in Nat
    BY ElementAt
<1>2. IsValue(v) /\ ~ Overlong(e.type, v)
    <2>1. v = IF e.nested THEN NoValue ELSE StoreElement(old, a, 0, e.type)
        BY DEF SavedInv
    <2>2. IsValue(NoValue) /\ ~ Overlong(e.type, NoValue)
        BY DEF IsValue, Overlong, NoValue
    <2>3. IsValue(StoreElement(old, a, 0, e.type)) /\ ~ Overlong(e.type, StoreElement(old, a, 0, e.type))
        BY <1>1, StoredValue
    <2>. QED  BY <2>1, <2>2, <2>3
<1>3. limit \in Int /\ e.bitpos \in Nat
    BY <1>1 DEF Least
<1>4. Again(m, i, junk) = LoadElement(m, a, limit, e.bitpos, e.type, v, junk)
    BY DEF Again, DataElement
<1>5. {a + h : h \in Own(e.bitpos, e.type)} = Bits(i)
    BY DEF Own, ElementBits, Bits
<1> HIDE DEF a, v, limit
<1>6. Exchanges(m, Again(m, i, junk), a, Own(e.bitpos, e.type), limit)
    BY <1>1, <1>2, <1>3, <1>4, LoadExchanges
<1>7. PICK field \in SUBSET Own(e.bitpos, e.type), bits \in SUBSET Own(e.bitpos, e.type) :
          bits \subseteq field /\ Again(m, i, junk) = Exchanged(m, a, field, bits)
    BY <1>6 DEF Exchanges
<1>. QED  BY <1>5, <1>7 DEF Exchanged

(* Loading what was saved brings back the bits of an element that is kept. *)
LEMMA AgainKept ==
    ASSUME Inv, SavedInv, phase = "saved", NEW i \in DOMAIN elems, NEW junk \in SUBSET Nat,
           NEW m, NEW b \in Bits(i), Keeps(i)
    PROVE  b \in Again(m, i, junk) <=> b \in old
<1> DEFINE k == elems[i][1]
           e == elems[i][2]
           a == Address(k, e)
           limit == Least(tmpl[k].size, Slot(k).alloc) - e.pos
<1>1. /\ e \in [nested : BOOLEAN, pos : Nat, bitpos : Nat, type : STRING \X Nat, size : Nat]
      /\ IsType(e.type) /\ a \in Int /\ Slot(k).alloc \in Nat /\ tmpl[k].size \in Nat
    BY ElementAt
<1>2. ~ e.nested /\ Storable(old, a, limit, e.bitpos, e.type)
    BY DEF Keeps, Storable
<1>3. saved[i] = StoreElement(old, a, 0, e.type)
    BY <1>2 DEF SavedInv
<1>4. Again(m, i, junk) = LoadElement(m, a, limit, e.bitpos, e.type, StoreElement(old, a, 0, e.type), junk)
    BY <1>2, <1>3 DEF Again, DataElement
<1>5. limit \in Int /\ e.bitpos \in Nat
    BY <1>1 DEF Least
<1>6. PICK h \in Own(e.bitpos, e.type) : b = a + h
    BY DEF Own, ElementBits, Bits
<1> HIDE DEF a, limit, e
<1>. QED  BY <1>1, <1>2, <1>4, <1>5, <1>6, LoadStored

(* After save the values are those of the memory.                          *)
LEMMA SavedInvariance == Spec => []SavedInv
<1>1. Init => SavedInv
    BY DEF Init, SavedInv
<1>2. ASSUME SavedInv, [Next]_vars PROVE SavedInv'
    <2> USE <1>2
    <2>1. ASSUME NEW raw \in Templates, OpenFails(raw) \/ OpenTemplate(raw) PROVE SavedInv'
        BY <2>1 DEF OpenFails, OpenTemplate, vars, SavedInv
    <2>2. ASSUME NEW k \in DOMAIN tmpl, NEW e \in Elements, NEW v \in Values, NEW junk,
                 LoadDefault(k, e, v, junk) \/ LoadData(k, e, v, junk)
          PROVE  SavedInv'
        BY <2>2 DEF LoadDefault, LoadData, Loads, SavedInv
    <2>3. ASSUME NEW k \in DOMAIN tmpl, NEW bits \in Writes, ClientWrites(k, bits) PROVE SavedInv'
        BY <2>3 DEF ClientWrites, SavedInv
    <2>4. CASE SaveContents
        BY <2>4 DEF SaveContents, SavedInv, Address, Slot
    <2>5. ASSUME NEW junk, Reopen(junk) PROVE SavedInv'
        BY <2>5 DEF Reopen, SavedInv
    <2>6. CASE UNCHANGED vars
        BY <2>6 DEF vars, SavedInv, Address, Slot
    <2>. QED  BY <2>1, <2>2, <2>3, <2>4, <2>5, <2>6 DEF Next
<1>. QED  BY <1>1, <1>2, PTL DEF Spec

(* What can be kept has the same value after save and open, for every      *)
(* template, all elements and whatever was written: numbers of every width *)
(* with and without sign, bit fields at the start of their byte, texts and *)
(* hex strings, loaded again in the order of their first loading           *)
(* (jst_load_element, jst_store_element, cmd_save).                        *)
THEOREM SavedIsReloaded == Spec => []SurvivesSave
<1>1. Init => SurvivesSave
    BY DEF Init, SurvivesSave
<1>2. ASSUME Inv, SavedInv, SurvivesSave, [Next]_vars PROVE SurvivesSave'
    <2> USE <1>2
    <2>1. ASSUME NEW raw \in Templates, OpenFails(raw) \/ OpenTemplate(raw) PROVE SurvivesSave'
        BY <2>1 DEF OpenFails, OpenTemplate, vars, SurvivesSave
    <2>2. ASSUME NEW k \in DOMAIN tmpl, NEW e \in Elements, NEW v \in Values, NEW junk,
                 LoadDefault(k, e, v, junk) \/ LoadData(k, e, v, junk)
          PROVE  SurvivesSave'
        BY <2>2 DEF LoadDefault, LoadData, Loads, SurvivesSave
    <2>3. ASSUME NEW k \in DOMAIN tmpl, NEW bits \in Writes, ClientWrites(k, bits) PROVE SurvivesSave'
        BY <2>3 DEF ClientWrites, SurvivesSave
    <2>4. CASE SaveContents
        BY <2>4 DEF SaveContents, SurvivesSave
    <2>5. ASSUME NEW junk \in UNION {JunkOf(elems[i][2]) : i \in DOMAIN elems}, Reopen(junk)
          PROVE  SurvivesSave'
        <3>1. junk \in SUBSET Nat /\ phase = "saved" /\ UNCHANGED <<tmpl, hdr, elems, old>>
            <4>1. \A e : JunkOf(e) \subseteq {{}, 0..63}
                BY DEF JunkOf, Junk
            <4>2. junk = {} \/ junk = 0..63
                BY <2>5, <4>1
            <4>3. 0..63 \in SUBSET Nat /\ {} \in SUBSET Nat
                OBVIOUS
            <4>4. phase = "saved" /\ UNCHANGED <<tmpl, hdr, elems, old>>
                BY <2>5 DEF Reopen
            <4>. QED  BY <4>2, <4>3, <4>4
        <3>2. ASSUME NEW i \in DOMAIN elems, Keeps(i), \A j \in DOMAIN elems \ {i} : Bits(j) \cap Bits(i) = {}
              PROVE  old \cap Bits(i) = mem' \cap Bits(i)
            <4> DEFINE n == Len(elems)
            <4>1. DOMAIN elems = 1..n /\ n \in Nat
                BY DEF Inv, LoadedInv
            <4> HIDE DEF n
            <4>2. PICK f : /\ mem' = f[1..n]
                           /\ \A j \in 1..n : f[1..j] = Again(f[1..(j - 1)], j, junk)
                BY <2>5, <4>1, ReloadChain
            <4> DEFINE Same(j) == \A b \in Bits(i) : b \in f[1..j] <=> b \in old
                       P == {c \in Nat : i + c <= n => Same(i + c)}
            <4>3. i \in 1..n
                BY <4>1
            <4>4. 0 \in P
                <5>1. Same(i)
                    BY <3>1, <3>2, <4>2, <4>3, AgainKept
                <5> HIDE DEF Same
                <5>2. i + 0 = i
                    BY <4>3
                <5>. QED  BY <5>1, <5>2
            <4>5. ASSUME NEW c \in P PROVE c + 1 \in P
                <5>1. SUFFICES ASSUME i + (c + 1) <= n PROVE Same(i + (c + 1))
                    <6> HIDE DEF Same
                    <6>. QED  OBVIOUS
                <5> DEFINE j == i + (c + 1)
                <5>2. j \in DOMAIN elems \ {i} /\ j - 1 = i + c /\ i + c <= n
                    BY <4>1, <4>3, <5>1
                <5>3. Same(i + c)
                    BY <5>2
                <5> HIDE DEF j
                <5>4. \A b \in Bits(i) : b \notin Bits(j)
                    BY <3>2, <5>2
                <5>5. f[1..j] = Again(f[1..(j - 1)], j, junk)
                    BY <4>1, <4>2, <5>2
                <5>6. \A b \in Bits(i) : b \in f[1..j] <=> b \in f[1..(j - 1)]
                    BY <3>1, <5>2, <5>4, <5>5, AgainOwnBits
                <5>. QED  BY <5>2, <5>3, <5>6 DEF j
            <4>6. P = Nat
                <5> HIDE DEF P
                <5>1. P \in SUBSET Nat
                    BY DEF P
                <5>. QED  BY <4>4, <4>5, <5>1, Induction
            <4>7. n - i \in P /\ i + (n - i) = n
                BY <4>1, <4>3, <4>6
            <4>8. Same(n)
                <5> HIDE DEF Same
                <5>. QED  BY <4>1, <4>7
            <4>. QED  BY <4>2, <4>8
        <3>3. \A i : Keeps(i)' <=> Keeps(i)
            BY <3>1 DEF Keeps, Address, Slot
        <3>4. \A i : Bits(i)' = Bits(i)
            BY <3>1 DEF Bits, Address, Slot
        <3>5. (\A i \in DOMAIN elems' : Survives(i)') => SurvivesSave'
            BY DEF SurvivesSave, Survives, Bits
        <3>6. elems' = elems /\ old' = old
            BY <3>1
        <3>7. ASSUME NEW i \in DOMAIN elems' PROVE Survives(i)'
            <4>1. i \in DOMAIN elems
                BY <3>6, <3>7
            <4>2. ASSUME Keeps(i), \A j \in DOMAIN elems \ {i} : Bits(j) \cap Bits(i) = {}
                  PROVE  old \cap Bits(i) = mem' \cap Bits(i)
                BY <3>2, <4>1, <4>2
            <4>. QED  BY <3>3, <3>4, <3>6, <4>2 DEF Survives
        <3>. QED  BY <3>5, <3>7
    <2>6. CASE UNCHANGED vars
        <3>1. UNCHANGED <<phase, tmpl, hdr, mem, elems, saved, old>>
            BY <2>6 DEF vars
        <3>2. \A i : (Keeps(i)' <=> Keeps(i)) /\ Bits(i)' = Bits(i)
            BY <3>1 DEF Keeps, Bits, Address, Slot
        <3>3. SurvivesSave <=> (phase = "open" => \A i \in DOMAIN elems : Survives(i))
            BY DEF SurvivesSave, Survives, Bits
        <3>4. SurvivesSave' <=> (phase' = "open" => \A i \in DOMAIN elems' : Survives(i)')
            BY DEF SurvivesSave, Survives, Bits
        <3>5. \A i : Survives(i)' <=> Survives(i)
            BY <3>1, <3>2 DEF Survives
        <3>. QED  BY <3>1, <3>3, <3>4, <3>5
    <2>. QED  BY <2>1, <2>2, <2>3, <2>4, <2>5, <2>6 DEF Next
<1>. QED  BY <1>1, <1>2, Invariance, SavedInvariance, PTL DEF Spec

-----------------------------------------------------------------------------
(* Arguments.                                                              *)

(* First is the least place of a set of places.                            *)
LEMMA FirstOf ==
    ASSUME NEW S \in SUBSET Nat, S # {}
    PROVE  First(S) \in S /\ \A i \in S : First(S) <= i
BY LeastOf DEF First

(* Every byte of a range with a start is in the range that is used and no  *)
(* other, at any position: what is a uint16_t is kept by its conversion.   *)
LEMMA RangeIsKept ==
    ASSUME NEW typed \in Seq(Int), Plain(typed)
    PROVE  AsDocumented(typed, RangeOf(typed), Nat)
<1> DEFINE Given(i) == i \in DOMAIN typed /\ typed[i] # Blank
           tokens == Tokens(typed)
           rest == {i \in tokens : First(tokens) < i}
           r == RangeOf(typed)
<1>1. /\ Len(typed) <= 2
      /\ \A i \in DOMAIN typed : typed[i] \in 0..MaxRange \cup {Blank}
      /\ Given(2) => Given(1)
    BY DEF Plain
<1>0. SUFFICES ASSUME NEW p \in Nat
               PROVE  (r.lo <= p /\ p < r.hi) <=>
                      /\ Given(1) => typed[1] <= p
                      /\ p < IF Given(2) THEN typed[2] ELSE MaxRange
    BY DEF AsDocumented
<1>2. /\ DOMAIN typed \in SUBSET {1, 2}
      /\ r.lo = IF tokens = {} THEN 0 ELSE typed[First(tokens)] % W
      /\ r.hi = IF rest = {} THEN MaxRange ELSE typed[First(rest)] % W
    <2>1. DOMAIN typed = 1..Len(typed) /\ Len(typed) \in Nat
        OBVIOUS
    <2>2. DOMAIN typed \in SUBSET {1, 2}
        BY <1>1, <2>1
    <2>. QED  BY <2>2 DEF RangeOf
<1>3. /\ \A i : i \in tokens <=> Given(i)
      /\ \A i : i \in rest <=> i \in tokens /\ First(tokens) < i
    BY DEF Tokens
<1> HIDE DEF tokens, rest, r
<1>4. ASSUME NEW i \in tokens PROVE typed[i] \in Int /\ typed[i] % W = typed[i]
    <2> DEFINE n == typed[i]
    <2>1. n \in 0..MaxRange
        BY <1>1, <1>3
    <2> HIDE DEF n
    <2>2. W \in Nat /\ W > 0 /\ MaxRange = W - 1
        BY SMT DEF W, MaxRange
    <2>3. n \in Int /\ 0 <= n /\ n < W
        BY <2>1, <2>2
    <2>4. n % W = n
        BY <2>3, SMT DEF W
    <2>. QED  BY <2>3, <2>4 DEF n
<1>5. CASE ~ Given(1)
    <2>1. tokens = {}
        BY <1>1, <1>2, <1>3, <1>5
    <2>2. r.lo = 0 /\ r.hi = MaxRange /\ ~ Given(2)
        BY <1>1, <1>2, <1>3, <1>5, <2>1
    <2>. QED  BY <1>5, <2>2
<1>6. CASE Given(1)
    <2>1. 1 \in tokens /\ tokens \in SUBSET {1, 2}
        BY <1>2, <1>3, <1>6
    <2>2. First(tokens) = 1
        <3>1. First(tokens) \in tokens /\ First(tokens) <= 1
            BY <2>1, FirstOf
        <3>2. First(tokens) \in {1, 2}
            BY <2>1, <3>1
        <3>. QED  BY <3>1, <3>2
    <2>3. r.lo = typed[1]
        BY <1>2, <1>4, <2>1, <2>2
    <2>4. CASE Given(2)
        <3>1. 2 \in rest /\ rest \in SUBSET {2}
            BY <1>3, <2>1, <2>2, <2>4
        <3>2. First(rest) = 2
            <4>1. rest \in SUBSET Nat /\ rest # {}
                BY <3>1
            <4>2. First(rest) \in rest
                BY <4>1, FirstOf
            <4>. QED  BY <3>1, <4>2
        <3>3. r.hi = typed[2]
            BY <1>2, <1>3, <1>4, <3>1, <3>2
        <3>. QED  BY <1>6, <2>3, <2>4, <3>3
    <2>5. CASE ~ Given(2)
        <3>1. rest = {}
            BY <1>3, <2>1, <2>2, <2>5
        <3>2. r.hi = MaxRange
            BY <1>2, <3>1
        <3>. QED  BY <1>6, <2>3, <2>5, <3>2
    <2>. QED  BY <2>4, <2>5
<1>. QED  BY <1>5, <1>6

(* A command runs only when none of the tests has failed.                  *)
LEMMA NoErrorRuns ==
    ASSUME NEW fields, NEW a \in Lines, ExtractArgs(fields, a).rc = 0
    PROVE  /\ ~ a.help /\ ~ a.errors
           /\ fields \cap Mandatory \subseteq a.given
           /\ ExtractArgs(fields, a) = Taken(fields, a)
<1> DEFINE errors == Errors(fields, a)
           failing == {i \in DOMAIN errors : errors[i][1]}
<1>1. DOMAIN errors = 1..9 /\ \A i \in 1..9 : errors[i][2] # 0
    BY DEF Errors
<1>2. failing = {}
    <2>1. SUFFICES ASSUME failing # {} PROVE FALSE
        OBVIOUS
    <2>2. First(failing) \in 1..9
        <3>1. failing \in SUBSET Nat /\ failing \in SUBSET (1..9)
            BY <1>1
        <3> HIDE DEF failing
        <3>. QED  BY <2>1, <3>1, FirstOf
    <2>3. ExtractArgs(fields, a).rc = errors[First(failing)][2]
        BY <2>1 DEF ExtractArgs
    <2> HIDE DEF failing, errors
    <2>. QED  BY <1>1, <2>2, <2>3
<1>3. \A i \in 1..9 : ~ errors[i][1]
    <2> HIDE DEF errors
    <2>. QED  BY <1>1, <1>2
<1>5. ExtractArgs(fields, a) = Taken(fields, a)
    BY <1>2 DEF ExtractArgs
<1>6. ~ errors[1][1] /\ ~ errors[2][1] /\ ~ errors[3][1] /\ ~ errors[4][1]
      /\ ~ errors[6][1] /\ ~ errors[7][1] /\ ~ errors[8][1] /\ ~ errors[9][1]
    <2> HIDE DEF errors
    <2>. QED  BY <1>3
<1>7. ~ a.help /\ ~ a.errors
    BY <1>6 DEF Errors
<1>8. /\ ~ ("devid" \in fields /\ "devid" \notin a.given)
      /\ ~ ("archive" \in fields /\ "archive" \notin a.given)
      /\ ~ ("fileid" \in fields /\ "fileid" \notin a.given)
    BY <1>6 DEF Errors
<1>9. /\ ~ ("perms" \in fields /\ "perms" \notin a.given)
      /\ ~ ("alloc" \in fields /\ "alloc" \notin a.given)
      /\ ~ ("data" \in fields /\ "data" \notin a.given)
    BY <1>6 DEF Errors
<1> HIDE DEF errors
<1>. QED  BY <1>5, <1>7, <1>8, <1>9 DEF Mandatory

\* The arguments are those of the line.
ArgsInv ==
    line # NoLine =>
        /\ line.a \in Lines
        /\ args = ExtractArgs(Commands[line.cmd], line.a)

(* A command that runs was given all that it asks for and gets what was    *)
(* typed, numbers up to the widths of their fields and ranges with a       *)
(* start, for every table of commands and every line (cmd_extract_args).   *)
THEOREM DoesWhatIsTyped == ArgsSpec => []RunsAsTyped
<1>1. ArgsInit => ArgsInv
    BY DEF ArgsInit, ArgsInv
<1>2. ASSUME ArgsInv, [ArgsNext]_argvars PROVE ArgsInv'
    <2> USE <1>2
    <2>1. ASSUME NEW cmd \in DOMAIN Commands, NEW a \in Lines, Parse(cmd, a) PROVE ArgsInv'
        BY <2>1 DEF Parse, ArgsInv
    <2>2. CASE ArgsDone
        BY <2>2 DEF ArgsDone, ArgsInv
    <2>3. CASE UNCHANGED argvars
        BY <2>3 DEF argvars, ArgsInv
    <2>. QED  BY <2>1, <2>2, <2>3 DEF ArgsNext
<1>3. ASSUME ArgsInv PROVE RunsAsTyped
    <2> DEFINE a == line.a
               fields == Commands[line.cmd]
               Given(field) == field \in fields /\ field \in a.given
    <2>1. SUFFICES ASSUME line # NoLine, args.rc = 0
                   PROVE  /\ ~a.help /\ ~a.errors /\ fields \cap Mandatory \subseteq a.given
                          /\ "range" \in fields /\ Plain(a.range) => AsDocumented(a.range, args.range, Edges)
                          /\ "fileid" \in fields /\ a.id \in 0..255 => args.id = a.id
                          /\ Given("perms") /\ a.perms \in 0..63 => args.perms = a.perms
                          /\ "block" \in fields /\ a.block # "none" => args.block = a.block
                          /\ fields \cap {"devid", "devidopt"} # {} /\ "devid" \in a.given /\ a.devid <= MaxDevid
                             => args.devid = a.devid
                          /\ Given("age") => args.age = a.age
                          /\ \A flag \in Flags : flag \in args.flags <=> Given(flag)
        BY DEF RunsAsTyped
    <2>2. a \in Lines /\ args = ExtractArgs(fields, a)
        BY <1>3, <2>1 DEF ArgsInv
    <2> HIDE DEF a, fields
    <2>3. /\ ~ a.help /\ ~ a.errors
          /\ fields \cap Mandatory \subseteq a.given
          /\ args = Taken(fields, a)
        BY <2>1, <2>2, NoErrorRuns
    <2>4. ASSUME "range" \in fields, Plain(a.range) PROVE AsDocumented(a.range, args.range, Edges)
        <3>1. args.range = RangeOf(a.range)
            BY <2>3, <2>4 DEF Taken
        <3>2. AsDocumented(a.range, args.range, Nat)
            BY <2>2, <2>4, <3>1, RangeIsKept, ArgsAssumption
        <3>3. Edges \in SUBSET Nat
            BY DEF Edges, MaxRange, W
        <3>. QED  BY <3>2, <3>3 DEF AsDocumented
    <2>5. ASSUME "fileid" \in fields, a.id \in 0..255 PROVE args.id = a.id
        <3>1. args.id = a.id % 256
            BY <2>3, <2>5 DEF Taken
        <3>2. \A n \in 0..255 : n % 256 = n
            OBVIOUS
        <3>. QED  BY <2>5, <3>1, <3>2
    <2>6. ASSUME Given("perms"), a.perms \in 0..63 PROVE args.perms = a.perms
        <3>1. args.perms = a.perms % 64
            BY <2>3, <2>6 DEF Taken
        <3>2. \A n \in 0..63 : n % 64 = n
            OBVIOUS
        <3>. QED  BY <2>6, <3>1, <3>2
    <2>7. "block" \in fields /\ a.block # "none" => args.block = a.block
        BY <2>3 DEF Taken, BlockOf
    <2>8. ASSUME fields \cap {"devid", "devidopt"} # {}, "devid" \in a.given, a.devid <= MaxDevid
          PROVE  args.devid = a.devid
        <3>1. args.devid = DevidOf(a.devid)
            BY <2>3, <2>8 DEF Taken
        <3>. QED  BY <2>2, <2>8, <3>1, ArgsAssumption DEF DevidOf
    <2>9. Given("age") => args.age = a.age
        BY <2>3 DEF Taken
    <2>10. \A flag \in Flags : flag \in args.flags <=> Given(flag)
        <3>1. args.flags = fields \cap a.given \cap Flags
            BY <2>3 DEF Taken
        <3>. QED  BY <3>1
    <2>. QED  BY <2>3, <2>4, <2>5, <2>6, <2>7, <2>8, <2>9, <2>10
<1>. QED  BY <1>1, <1>2, <1>3, PTL DEF ArgsSpec
=============================================================================
