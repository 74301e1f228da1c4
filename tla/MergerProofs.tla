----------------------------- MODULE MergerProofs -----------------------------
(****************************************************************************)
(* What a merged row says does not depend on the order of the DeepFlow      *)
(* rows, for every set of rows; and phase 1 and phase 2 meet: what the      *)
(* normaliser makes of the call of an operation is what the expander makes  *)
(* of the operation, for every set of patterns, every base path and every   *)
(* target, when the values that the client sends look dynamic.              *)
(*                                                                          *)
(* A sum and a sorted list are recursive in their data.  The library's      *)
(* induction rules take an operator as parameter; SubsetInduction below     *)
(* takes a set of sets instead, and is proved by a smallest counterexample. *)
(****************************************************************************)
EXTENDS Merger, FiniteSetTheorems, WellFoundedInduction, TLAPS

----------------------------------------------------------------------------
(* Induction over finite sets, for sets of sets. *)

\* A set of finite sets that is not empty has a smallest member.
LEMMA SmallestMember ==
    ASSUME NEW D, IsFiniteSet(D), NEW Bad \in SUBSET (SUBSET D), Bad # {}
    PROVE  \E S \in Bad : \A T \in Bad : ~(Cardinality(T) < Cardinality(S))
<1> DEFINE sizes == {Cardinality(S) : S \in Bad}
<1>1. \A S \in Bad : Cardinality(S) \in Nat
  BY FS_Subset, FS_CardinalityType
<1>2. sizes \subseteq Nat /\ sizes # {}
  BY <1>1
<1> HIDE DEF sizes
<1>3. PICK n \in sizes : \A m \in sizes : ~(<<m, n>> \in OpToRel(<, Nat))
  BY <1>2, NatLessThanWellFounded, WFMin, Zenon
<1>4. \A m \in sizes : ~(m < n)
  BY <1>2, <1>3 DEF OpToRel
<1> QED BY <1>4 DEF sizes

\* What holds of the empty set, and of a set if it holds of the set without
\* any one of its members, holds of every finite set.
LEMMA SubsetInduction ==
    ASSUME NEW D, IsFiniteSet(D), NEW Good \in SUBSET (SUBSET D), {} \in Good,
           \A S \in SUBSET D : S # {} /\ (\A x \in S : S \ {x} \in Good) => S \in Good
    PROVE  \A S \in SUBSET D : S \in Good
<1> DEFINE Bad == (SUBSET D) \ Good
<1> SUFFICES ASSUME Bad # {}
             PROVE  FALSE
  OBVIOUS
<1>1. PICK S \in Bad : \A T \in Bad : ~(Cardinality(T) < Cardinality(S))
  BY SmallestMember
<1>2. S # {} /\ S \in SUBSET D
  BY <1>1
<1>3. ASSUME NEW x \in S
      PROVE  S \ {x} \in Good
  <2>1. Cardinality(S) \in Nat /\ Cardinality(S \ {x}) = Cardinality(S) - 1
    BY <1>2, FS_Subset, FS_CardinalityType, FS_RemoveElement
  <2>2. Cardinality(S \ {x}) < Cardinality(S)
    BY <2>1
  <2>3. S \ {x} \notin Bad
    BY <1>1, <2>2
  <2> QED BY <1>2, <2>3
<1> QED BY <1>1, <1>2, <1>3

----------------------------------------------------------------------------
(* Sums. *)

\* h is the function by which SumFunctionOnSet computes the sum of f over S.
Solves(f, S, h) ==
    h = [s \in SUBSET S |->
           IF s = {} THEN 0 ELSE f[CHOOSE x \in s : TRUE] + h[s \ {CHOOSE x \in s : TRUE}]]

\* Two such functions agree where both are defined.
LEMMA SolutionsAgree ==
    ASSUME NEW f, NEW D, IsFiniteSet(D), NEW S \in SUBSET D, NEW T \in SUBSET D,
           NEW g, Solves(f, S, g), NEW h, Solves(f, T, h)
    PROVE  \A s \in SUBSET D : s \subseteq S /\ s \subseteq T => g[s] = h[s]
<1> DEFINE Good == {s \in SUBSET D : s \subseteq S /\ s \subseteq T => g[s] = h[s]}
<1>1. {} \in Good
  BY DEF Solves
<1>2. ASSUME NEW s \in SUBSET D, s # {}, \A x \in s : s \ {x} \in Good
      PROVE  s \in Good
  <2> SUFFICES ASSUME s \subseteq S, s \subseteq T
               PROVE  g[s] = h[s]
    OBVIOUS
  <2> DEFINE x == CHOOSE x \in s : TRUE
  <2>1. x \in s
    BY <1>2
  <2>2. g[s] = f[x] + g[s \ {x}] /\ h[s] = f[x] + h[s \ {x}]
    BY <1>2 DEF Solves
  <2>3. g[s \ {x}] = h[s \ {x}]
    BY <1>2, <2>1
  <2> QED BY <2>2, <2>3
<1>3. Good \in SUBSET (SUBSET D)
  OBVIOUS
<1> HIDE DEF Good
<1>4. \A s \in SUBSET D : s \in Good
  BY <1>1, <1>2, <1>3, SubsetInduction
<1> QED BY <1>4 DEF Good

\* There is one for every finite set.
LEMMA SolutionExists ==
    ASSUME NEW f, NEW D, IsFiniteSet(D)
    PROVE  \A S \in SUBSET D : \E h : Solves(f, S, h)
<1> DEFINE Good == {S \in SUBSET D : \A s \in SUBSET S : \E h : Solves(f, s, h)}
           Value(s) == (CHOOSE h : Solves(f, s, h))[s]
           First(s) == CHOOSE x \in s : TRUE
<1>1. {} \in Good
  <2>1. Solves(f, {}, [s \in {{}} |-> 0])
    <3>1. SUBSET {} = {{}}
      OBVIOUS
    <3> QED BY <3>1 DEF Solves
  <2> QED BY <2>1
<1>2. ASSUME NEW S \in SUBSET D, S # {}, \A x \in S : S \ {x} \in Good
      PROVE  S \in Good
  <2>1. ASSUME NEW s \in SUBSET S, s # S
        PROVE  \E h : Solves(f, s, h)
    <3>1. PICK x \in S : x \notin s
      BY <2>1
    <3>2. s \in SUBSET (S \ {x})
      BY <3>1
    <3> QED BY <1>2, <3>2
  <2> DEFINE h == [s \in SUBSET S |-> IF s = {} THEN 0 ELSE f[First(s)] + Value(s \ {First(s)})]
  <2>2. ASSUME NEW s \in SUBSET S, s # S
        PROVE  h[s] = Value(s)
    <3> DEFINE g == CHOOSE g : Solves(f, s, g)
               t == s \ {First(s)}
    <3>1. Solves(f, s, g)
      BY <2>1, <2>2
    <3>2. CASE s = {}
      <4>1. g[s] = 0
        BY <3>1, <3>2 DEF Solves
      <4> QED BY <3>2, <4>1
    <3>3. CASE s # {}
      <4>1. First(s) \in s /\ t \in SUBSET s /\ t \in SUBSET S /\ t # S
        BY <3>3
      <4>2. g[s] = f[First(s)] + g[t]
        BY <3>1, <3>3 DEF Solves
      <4>3. Solves(f, t, CHOOSE k : Solves(f, t, k))
        BY <2>1, <4>1
      <4>4. g[t] = Value(t)
        <5> DEFINE k == CHOOSE k : Solves(f, t, k)
        <5>1. Solves(f, t, k) /\ s \in SUBSET D /\ t \in SUBSET D /\ t \subseteq s
          BY <4>1, <4>3
        <5> HIDE DEF k, g, t
        <5>2. g[t] = k[t]
          BY <3>1, <5>1, SolutionsAgree
        <5> QED BY <5>2 DEF k
      <4> QED BY <3>3, <4>2, <4>4
    <3> QED BY <3>2, <3>3
  <2>3. Solves(f, S, h)
    <3>1. ASSUME NEW s \in SUBSET S, s # {}
          PROVE  h[s \ {First(s)}] = Value(s \ {First(s)})
      <4>1. First(s) \in s
        BY <3>1
      <4>2. s \ {First(s)} \in SUBSET S /\ s \ {First(s)} # S
        BY <4>1
      <4> HIDE DEF h, Value, First
      <4> QED BY <2>2, <4>2
    <3>2. \A s \in SUBSET S : s # {} => h[s] = f[First(s)] + h[s \ {First(s)}]
      BY <3>1
    <3>3. h[{}] = 0 /\ DOMAIN h = SUBSET S
      OBVIOUS
    <3>4. h = [s \in SUBSET S |-> h[s]]
      OBVIOUS
    <3> HIDE DEF h
    <3>5. h = [s \in SUBSET S |-> IF s = {} THEN 0 ELSE f[First(s)] + h[s \ {First(s)}]]
      BY <3>2, <3>3, <3>4
    <3> QED BY <3>5 DEF Solves
  <2>4. ASSUME NEW s \in SUBSET S
        PROVE  \E k : Solves(f, s, k)
    <3> HIDE DEF h
    <3> QED BY <2>1, <2>3
  <2> QED BY <2>4
<1>3. Good \in SUBSET (SUBSET D)
  OBVIOUS
<1> HIDE DEF Good
<1>4. \A S \in SUBSET D : S \in Good
  BY <1>1, <1>2, <1>3, SubsetInduction
<1> QED BY <1>4 DEF Good

\* What SumFunctionOnSet computes.
LEMMA SumStep ==
    ASSUME NEW f, NEW D, IsFiniteSet(D)
    PROVE  /\ SumFunctionOnSet(f, {}) = 0
           /\ \A S \in SUBSET D : S # {} =>
                 LET x == CHOOSE x \in S : TRUE
                 IN  SumFunctionOnSet(f, S) = f[x] + SumFunctionOnSet(f, S \ {x})
<1>1. \A S : SumFunctionOnSet(f, S) = (CHOOSE h : Solves(f, S, h))[S]
  BY DEF SumFunctionOnSet, FoldFunctionOnSet, MapThenFoldSet, Solves
<1>2. \A S \in SUBSET D : Solves(f, S, CHOOSE h : Solves(f, S, h))
  BY SolutionExists
<1>3. SumFunctionOnSet(f, {}) = 0
  <2>1. Solves(f, {}, CHOOSE h : Solves(f, {}, h))
    BY <1>2
  <2>2. (CHOOSE h : Solves(f, {}, h))[{}] = 0
    BY <2>1 DEF Solves
  <2> QED BY <1>1, <2>2
<1>4. ASSUME NEW S \in SUBSET D, S # {}
      PROVE  LET x == CHOOSE x \in S : TRUE
             IN  SumFunctionOnSet(f, S) = f[x] + SumFunctionOnSet(f, S \ {x})
  <2> DEFINE x == CHOOSE x \in S : TRUE
             T == S \ {x}
             g == CHOOSE h : Solves(f, S, h)
             h == CHOOSE h : Solves(f, T, h)
  <2>1. T \in SUBSET D /\ T \subseteq S
    OBVIOUS
  <2>2. Solves(f, S, g) /\ Solves(f, T, h)
    BY <1>2, <2>1
  <2>3. g[S] = f[x] + g[T]
    BY <1>4, <2>2 DEF Solves
  <2>4. g[T] = h[T]
    <3> HIDE DEF g, h, T
    <3>1. \A s \in SUBSET D : s \subseteq S /\ s \subseteq T => g[s] = h[s]
      BY <2>1, <2>2, SolutionsAgree
    <3> QED BY <2>1, <3>1
  <2>5. SumFunctionOnSet(f, S) = g[S] /\ SumFunctionOnSet(f, T) = h[T]
    BY <1>1
  <2> HIDE DEF g, h
  <2> QED BY <2>3, <2>4, <2>5
<1> QED BY <1>3, <1>4

\* A sum of naturals is a natural.
LEMMA SumType ==
    ASSUME NEW D, IsFiniteSet(D), NEW f \in [D -> Nat]
    PROVE  \A S \in SUBSET D : SumFunctionOnSet(f, S) \in Nat
<1> DEFINE Good == {S \in SUBSET D : SumFunctionOnSet(f, S) \in Nat}
<1>1. {} \in Good
  BY SumStep
<1>2. ASSUME NEW S \in SUBSET D, S # {}, \A x \in S : S \ {x} \in Good
      PROVE  S \in Good
  <2> DEFINE x == CHOOSE x \in S : TRUE
  <2>1. x \in S /\ SumFunctionOnSet(f, S) = f[x] + SumFunctionOnSet(f, S \ {x})
    BY <1>2, SumStep
  <2>2. f[x] \in Nat /\ SumFunctionOnSet(f, S \ {x}) \in Nat
    BY <1>2, <2>1
  <2> QED BY <2>1, <2>2
<1>3. Good \in SUBSET (SUBSET D)
  OBVIOUS
<1> HIDE DEF Good
<1>4. \A S \in SUBSET D : S \in Good
  BY <1>1, <1>2, <1>3, SubsetInduction
<1> QED BY <1>4 DEF Good

\* The sum is the same whichever member is taken first.
LEMMA SumRemove ==
    ASSUME NEW D, IsFiniteSet(D), NEW f \in [D -> Nat]
    PROVE  \A S \in SUBSET D : \A x \in S :
              SumFunctionOnSet(f, S) = f[x] + SumFunctionOnSet(f, S \ {x})
<1> DEFINE Good == {S \in SUBSET D : \A x \in S :
                       SumFunctionOnSet(f, S) = f[x] + SumFunctionOnSet(f, S \ {x})}
<1>1. {} \in Good
  OBVIOUS
<1>2. ASSUME NEW S \in SUBSET D, S # {}, \A x \in S : S \ {x} \in Good
      PROVE  S \in Good
  <2> SUFFICES ASSUME NEW x \in S
               PROVE  SumFunctionOnSet(f, S) = f[x] + SumFunctionOnSet(f, S \ {x})
    OBVIOUS
  <2> DEFINE c == CHOOSE c \in S : TRUE
             R == (S \ {x}) \ {c}
  <2>1. c \in S /\ SumFunctionOnSet(f, S) = f[c] + SumFunctionOnSet(f, S \ {c})
    BY <1>2, SumStep
  <2>2. CASE x # c
    <3>1. (S \ {c}) \ {x} = R
      OBVIOUS
    <3>2. SumFunctionOnSet(f, S \ {c}) = f[x] + SumFunctionOnSet(f, R)
      BY <1>2, <2>1, <2>2, <3>1
    <3>3. SumFunctionOnSet(f, S \ {x}) = f[c] + SumFunctionOnSet(f, R)
      BY <1>2, <2>1, <2>2
    <3>4. f[c] \in Nat /\ f[x] \in Nat /\ SumFunctionOnSet(f, R) \in Nat
      BY <2>1, SumType
    <3> HIDE DEF c, R
    <3> QED BY <2>1, <3>2, <3>3, <3>4
  <2> HIDE DEF c
  <2> QED BY <2>1, <2>2
<1>3. Good \in SUBSET (SUBSET D)
  OBVIOUS
<1> HIDE DEF Good
<1>4. \A S \in SUBSET D : S \in Good
  BY <1>1, <1>2, <1>3, SubsetInduction
<1> QED BY <1>4 DEF Good

\* A position that is added adds its value.
LEMMA SumAdd ==
    ASSUME NEW D, IsFiniteSet(D), NEW f \in [D -> Nat],
           NEW S \in SUBSET D, NEW x \in D \ S
    PROVE  SumFunctionOnSet(f, S \cup {x}) = SumFunctionOnSet(f, S) + f[x]
<1>1. S \cup {x} \in SUBSET D /\ (S \cup {x}) \ {x} = S
  OBVIOUS
<1>2. SumFunctionOnSet(f, S \cup {x}) = f[x] + SumFunctionOnSet(f, S)
  BY <1>1, SumRemove
<1>3. f[x] \in Nat /\ SumFunctionOnSet(f, S) \in Nat
  BY SumType
<1> QED BY <1>2, <1>3

----------------------------------------------------------------------------
(* The rows of the merge. *)

\* The merge of the signals sig at the positions P.
RowsOf(sig, P) == SumFunctionOnSet([i \in Input |-> sig[i].rows], P)
Internal(sig, P) == {i \in P : IsInternal(sig[i])}
MadeBy(sig, P, c) == {i \in P : ClientIdentity(sig[i]) = c}
Addresses(sig, P) == {sig[i].clientIP : i \in P} \ {None}

Windowed(row, sig, P) ==
    /\ row.first \in {sig[i].first : i \in P}
    /\ \A i \in P : row.first <= sig[i].first
    /\ row.last \in {sig[i].last : i \in P}
    /\ \A i \in P : sig[i].last <= row.last

Observed(row, sig, P) ==
    /\ row.flows = Cardinality(P)
    /\ row.rows = RowsOf(sig, P)
    /\ row.internal = RowsOf(sig, Internal(sig, P))
    /\ row.external \in Int /\ row.internal + row.external = row.rows

Sampled(row, sig, P) ==
    /\ row.sample \subseteq Addresses(sig, P)
    /\ Cardinality(row.sample) <= SampleCap
    /\ Cardinality(row.sample) < SampleCap => row.sample = Addresses(sig, P)

CallersOf(row, sig, P) ==
    row.clients = [c \in {ClientIdentity(sig[i]) : i \in P} \ {None} |->
                     RowsOf(sig, MadeBy(sig, P, c))]

\* Positions with a pod, and those of them that the server process saw.
Known(sig, P) == {i \in P : sig[i].pod # None}
Process(sig, P) == {i \in Known(sig, P) : sig[i].tap = "process"}

Placed(row, sig, P) ==
    /\ row.domain \in {sig[i].domain : i \in P}
    /\ IF Process(sig, P) # {} THEN row.pod \in {sig[i].pod : i \in Process(sig, P)}
       ELSE IF Known(sig, P) # {} THEN row.pod \in {sig[i].pod : i \in Known(sig, P)}
       ELSE row.pod = None

\* The ports that a caller's signals have.
Reported(sig, P, c) == {sig[i].port : i \in MadeBy(sig, P, c)} \ {0}

Ported(row, sig, P) ==
    /\ DOMAIN row.ports = {ClientIdentity(sig[i]) : i \in P} \ {None}
    /\ \A c \in DOMAIN row.ports :
          IF Reported(sig, P, c) = {} THEN row.ports[c] = 0
                                     ELSE row.ports[c] \in Reported(sig, P, c)

Summary(row, sig, P) ==
    /\ Windowed(row, sig, P) /\ Observed(row, sig, P) /\ Sampled(row, sig, P)
    /\ CallersOf(row, sig, P) /\ Placed(row, sig, P) /\ Ported(row, sig, P)

\* The image of finitely many signals is finite.
LEMMA ImageFinite ==
    ASSUME NEW P \in SUBSET Input, NEW T, NEW f \in [P -> T]
    PROVE  IsFiniteSet({f[i] : i \in P})
<1> DEFINE R == {f[i] : i \in P}
<1>1. f \in Surjection(P, R)
  <2>1. f \in [P -> R] /\ \A t \in R : \E i \in P : f[i] = t
    OBVIOUS
  <2> QED BY <2>1 DEF Surjection
<1> HIDE DEF R
<1>2. IsFiniteSet(P)
  BY MergerAssumption, FS_Subset
<1>3. IsFiniteSet(R)
  BY <1>1, <1>2, FS_Surjection
<1> QED BY <1>3 DEF R

LEMMA CallersFinite ==
    ASSUME NEW sig, NEW P \in SUBSET Input
    PROVE  /\ IsFiniteSet(Addresses(sig, P))
           /\ IsFiniteSet({ClientIdentity(sig[i]) : i \in P} \ {None})
<1> DEFINE f == [i \in P |-> sig[i].clientIP]
           g == [i \in P |-> ClientIdentity(sig[i])]
           F == {sig[i].clientIP : i \in P}
           G == {ClientIdentity(sig[i]) : i \in P}
<1>1. f \in [P -> F] /\ {f[i] : i \in P} = F
  OBVIOUS
<1>2. g \in [P -> G] /\ {g[i] : i \in P} = G
  OBVIOUS
<1>3. F \ {None} \subseteq F /\ G \ {None} \subseteq G /\ Addresses(sig, P) = F \ {None}
  BY DEF Addresses
<1> HIDE DEF f, g, F, G
<1>4. IsFiniteSet(F)
  BY <1>1, ImageFinite
<1>5. IsFiniteSet(G)
  BY <1>2, ImageFinite
<1>6. IsFiniteSet(G \ {None}) /\ IsFiniteSet(Addresses(sig, P))
  BY <1>3, <1>4, <1>5, FS_Subset
<1> QED BY <1>6 DEF G

\* The signals are counted one by one.
LEMMA RowsGrow ==
    ASSUME NEW sig \in [Input -> Signal], NEW P \in SUBSET Input, NEW i \in Input \ P
    PROVE  /\ RowsOf(sig, P) \in Nat /\ sig[i].rows \in Nat
           /\ RowsOf(sig, P \cup {i}) = RowsOf(sig, P) + sig[i].rows
<1> DEFINE f == [j \in Input |-> sig[j].rows]
<1>1. f \in [Input -> Nat] /\ f[i] = sig[i].rows
  BY MergerAssumption
<1> HIDE DEF f
<1>2. /\ SumFunctionOnSet(f, P) \in Nat /\ f[i] \in Nat
      /\ SumFunctionOnSet(f, P \cup {i}) = SumFunctionOnSet(f, P) + f[i]
  BY <1>1, MergerAssumption, SumType, SumAdd
<1> QED BY <1>1, <1>2 DEF RowsOf, f

LEMMA RowsAreNatural ==
    ASSUME NEW sig \in [Input -> Signal], NEW P \in SUBSET Input
    PROVE  RowsOf(sig, P) \in Nat
<1>1. [j \in Input |-> sig[j].rows] \in [Input -> Nat]
  BY MergerAssumption
<1> QED BY <1>1, MergerAssumption, SumType DEF RowsOf

\* Nothing is counted where there is no signal.
LEMMA NoRows ==
    ASSUME NEW sig
    PROVE  RowsOf(sig, {}) = 0
  BY MergerAssumption, SumStep DEF RowsOf

\* Smaller and larger of two.
LEMMA MinOfTwo ==
    ASSUME NEW a \in Int, NEW b \in Int
    PROVE  /\ Min({a, b}) = IF a <= b THEN a ELSE b
           /\ Max({a, b}) = IF a >= b THEN a ELSE b
<1>1. \A x \in {a, b} : (\A y \in {a, b} : x <= y) => x = IF a <= b THEN a ELSE b
  OBVIOUS
<1>2. \E x \in {a, b} : \A y \in {a, b} : x <= y
  OBVIOUS
<1>3. \A x \in {a, b} : (\A y \in {a, b} : x >= y) => x = IF a >= b THEN a ELSE b
  OBVIOUS
<1>4. \E x \in {a, b} : \A y \in {a, b} : x >= y
  OBVIOUS
<1> QED BY <1>1, <1>2, <1>3, <1>4 DEF Min, Max

\* A row that is new is a summary of no signal, but for its window, its pod and
\* its domain.
LEMMA NewRowIsSummary ==
    ASSUME NEW sig, NEW s
    PROVE  /\ Observed(NewRow(s), sig, {})
           /\ Sampled(NewRow(s), sig, {})
           /\ CallersOf(NewRow(s), sig, {})
           /\ Ported(NewRow(s), sig, {})
<1>1. Cardinality({}) = 0
  BY FS_EmptySet
<1>2. Observed(NewRow(s), sig, {})
  <2>1. Internal(sig, {}) = {}
    BY DEF Internal
  <2> QED BY <1>1, <2>1, NoRows DEF Observed, NewRow
<1>3. Sampled(NewRow(s), sig, {})
  BY <1>1, MergerAssumption DEF Sampled, NewRow, Addresses
<1>4. CallersOf(NewRow(s), sig, {})
  BY DEF CallersOf, NewRow
<1>5. Ported(NewRow(s), sig, {})
  BY DEF Ported, NewRow
<1> QED BY <1>2, <1>3, <1>4, <1>5

\* A signal that is folded into a row with the others of its key, one lemma for
\* each part of the summary.
LEMMA WindowGrows ==
    ASSUME NEW sig \in [Input -> Signal], NEW P \in SUBSET Input, NEW i \in Input \ P,
           NEW row, (P = {} /\ row = NewRow(sig[i])) \/ Windowed(row, sig, P)
    PROVE  Windowed(Folded(row, sig[i]), sig, P \cup {i})
<1> DEFINE a == sig[i].first
           b == sig[i].last
           Q == P \cup {i}
<1>1. \A j \in Input : sig[j].first \in Int /\ sig[j].last \in Int
  BY MergerAssumption
<1>2. /\ Folded(row, sig[i]).first = Min({row.first, a})
      /\ Folded(row, sig[i]).last = Max({row.last, b})
  BY DEF Folded
<1>3. /\ row.first \in {sig[j].first : j \in Q} /\ \A j \in P : row.first <= sig[j].first
      /\ row.last \in {sig[j].last : j \in Q} /\ \A j \in P : sig[j].last <= row.last
  BY DEF Windowed, NewRow
<1>4. row.first \in Int /\ row.last \in Int /\ a \in Int /\ b \in Int
  BY <1>1, <1>3
<1>5. /\ Min({row.first, a}) = IF row.first <= a THEN row.first ELSE a
      /\ Max({row.last, b}) = IF row.last >= b THEN row.last ELSE b
  BY <1>4, MinOfTwo
<1> DEFINE m == Min({row.first, a})
           n == Max({row.last, b})
<1>6. m \in {sig[j].first : j \in Q} /\ n \in {sig[j].last : j \in Q}
  BY <1>3, <1>5
<1>7. m <= row.first /\ m <= a /\ row.last <= n /\ b <= n /\ m \in Int /\ n \in Int
  BY <1>4, <1>5
<1>8. \A j \in Q : m <= sig[j].first /\ sig[j].last <= n
  <2> TAKE j \in Q
  <2> HIDE DEF m, n
  <2>1. CASE j = i
    BY <1>7, <2>1
  <2>2. CASE j \in P
    <3>1. row.first <= sig[j].first /\ sig[j].last <= row.last
      BY <1>3, <2>2
    <3>2. sig[j].first \in Int /\ sig[j].last \in Int
      BY <1>1
    <3> QED BY <1>4, <1>7, <3>1, <3>2
  <2> QED BY <2>1, <2>2
<1> HIDE DEF m, n
<1>9. Folded(row, sig[i]).first = m /\ Folded(row, sig[i]).last = n
  BY <1>2 DEF m, n
<1> QED BY <1>6, <1>8, <1>9 DEF Windowed

LEMMA ObservationsGrow ==
    ASSUME NEW sig \in [Input -> Signal], NEW P \in SUBSET Input, NEW i \in Input \ P,
           NEW row, Observed(row, sig, P)
    PROVE  Observed(Folded(row, sig[i]), sig, P \cup {i})
<1> DEFINE s == sig[i]
           new == Folded(row, s)
           Q == P \cup {i}
<1>1. /\ new.flows = row.flows + 1 /\ new.rows = row.rows + s.rows
      /\ new.internal = row.internal + (IF IsInternal(s) THEN s.rows ELSE 0)
      /\ new.external = row.external + (IF IsInternal(s) THEN 0 ELSE s.rows)
  BY DEF Folded
<1>2. Cardinality(Q) = Cardinality(P) + 1
  BY MergerAssumption, FS_Subset, FS_AddElement
<1>3. RowsOf(sig, P) \in Nat /\ s.rows \in Nat /\ RowsOf(sig, Q) = RowsOf(sig, P) + s.rows
  BY RowsGrow
<1>4. Internal(sig, P) \in SUBSET Input /\ i \notin Internal(sig, P)
  BY DEF Internal
<1>5. /\ RowsOf(sig, Internal(sig, P)) \in Nat
      /\ RowsOf(sig, Internal(sig, Q))
           = RowsOf(sig, Internal(sig, P)) + (IF IsInternal(s) THEN s.rows ELSE 0)
  <2>1. /\ RowsOf(sig, Internal(sig, P)) \in Nat
        /\ RowsOf(sig, Internal(sig, P) \cup {i}) = RowsOf(sig, Internal(sig, P)) + s.rows
    BY <1>4, RowsGrow
  <2>2. Internal(sig, Q) = IF IsInternal(s) THEN Internal(sig, P) \cup {i} ELSE Internal(sig, P)
    BY DEF Internal
  <2> QED BY <1>3, <2>1, <2>2
<1>6. /\ row.flows = Cardinality(P) /\ row.rows = RowsOf(sig, P)
      /\ row.internal = RowsOf(sig, Internal(sig, P))
      /\ row.external \in Int /\ row.internal + row.external = row.rows
  BY DEF Observed
<1> HIDE DEF s, new, Q
<1>7. /\ new.flows = Cardinality(Q) /\ new.rows = RowsOf(sig, Q)
      /\ new.internal = RowsOf(sig, Internal(sig, Q))
  BY <1>1, <1>2, <1>3, <1>5, <1>6
<1>8. new.external \in Int /\ new.internal + new.external = new.rows
  BY <1>1, <1>3, <1>5, <1>6
<1> QED BY <1>7, <1>8 DEF Observed, s, new, Q

LEMMA SampleGrows ==
    ASSUME NEW sig \in [Input -> Signal], NEW P \in SUBSET Input, NEW i \in Input \ P,
           NEW row, Sampled(row, sig, P)
    PROVE  Sampled(Folded(row, sig[i]), sig, P \cup {i})
<1> DEFINE ip == sig[i].clientIP
           new == Folded(row, sig[i])
           Q == P \cup {i}
<1>1. new.sample = IF ip = None \/ Cardinality(row.sample) >= SampleCap
                   THEN row.sample ELSE row.sample \cup {ip}
  BY DEF Folded, AppendUnique
<1>2. Addresses(sig, Q) = Addresses(sig, P) \cup ({ip} \ {None})
  BY DEF Addresses
<1>3. /\ row.sample \subseteq Addresses(sig, P)
      /\ Cardinality(row.sample) <= SampleCap
      /\ Cardinality(row.sample) < SampleCap => row.sample = Addresses(sig, P)
  BY DEF Sampled
<1>4. IsFiniteSet(Addresses(sig, P))
  BY CallersFinite
<1>5. /\ IsFiniteSet(row.sample) /\ Cardinality(row.sample) \in Nat
      /\ Cardinality(row.sample \cup {ip})
           = IF ip \in row.sample THEN Cardinality(row.sample) ELSE Cardinality(row.sample) + 1
  BY <1>3, <1>4, FS_Subset, FS_CardinalityType, FS_AddElement
<1>6. SampleCap \in Nat
  BY MergerAssumption
<1> HIDE DEF ip, new, Q
<1>7. new.sample \subseteq Addresses(sig, Q)
  BY <1>1, <1>2, <1>3
<1>8. Cardinality(new.sample) <= SampleCap
  BY <1>1, <1>3, <1>5, <1>6
<1>9. ASSUME Cardinality(new.sample) < SampleCap
      PROVE  new.sample = Addresses(sig, Q)
  <2>1. Cardinality(row.sample) < SampleCap
    BY <1>1, <1>5, <1>6, <1>9
  <2> QED BY <1>1, <1>2, <1>3, <1>5, <1>6, <2>1
<1> QED BY <1>7, <1>8, <1>9 DEF Sampled, new, Q

LEMMA CallersGrow ==
    ASSUME NEW sig \in [Input -> Signal], NEW P \in SUBSET Input, NEW i \in Input \ P,
           NEW row, CallersOf(row, sig, P)
    PROVE  CallersOf(Folded(row, sig[i]), sig, P \cup {i})
<1> DEFINE s == sig[i]
           id == ClientIdentity(s)
           new == Folded(row, s)
           Q == P \cup {i}
<1>1. new.clients = Counted(row.clients, s)
  BY DEF Folded
<1>2. /\ DOMAIN row.clients = {ClientIdentity(sig[j]) : j \in P} \ {None}
      /\ \A c \in DOMAIN row.clients : row.clients[c] = RowsOf(sig, MadeBy(sig, P, c))
  BY DEF CallersOf
<1>3. DOMAIN new.clients = {ClientIdentity(sig[j]) : j \in Q} \ {None}
  <2>1. DOMAIN new.clients = DOMAIN row.clients \cup ({id} \ {None})
    BY <1>1 DEF Counted
  <2>2. {ClientIdentity(sig[j]) : j \in Q} = {ClientIdentity(sig[j]) : j \in P} \cup {id}
    OBVIOUS
  <2> HIDE DEF id, new, Q
  <2> QED BY <1>2, <2>1, <2>2
<1>4. ASSUME NEW c \in DOMAIN new.clients
      PROVE  new.clients[c] = RowsOf(sig, MadeBy(sig, Q, c))
  <2>1. MadeBy(sig, P, c) \in SUBSET Input /\ i \notin MadeBy(sig, P, c)
    BY DEF MadeBy
  <2>2. /\ RowsOf(sig, MadeBy(sig, P, c)) \in Nat /\ s.rows \in Nat
        /\ RowsOf(sig, MadeBy(sig, P, c) \cup {i}) = RowsOf(sig, MadeBy(sig, P, c)) + s.rows
    BY <2>1, RowsGrow
  <2>3. MadeBy(sig, Q, c) = IF c = id THEN MadeBy(sig, P, c) \cup {i} ELSE MadeBy(sig, P, c)
    BY DEF MadeBy
  <2>4. RowsOf(sig, MadeBy(sig, Q, c))
          = RowsOf(sig, MadeBy(sig, P, c)) + (IF c = id THEN s.rows ELSE 0)
    BY <2>2, <2>3
  <2>5. c \notin DOMAIN row.clients => RowsOf(sig, MadeBy(sig, P, c)) = 0
    <3>1. c # None
      BY <1>3
    <3>2. c \notin DOMAIN row.clients => MadeBy(sig, P, c) = {}
      BY <1>2, <3>1 DEF MadeBy
    <3> QED BY <3>2, NoRows
  <2>6. CASE id = None
    <3>1. new.clients = row.clients /\ c # id
      BY <1>1, <1>3, <2>6 DEF Counted
    <3> HIDE DEF id, new, Q, s
    <3> QED BY <1>2, <2>2, <2>4, <3>1
  <2>7. CASE id # None
    <3>1. new.clients[c] = (IF c \in DOMAIN row.clients THEN row.clients[c] ELSE 0)
                             + (IF c = id THEN s.rows ELSE 0)
      BY <1>1, <2>7 DEF Counted
    <3> HIDE DEF id, new, Q, s
    <3> QED BY <1>2, <2>2, <2>4, <2>5, <3>1
  <2> QED BY <2>6, <2>7
<1>5. new.clients = [c \in DOMAIN new.clients |-> new.clients[c]]
  BY <1>1 DEF CallersOf, Counted
<1> HIDE DEF new, Q, id
<1> QED BY <1>3, <1>4, <1>5 DEF CallersOf, new, Q

LEMMA PlaceGrows ==
    ASSUME NEW sig \in [Input -> Signal], NEW P \in SUBSET Input, NEW i \in Input \ P,
           NEW row, (P = {} /\ row = NewRow(sig[i])) \/ Placed(row, sig, P)
    PROVE  Placed(Folded(row, sig[i]), sig, P \cup {i})
<1> DEFINE s == sig[i]
           new == Folded(row, s)
           Q == P \cup {i}
           pods == {sig[j].pod : j \in Known(sig, P)}
           seen == {sig[j].pod : j \in Process(sig, P)}
<1>1. new.domain = row.domain /\ new.pod = SamplePod(row.pod, s)
  BY DEF Folded
<1>2. /\ Known(sig, Q) = Known(sig, P) \cup (IF s.pod # None THEN {i} ELSE {})
      /\ Process(sig, Q) = Process(sig, P)
                             \cup (IF s.pod # None /\ s.tap = "process" THEN {i} ELSE {})
  BY DEF Known, Process
<1>3. /\ {sig[j].pod : j \in Known(sig, Q)} = pods \cup ({s.pod} \ {None})
      /\ {sig[j].pod : j \in Process(sig, Q)}
           = seen \cup (IF s.tap = "process" THEN {s.pod} \ {None} ELSE {})
  BY <1>2
<1>4. CASE P = {} /\ row = NewRow(s)
  <2>1. row.domain = s.domain /\ row.pod = s.pod /\ Known(sig, P) = {} /\ Process(sig, P) = {}
    BY <1>4 DEF NewRow, Known, Process
  <2>2. new.domain \in {sig[j].domain : j \in Q}
    BY <1>1, <2>1
  <2>3. new.pod = s.pod
    BY <1>1, <2>1 DEF SamplePod
  <2> QED BY <1>2, <2>1, <2>2, <2>3 DEF Placed
<1>5. CASE Placed(row, sig, P)
  <2>1. new.domain \in {sig[j].domain : j \in Q}
    BY <1>1, <1>5 DEF Placed
  <2>2. /\ Process(sig, P) # {} => row.pod \in seen
        /\ Process(sig, P) = {} /\ Known(sig, P) # {} => row.pod \in pods
        /\ Process(sig, P) = {} /\ Known(sig, P) = {} => row.pod = None
        /\ None \notin pods /\ None \notin seen
        /\ Process(sig, P) \subseteq Known(sig, P)
    BY <1>5 DEF Placed, Known, Process
  <2>3. CASE (row.pod = None \/ s.tap = "process") /\ s.pod # None
    <3>1. new.pod = s.pod
      BY <1>1, <2>3 DEF SamplePod
    <3>2. CASE s.tap = "process"
      BY <1>2, <2>1, <2>3, <3>1, <3>2 DEF Placed
    <3>3. CASE s.tap # "process"
      <4>1. Process(sig, Q) = {} /\ i \in Known(sig, Q)
        BY <1>2, <2>2, <2>3, <3>3
      <4> QED BY <2>1, <3>1, <4>1 DEF Placed
    <3> QED BY <3>2, <3>3
  <2>4. CASE ~((row.pod = None \/ s.tap = "process") /\ s.pod # None)
    <3>1. new.pod = row.pod
      BY <1>1, <2>4 DEF SamplePod
    <3>2. Process(sig, Q) = Process(sig, P)
      BY <1>2, <2>4
    <3>3. CASE s.pod = None
      BY <1>2, <1>5, <2>1, <3>1, <3>2, <3>3 DEF Placed
    <3>4. CASE s.pod # None
      <4>1. row.pod # None /\ Known(sig, P) # {} /\ Known(sig, Q) # {}
        BY <1>2, <2>2, <2>4, <3>4
      <4>2. Process(sig, P) = {} => row.pod \in {sig[j].pod : j \in Known(sig, Q)}
        BY <1>3, <2>2, <4>1
      <4> QED BY <2>1, <2>2, <3>1, <3>2, <4>1, <4>2 DEF Placed
    <3> QED BY <3>3, <3>4
  <2> QED BY <2>3, <2>4
<1> QED BY <1>4, <1>5

LEMMA PortsGrow ==
    ASSUME NEW sig \in [Input -> Signal], NEW P \in SUBSET Input, NEW i \in Input \ P,
           NEW row, Ported(row, sig, P)
    PROVE  Ported(Folded(row, sig[i]), sig, P \cup {i})
<1> DEFINE s == sig[i]
           id == ClientIdentity(s)
           new == Folded(row, s).ports
           old == row.ports
           Q == P \cup {i}
<1>1. new = PortsSeen(old, s)
  BY DEF Folded
<1>2. /\ DOMAIN old = {ClientIdentity(sig[j]) : j \in P} \ {None}
      /\ \A c \in DOMAIN old : IF Reported(sig, P, c) = {} THEN old[c] = 0
                                                          ELSE old[c] \in Reported(sig, P, c)
  BY DEF Ported
<1>3. \A c : Reported(sig, Q, c) = Reported(sig, P, c) \cup (IF c = id THEN {s.port} \ {0} ELSE {})
  BY DEF Reported, MadeBy
<1>4. DOMAIN new = {ClientIdentity(sig[j]) : j \in Q} \ {None}
  <2>1. DOMAIN new = DOMAIN old \cup ({id} \ {None})
    BY <1>1 DEF PortsSeen
  <2>2. {ClientIdentity(sig[j]) : j \in Q} = {ClientIdentity(sig[j]) : j \in P} \cup {id}
    OBVIOUS
  <2> HIDE DEF id, new, Q, old
  <2> QED BY <1>2, <2>1, <2>2
<1>5. ASSUME NEW c \in DOMAIN new
      PROVE  IF Reported(sig, Q, c) = {} THEN new[c] = 0 ELSE new[c] \in Reported(sig, Q, c)
  <2>1. c \notin DOMAIN old => Reported(sig, P, c) = {} /\ c = id
    <3>1. c # None
      BY <1>4
    <3>2. c \notin DOMAIN old => MadeBy(sig, P, c) = {}
      BY <1>2, <3>1 DEF MadeBy
    <3>3. c \notin DOMAIN old => c = id
      BY <1>1 DEF PortsSeen
    <3> QED BY <3>2, <3>3 DEF Reported
  <2>2. 0 \notin Reported(sig, P, c)
    BY DEF Reported
  <2>3. CASE id = None
    <3>1. new = old /\ c # id
      BY <1>1, <1>4, <2>3 DEF PortsSeen
    <3> HIDE DEF id, new, Q, s, old
    <3> QED BY <1>2, <1>3, <3>1
  <2>4. CASE id # None
    <3>1. new[c] = IF c \notin DOMAIN old \/ (c = id /\ old[c] = 0) THEN s.port ELSE old[c]
      BY <1>1, <2>4 DEF PortsSeen
    <3> HIDE DEF id, new, Q, s, old
    <3>2. CASE c \notin DOMAIN old
      BY <1>3, <2>1, <3>1, <3>2
    <3>3. CASE c \in DOMAIN old
      BY <1>2, <1>3, <2>2, <3>1, <3>3
    <3> QED BY <3>2, <3>3
  <2> QED BY <2>3, <2>4
<1> HIDE DEF new, Q, id
<1> QED BY <1>4, <1>5 DEF Ported, new, Q

\* A summary stays one.
LEMMA SummaryGrows ==
    ASSUME NEW sig \in [Input -> Signal], NEW P \in SUBSET Input, NEW i \in Input \ P,
           NEW row, (P = {} /\ row = NewRow(sig[i])) \/ Summary(row, sig, P)
    PROVE  Summary(Folded(row, sig[i]), sig, P \cup {i})
<1>1. /\ Observed(row, sig, P) /\ Sampled(row, sig, P) /\ CallersOf(row, sig, P)
      /\ Ported(row, sig, P)
  BY NewRowIsSummary DEF Summary
<1>2. (P = {} /\ row = NewRow(sig[i])) \/ (Windowed(row, sig, P) /\ Placed(row, sig, P))
  BY DEF Summary
<1>3. Windowed(Folded(row, sig[i]), sig, P \cup {i}) /\ Placed(Folded(row, sig[i]), sig, P \cup {i})
  BY <1>2, WindowGrows, PlaceGrows
<1>4. /\ Observed(Folded(row, sig[i]), sig, P \cup {i})
      /\ Sampled(Folded(row, sig[i]), sig, P \cup {i})
      /\ CallersOf(Folded(row, sig[i]), sig, P \cup {i})
      /\ Ported(Folded(row, sig[i]), sig, P \cup {i})
  BY <1>1, ObservationsGrow, SampleGrows, CallersGrow, PortsGrow
<1> QED BY <1>3, <1>4 DEF Summary

----------------------------------------------------------------------------
(* The callers of a row in their order. *)

InOrder(list, made) == \A i, j \in DOMAIN list : i < j => made[list[i]] >= made[list[j]]

\* A finite set of callers can be listed by observations.
LEMMA ListExists ==
    ASSUME NEW C, IsFiniteSet(C), NEW made \in [C -> Nat]
    PROVE  \E list \in SetToSeqs(C) : InOrder(list, made)
<1> DEFINE Good == {S \in SUBSET C : \E list \in SetToSeqs(S) : InOrder(list, made)}
<1>1. {} \in Good
  <2>1. Cardinality({}) = 0
    BY FS_EmptySet
  <2>2. <<>> \in SetToSeqs({}) /\ InOrder(<<>>, made)
    BY <2>1 DEF SetToSeqs, InOrder
  <2> QED BY <2>2
<1>2. ASSUME NEW S \in SUBSET C, S # {}, \A x \in S : S \ {x} \in Good
      PROVE  S \in Good
  <2>1. PICK x \in S : \A y \in S : made[x] <= made[y]
    <3> DEFINE counts == {made[y] : y \in S}
    <3>1. counts \subseteq Nat /\ counts # {}
      BY <1>2
    <3> HIDE DEF counts
    <3>2. PICK n \in counts : \A m \in counts : ~(<<m, n>> \in OpToRel(<, Nat))
      BY <3>1, NatLessThanWellFounded, WFMin, Zenon
    <3>3. \A m \in counts : ~(m < n)
      BY <3>1, <3>2 DEF OpToRel
    <3>4. \A m \in counts : n <= m
      BY <3>1, <3>3
    <3> QED BY <3>4 DEF counts
  <2> DEFINE T == S \ {x}
             n == Cardinality(S)
  <2>2. PICK rest \in SetToSeqs(T) : InOrder(rest, made)
    BY <1>2
  <2>3. n \in Nat \ {0} /\ Cardinality(T) = n - 1
    BY <1>2, FS_Subset, FS_CardinalityType, FS_RemoveElement, FS_EmptySet
  <2> HIDE DEF n
  <2>4. /\ rest \in [1 .. n - 1 -> T]
        /\ \A i, j \in 1 .. n - 1 : i # j => rest[i] # rest[j]
    BY <2>3 DEF SetToSeqs
  <2> DEFINE list == [i \in 1 .. n |-> IF i < n THEN rest[i] ELSE x]
  <2>5. \A i \in 1 .. n : \/ i \in 1 .. n - 1 /\ list[i] = rest[i] /\ rest[i] \in T
                          \/ i = n /\ list[i] = x
    BY <2>3, <2>4
  <2>6. list \in [1 .. n -> S]
    BY <2>5
  <2> HIDE DEF list
  <2>7. \A i, j \in 1 .. n : i # j => list[i] # list[j]
    BY <2>4, <2>5
  <2>8. list \in SetToSeqs(S)
    BY <2>6, <2>7 DEF SetToSeqs, n
  <2>9. InOrder(list, made)
    <3> SUFFICES ASSUME NEW i \in 1 .. n, NEW j \in 1 .. n, i < j
                 PROVE  made[list[i]] >= made[list[j]]
      BY <2>6 DEF InOrder
    <3>1. i \in 1 .. n - 1 /\ list[i] = rest[i] /\ rest[i] \in T
      BY <2>3, <2>5
    <3>2. CASE j \in 1 .. n - 1 /\ list[j] = rest[j]
      <4>1. DOMAIN rest = 1 .. n - 1
        BY <2>4
      <4> QED BY <2>2, <3>1, <3>2, <4>1 DEF InOrder
    <3>3. CASE list[j] = x
      <4>1. made[x] <= made[rest[i]] /\ made[x] \in Nat /\ made[rest[i]] \in Nat
        BY <2>1, <3>1
      <4> QED BY <3>1, <3>3, <4>1
    <3> QED BY <2>5, <3>2, <3>3
  <2> QED BY <2>8, <2>9
<1>3. Good \in SUBSET (SUBSET C)
  OBVIOUS
<1> HIDE DEF Good
<1>4. C \in Good
  BY <1>1, <1>2, <1>3, SubsetInduction
<1> QED BY <1>4 DEF Good

\* A list of a finite set has all its members.
LEMMA ListIsComplete ==
    ASSUME NEW C, IsFiniteSet(C), NEW list \in SetToSeqs(C)
    PROVE  /\ Len(list) = Cardinality(C) /\ list \in Seq(C) /\ Cardinality(C) \in Nat
           /\ \A c \in C : \E i \in 1 .. Len(list) : list[i] = c
<1> DEFINE n == Cardinality(C)
           D == 1 .. n
<1>1. n \in Nat
  BY FS_CardinalityType
<1>2. list \in [D -> C] /\ \A i, j \in D : i # j => list[i] # list[j]
  BY DEF SetToSeqs
<1> DEFINE T == {list[i] : i \in D}
<1>3. IsFiniteSet(D) /\ Cardinality(D) = n
  BY <1>1, FS_Interval
<1>4. list \in Surjection(D, T) /\ list \in Injection(D, T)
  <2>1. list \in [D -> T] /\ \A t \in T : \E i \in D : list[i] = t
    BY <1>2
  <2> QED BY <1>2, <2>1 DEF Surjection, Injection, IsInjective
<1> HIDE DEF T, D, n
<1>5. IsFiniteSet(T) /\ Cardinality(T) = n
  BY <1>3, <1>4, FS_Surjection
<1>6. T \subseteq C
  BY <1>2 DEF T
<1>7. T = C
  BY <1>5, <1>6, FS_Subset DEF n
<1>8. list \in Seq(C) /\ Len(list) = n
  BY <1>1, <1>2 DEF D
<1> QED BY <1>1, <1>7, <1>8 DEF T, D, n

\* A caller that is not among the top ones made no more observations.
LEMMA CutKeepsLargest ==
    ASSUME NEW C, IsFiniteSet(C), NEW made \in [C -> Nat]
    PROVE  /\ ToSet(TopClients(made)) \subseteq C
           /\ \A c \in ToSet(TopClients(made)) :
                 \A d \in C \ ToSet(TopClients(made)) : made[d] <= made[c]
<1> DEFINE list == Sorted(made)
           n == Min({Len(list), ClientsCap})
<1>1. list \in SetToSeqs(C) /\ InOrder(list, made)
  <2>1. DOMAIN made = C
    OBVIOUS
  <2> QED BY <2>1, ListExists DEF Sorted, InOrder
<1> HIDE DEF list
<1>2. /\ list \in Seq(C) /\ Len(list) \in Nat
      /\ \A c \in C : \E i \in 1 .. Len(list) : list[i] = c
  BY <1>1, ListIsComplete
<1>3. ClientsCap \in Nat
  BY MergerAssumption
<1>4. n = IF Len(list) <= ClientsCap THEN Len(list) ELSE ClientsCap
  <2>1. Len(list) \in Int /\ ClientsCap \in Int
    BY <1>2, <1>3
  <2> QED BY <2>1, MinOfTwo
<1>5. n \in Nat /\ n <= Len(list)
  BY <1>2, <1>3, <1>4
<1>6. TopClients(made) = SubSeq(list, 1, n)
  BY DEF TopClients, list
<1> HIDE DEF n
<1>7. /\ DOMAIN SubSeq(list, 1, n) = 1 .. n
      /\ \A i \in 1 .. n : SubSeq(list, 1, n)[i] = list[i]
  BY <1>2, <1>5
<1>8. ToSet(TopClients(made)) = {list[i] : i \in 1 .. n}
  BY <1>6, <1>7 DEF ToSet
<1>9. \A i \in 1 .. n : i \in 1 .. Len(list) /\ list[i] \in C
  BY <1>2, <1>5
<1>10. ASSUME NEW c \in ToSet(TopClients(made)), NEW d \in C \ ToSet(TopClients(made))
       PROVE  made[d] <= made[c]
  <2>1. PICK i \in 1 .. n : c = list[i]
    BY <1>8, <1>10
  <2>2. PICK j \in 1 .. Len(list) : d = list[j]
    BY <1>2, <1>10
  <2>3. j \notin 1 .. n
    BY <1>8, <1>10, <2>2
  <2>4. i < j
    BY <1>2, <1>5, <2>3
  <2>5. made[list[i]] >= made[list[j]]
    <3>1. DOMAIN list = 1 .. Len(list) /\ i \in 1 .. Len(list)
      BY <1>2, <1>9
    <3> QED BY <1>1, <2>4, <3>1 DEF InOrder
  <2>6. made[c] \in Nat /\ made[d] \in Nat
    BY <1>9, <1>10, <2>1
  <2> QED BY <2>1, <2>2, <2>5, <2>6
<1> QED BY <1>8, <1>9, <1>10

----------------------------------------------------------------------------
(* The merge, signal by signal. *)

\* Every row that was kept has its key in the bucket, and every bucket is the
\* summary of what has been merged under its key.
MergerInv ==
    /\ signals \in [Input -> Signal] /\ todo \subseteq Input
    /\ \A i \in Input \ todo : Kept(signals[i]) => KeyOf(signals[i]) \in DOMAIN bucket
    /\ \A k \in DOMAIN bucket : Summary(bucket[k], signals, MergedUnder(k))
    /\ \/ top = <<>>
       \/ todo = {} /\ top = [k \in DOMAIN bucket |-> TopClients(bucket[k].clients)]

\* Folding a signal keeps the buckets summaries.
LEMMA FoldKeepsInv ==
    ASSUME MergerInv, NEW i \in Input, Fold(i)
    PROVE  MergerInv'
<1> DEFINE s == signals[i]
           key == KeyOf(s)
<1>1. /\ i \in todo /\ todo' = todo \ {i} /\ signals' = signals /\ top' = top
      /\ bucket' = IF Kept(s) THEN Merged(s) ELSE bucket
  BY DEF Fold
<1>2. /\ signals \in [Input -> Signal] /\ todo \subseteq Input
      /\ \A j \in Input \ todo : Kept(signals[j]) => KeyOf(signals[j]) \in DOMAIN bucket
      /\ \A k \in DOMAIN bucket : Summary(bucket[k], signals, MergedUnder(k))
      /\ top = <<>>
  BY <1>1 DEF MergerInv
<1>3. \A k : /\ MergedUnder(k) \in SUBSET Input /\ i \notin MergedUnder(k)
             /\ MergedUnder(k)' = IF Kept(s) /\ k = key THEN MergedUnder(k) \cup {i}
                                  ELSE MergedUnder(k)
  BY <1>1, <1>2 DEF MergedUnder
<1>4. CASE ~Kept(s)
  <2>1. bucket' = bucket /\ \A k : MergedUnder(k)' = MergedUnder(k)
    BY <1>1, <1>3, <1>4
  <2>2. \A j \in Input \ todo' : Kept(signals'[j]) => KeyOf(signals'[j]) \in DOMAIN bucket'
    BY <1>1, <1>2, <1>4, <2>1
  <2> QED BY <1>1, <1>2, <2>1, <2>2 DEF MergerInv
<1>5. CASE Kept(s)
  <2> DEFINE row == IF key \in DOMAIN bucket THEN bucket[key] ELSE NewRow(s)
             P == MergedUnder(key)
  <2>1. /\ DOMAIN bucket' = DOMAIN bucket \cup {key}
        /\ \A k \in DOMAIN bucket' : bucket'[k] = IF k = key THEN Folded(row, s) ELSE bucket[k]
    BY <1>1, <1>5 DEF Merged
  <2>2. \A j \in Input \ todo' : Kept(signals'[j]) => KeyOf(signals'[j]) \in DOMAIN bucket'
    BY <1>1, <1>2, <2>1
  <2>3. (P = {} /\ row = NewRow(s)) \/ Summary(row, signals, P)
    <3>1. CASE key \in DOMAIN bucket
      BY <1>2, <3>1
    <3>2. CASE key \notin DOMAIN bucket
      BY <1>2, <3>2 DEF MergedUnder
    <3> QED BY <3>1, <3>2
  <2>4. Summary(Folded(row, s), signals, P \cup {i})
    <3> HIDE DEF row, P
    <3>1. P \in SUBSET Input /\ i \in Input \ P
      BY <1>3 DEF P
    <3> QED BY <1>2, <2>3, <3>1, SummaryGrows
  <2>5. ASSUME NEW k \in DOMAIN bucket'
        PROVE  Summary(bucket'[k], signals, MergedUnder(k)')
    <3>1. CASE k = key
      <4>1. bucket'[k] = Folded(row, s) /\ MergedUnder(k)' = P \cup {i}
        BY <1>3, <1>5, <2>1, <3>1
      <4> QED BY <2>4, <4>1
    <3>2. CASE k # key
      <4>1. bucket'[k] = bucket[k] /\ MergedUnder(k)' = MergedUnder(k) /\ k \in DOMAIN bucket
        BY <1>3, <2>1, <3>2
      <4> QED BY <1>2, <4>1
    <3> QED BY <3>1, <3>2
  <2>6. \A k \in DOMAIN bucket' : Summary(bucket'[k], signals', MergedUnder(k)')
    BY <1>1, <2>5
  <2> QED BY <1>1, <1>2, <2>2, <2>6 DEF MergerInv
<1> QED BY <1>4, <1>5

LEMMA MergerInvariant == MergerSpec => []MergerInv
<1>1. MergerInit => MergerInv
  BY DEF MergerInit, MergerInv
<1>2. MergerInv /\ [MergerNext]_mergerVars => MergerInv'
  <2> SUFFICES ASSUME MergerInv, [MergerNext]_mergerVars
               PROVE  MergerInv'
    OBVIOUS
  <2>1. CASE Resolve
    <3>1. \A k : MergedUnder(k)' = MergedUnder(k)
      BY <2>1 DEF Resolve, MergedUnder
    <3> QED BY <2>1, <3>1 DEF Resolve, MergerInv
  <2>2. ASSUME NEW i \in Input, Fold(i)
        PROVE  MergerInv'
    BY <2>2, FoldKeepsInv
  <2>3. CASE UNCHANGED mergerVars
    <3>1. \A k : MergedUnder(k)' = MergedUnder(k)
      BY <2>3 DEF mergerVars, MergedUnder
    <3> QED BY <2>3, <3>1 DEF mergerVars, MergerInv
  <2> QED BY <2>1, <2>2, <2>3 DEF MergerNext
<1> QED BY <1>1, <1>2, PTL DEF MergerSpec

\* Every merged row is a summary of its signals, in whatever order DeepFlow
\* returned them: MergedRowIsSummary is an invariant.
THEOREM RowsAreSummaries == MergerSpec => []MergedRowIsSummary
<1>1. ASSUME MergerInv
      PROVE  MergedRowIsSummary
  <2> SUFFICES ASSUME NEW k \in DOMAIN bucket
               PROVE  /\ Totals(bucket[k], MergedUnder(k))
                      /\ Samples(bucket[k], MergedUnder(k))
    BY DEF MergedRowIsSummary
  <2> DEFINE P == MergedUnder(k)
             row == bucket[k]
             addresses == Addresses(signals, P)
             firsts == {signals[i].first : i \in P}
             lasts == {signals[i].last : i \in P}
  <2>1. /\ Windowed(row, signals, P) /\ Observed(row, signals, P) /\ Sampled(row, signals, P)
        /\ CallersOf(row, signals, P) /\ Placed(row, signals, P) /\ Ported(row, signals, P)
    BY <1>1 DEF MergerInv, Summary
  <2>2. signals \in [Input -> Signal] /\ P \subseteq Input
    BY <1>1 DEF MergerInv, MergedUnder
  <2>3. firsts \subseteq Int /\ lasts \subseteq Int
    BY <2>2, MergerAssumption
  <2>4. /\ row.first \in firsts /\ \A x \in firsts : row.first <= x
        /\ row.last \in lasts /\ \A x \in lasts : row.last >= x
    <3>1. /\ row.first \in firsts /\ \A i \in P : row.first <= signals[i].first
          /\ row.last \in lasts /\ \A i \in P : signals[i].last <= row.last
      BY <2>1 DEF Windowed
    <3> HIDE DEF row
    <3>2. row.first \in Int /\ row.last \in Int
      BY <2>3, <3>1
    <3>3. \A i \in P : signals[i].first \in Int /\ signals[i].last \in Int
      BY <2>3
    <3>4. \A i \in P : row.last >= signals[i].last
      BY <3>1, <3>2, <3>3
    <3> QED BY <3>1, <3>4
  <2>5. row.first = Min(firsts) /\ row.last = Max(lasts)
    <3> DEFINE a == row.first
               b == row.last
    <3>0. /\ a \in firsts /\ \A x \in firsts : a <= x
          /\ b \in lasts /\ \A x \in lasts : b >= x
      BY <2>4
    <3> HIDE DEF firsts, lasts, a, b
    <3>1. \A x \in firsts : (\A y \in firsts : x <= y) => x = a
      BY <2>3, <3>0
    <3>2. \A x \in lasts : (\A y \in lasts : x >= y) => x = b
      BY <2>3, <3>0
    <3>3. a = Min(firsts) /\ b = Max(lasts)
      BY <3>0, <3>1, <3>2 DEF Min, Max
    <3> QED BY <3>3 DEF a, b
  <2>6. /\ row.flows = Cardinality(P) /\ row.rows = RowsOf(signals, P)
        /\ row.internal = RowsOf(signals, Internal(signals, P))
        /\ row.internal + row.external = row.rows
    BY <2>1 DEF Observed
  <2>7. /\ RowsAt(P) = RowsOf(signals, P)
        /\ RowsAt({i \in P : IsInternal(signals[i])}) = RowsOf(signals, Internal(signals, P))
    BY DEF RowsAt, RowsOf, Internal
  <2>8. /\ row.sample \subseteq addresses
        /\ Cardinality(row.sample) = Min({SampleCap, Cardinality(addresses)})
    <3>1. /\ row.sample \subseteq addresses
          /\ Cardinality(row.sample) <= SampleCap
          /\ Cardinality(row.sample) < SampleCap => row.sample = addresses
      BY <2>1 DEF Sampled
    <3>2. IsFiniteSet(addresses)
      BY <2>2, CallersFinite
    <3> HIDE DEF addresses, row
    <3>3. /\ Cardinality(row.sample) \in Nat /\ Cardinality(addresses) \in Nat
          /\ Cardinality(row.sample) <= Cardinality(addresses)
      BY <3>1, <3>2, FS_Subset, FS_CardinalityType
    <3>4. SampleCap \in Int /\ Cardinality(addresses) \in Int
      BY <3>3, MergerAssumption
    <3>5. Min({SampleCap, Cardinality(addresses)})
            = IF SampleCap <= Cardinality(addresses) THEN SampleCap ELSE Cardinality(addresses)
      BY <3>4, MinOfTwo
    <3> QED BY <3>1, <3>3, <3>4, <3>5
  <2>9. row.clients = [c \in CallersAt(P) |-> RowsAt(By(P, c))]
    BY <2>1 DEF CallersOf, CallersAt, RowsAt, RowsOf, By, MadeBy
  <2>10. Totals(row, P)
    <3> HIDE DEF P, row
    <3> QED BY <2>5, <2>6, <2>7, <2>9 DEF Totals
  <2>11. IF PodsOf(P) = {} THEN row.pod = None ELSE row.pod \in PodsOf(P)
    <3> HIDE DEF P, row
    <3>1. PodsOf(P) = {signals[i].pod : i \in IF Process(signals, P) # {} THEN Process(signals, P)
                                             ELSE Known(signals, P)}
      BY DEF PodsOf, Process, Known
    <3> QED BY <2>1, <3>1 DEF Placed
  <2>12. /\ row.domain \in {signals[i].domain : i \in P}
         /\ DOMAIN row.ports = CallersAt(P)
         /\ \A c \in CallersAt(P) :
               IF PortsOf(By(P, c)) = {} THEN row.ports[c] = 0 ELSE row.ports[c] \in PortsOf(By(P, c))
    BY <2>1 DEF Placed, Ported, Reported, CallersAt, PortsOf, By, MadeBy
  <2>13. Samples(row, P)
    <3>1. AddressesOf(P) = addresses
      BY DEF AddressesOf, Addresses
    <3> HIDE DEF P, row, addresses
    <3> QED BY <2>8, <2>11, <2>12, <3>1 DEF Samples
  <2> QED BY <2>10, <2>13
<1> QED BY <1>1, MergerInvariant, PTL

\* The cut of the callers drops the ones with the fewest observations over all
\* signals of the row: TopCallersKept is an invariant.
THEOREM TopCallersStay == MergerSpec => []TopCallersKept
<1>1. ASSUME MergerInv
      PROVE  TopCallersKept
  <2> SUFFICES ASSUME NEW k \in DOMAIN top, NEW i \in Input, NEW c \in ToSet(top[k]),
                      ClientIdentity(signals[i]) # None,
                      ClientIdentity(signals[i]) \notin ToSet(top[k])
               PROVE  RowsOf(signals, MadeBy(signals, MergedUnder(k), ClientIdentity(signals[i])))
                        <= RowsOf(signals, MadeBy(signals, MergedUnder(k), c))
    BY DEF TopCallersKept, RowsAt, RowsOf, MadeBy, By
  <2> DEFINE P == MergedUnder(k)
             d == ClientIdentity(signals[i])
             made == bucket[k].clients
             C == DOMAIN made
  <2>1. top = [l \in DOMAIN bucket |-> TopClients(bucket[l].clients)]
    BY <1>1 DEF MergerInv
  <2>2. k \in DOMAIN bucket /\ top[k] = TopClients(made)
    BY <2>1
  <2>3. C = {ClientIdentity(signals[j]) : j \in P} \ {None}
    BY <1>1, <2>2 DEF MergerInv, Summary, CallersOf
  <2>4. \A x \in C : made[x] = RowsOf(signals, MadeBy(signals, P, x))
    BY <1>1, <2>2 DEF MergerInv, Summary, CallersOf
  <2>5. signals \in [Input -> Signal] /\ P \in SUBSET Input
    BY <1>1 DEF MergerInv, MergedUnder
  <2>6. \A x : RowsOf(signals, MadeBy(signals, P, x)) \in Nat
    <3>1. \A x : MadeBy(signals, P, x) \in SUBSET Input
      BY <2>5 DEF MadeBy
    <3> QED BY <2>5, <3>1, RowsAreNatural
  <2>7. made \in [C -> Nat] /\ IsFiniteSet(C)
    <3>1. made = [x \in C |-> made[x]]
      BY <1>1, <2>2 DEF MergerInv, Summary, CallersOf
    <3>2. IsFiniteSet(C)
      <4> HIDE DEF C, P
      <4> QED BY <2>3, <2>5, CallersFinite
    <3> HIDE DEF made
    <3> QED BY <2>4, <2>6, <3>1, <3>2
  <2> HIDE DEF made, C
  <2>8. c \in C /\ \A x \in C \ ToSet(top[k]) : made[x] <= made[c]
    BY <2>2, <2>7, CutKeepsLargest
  <2>9. CASE d \in C
    BY <2>4, <2>8, <2>9
  <2>10. CASE d \notin C
    <3>1. MadeBy(signals, P, d) = {}
      BY <2>3, <2>10 DEF MadeBy
    <3>2. RowsOf(signals, MadeBy(signals, P, d)) = 0
      BY <3>1, NoRows
    <3> QED BY <2>6, <3>2
  <2> QED BY <2>9, <2>10
<1> QED BY <1>1, MergerInvariant, PTL

----------------------------------------------------------------------------
(* The normaliser and the expander. *)

USE NormalizerAssumption

\* Paths of the same length whose segments normalise alike, and are empty at
\* the same places, have the same normal form.
LEMMA NormalFormBySegment ==
    ASSUME NEW p \in Path, NEW q \in Path, Len(p) = Len(q),
           \A i \in 1 .. Len(p) : (p[i] = Empty) = (q[i] = Empty),
           \A i \in 1 .. Len(p) : NormalizeSegment(p[i]) = NormalizeSegment(q[i])
    PROVE  Normalize(p) = Normalize(q)
<1>1. Len(p) \in Nat /\ Len(q) \in Nat
  BY DEF Path
<1>2. Len(Trimmed(p)) = Len(Trimmed(q)) /\ Len(Trimmed(p)) \in Nat /\ Len(Trimmed(p)) <= Len(p)
  <2>1. CASE Len(p) > 1 /\ p[Len(p)] = Empty
    <3>1. q[Len(q)] = Empty
      BY <1>1, <2>1
    <3>2. /\ Trimmed(p) = SubSeq(p, 1, Len(p) - 1)
          /\ Trimmed(q) = SubSeq(q, 1, Len(q) - 1)
      BY <2>1, <3>1 DEF Trimmed
    <3>3. /\ Len(SubSeq(p, 1, Len(p) - 1)) = Len(p) - 1
          /\ Len(SubSeq(q, 1, Len(q) - 1)) = Len(q) - 1
      BY <1>1, <2>1 DEF Path
    <3>. QED
      BY <1>1, <2>1, <3>2, <3>3
  <2>2. CASE ~(Len(p) > 1 /\ p[Len(p)] = Empty)
    <3>1. ~(Len(q) > 1 /\ q[Len(q)] = Empty)
      BY <1>1, <2>2
    <3>. QED
      BY <1>1, <2>2, <3>1 DEF Trimmed
  <2>. QED
    BY <2>1, <2>2
<1>3. \A i \in 1 .. Len(Trimmed(p)) :
         (IF p[i] = Empty THEN Empty ELSE NormalizeSegment(p[i]))
           = (IF q[i] = Empty THEN Empty ELSE NormalizeSegment(q[i]))
  BY <1>1, <1>2
<1>. QED
  BY <1>2, <1>3 DEF Normalize

\* A base and a target make a path.
LEMMA ConcatenationIsPath ==
    ASSUME NEW base \in Path, NEW target \in Path
    PROVE  base \o target \in Path /\ Len(base \o target) = Len(base) + Len(target)
  BY DEF Path

\* A call of an operation is recorded under a path of the operation (Merger's
\* DynamicCallsMatch rests on it): Normalize of phase 1 and normalizePath of
\* phase 2 agree behind any base without placeholders (expander.go:12-17).
THEOREM DynamicCallsMeetOperation ==
    ASSUME NEW base \in Path, \A i \in 1 .. Len(base) : base[i] \notin Placeholder,
           NEW target \in Path, IsWhole(target),
           NEW v \in [1 .. Len(target) -> Dynamic \ Excluded]
    PROVE  Normalize(base \o Sent(target, v)) = NormalizePath(base \o target)
<1> DEFINE p == base \o Sent(target, v)
           r == base \o target
           q == PassA(r)
<1>1. Sent(target, v) \in Path /\ Len(Sent(target, v)) = Len(target)
  BY DEF Sent, Path
<1>2. /\ p \in Path /\ Len(p) = Len(base) + Len(target)
      /\ r \in Path /\ Len(r) = Len(base) + Len(target)
  BY <1>1, ConcatenationIsPath
<1>3. q \in Path /\ Len(q) = Len(r)
  BY <1>2 DEF PassA, Path
<1>4. ASSUME NEW i \in 1 .. Len(p)
      PROVE  /\ (p[i] = Empty) = (q[i] = Empty)
             /\ NormalizeSegment(p[i]) = NormalizeSegment(q[i])
  <2>1. q[i] = IF r[i] \in Placeholder THEN Rewritten[r[i]] ELSE r[i]
    BY <1>2 DEF PassA
  <2>2. CASE i <= Len(base)
    <3>1. p[i] = base[i] /\ r[i] = base[i] /\ base[i] \notin Placeholder
      BY <1>1, <1>2, <2>2 DEF Path
    <3>. QED
      BY <2>1, <3>1
  <2>3. CASE i > Len(base)
    <3> DEFINE j == i - Len(base)
    <3>1. j \in 1 .. Len(target)
      BY <1>2, <2>3 DEF Path
    <3>2. p[i] = Sent(target, v)[j] /\ r[i] = target[j]
      BY <1>1, <1>2, <2>3 DEF Path
    <3>3. Sent(target, v)[j] = IF target[j] \in Placeholder THEN v[j] ELSE target[j]
      BY <3>1 DEF Sent
    <3>4. v[j] \in Dynamic \ Excluded
      BY <3>1
    <3> HIDE DEF j
    <3>5. CASE target[j] \in Placeholder
      <4>1. q[i] = Id
        BY <2>1, <3>1, <3>2, <3>5 DEF IsWhole
      <4> QED BY <3>2, <3>3, <3>4, <3>5, <4>1 DEF NormalizeSegment
    <3>6. CASE target[j] \notin Placeholder
      BY <2>1, <3>2, <3>3, <3>6
    <3>. QED
      BY <3>5, <3>6
  <2>. QED
    BY <1>2, <2>2, <2>3 DEF Path
<1>5. Len(p) = Len(q)
  BY <1>2, <1>3
<1> HIDE DEF p, q
<1>6. Normalize(p) = Normalize(q)
  BY <1>2, <1>3, <1>4, <1>5, NormalFormBySegment
<1>. QED
  BY <1>6 DEF p, q, NormalizePath

----------------------------------------------------------------------------
(* Traffic meets the operation it belongs to. *)

\* A base is what is left of its endpoint without the trailing slashes.
LEMMA TrimmedBase ==
    ASSUME NEW op \in Operation
    PROVE  TrimRight(op.endpoint) = op.base
<1> DEFINE e == op.endpoint
           b == op.base
           k == Len(b)
           Ends(n) == (n = 0 \/ e[n] # Empty) /\ \A i \in n + 1 .. Len(e) : e[i] = Empty
<1>1. PICK m \in 0 .. Len(e) : e = b \o [i \in 1 .. m |-> Empty]
  BY OperationAssumption
<1>2. b \in Seq(Segment) /\ e \in Seq(Segment) /\ k \in Nat /\ m \in Nat
  BY <1>1, OperationAssumption DEF Path
<1>3. [i \in 1 .. m |-> Empty] \in Seq(Segment) /\ Len([i \in 1 .. m |-> Empty]) = m
  BY <1>2
<1>4. /\ Len(e) = k + m
      /\ \A i \in 1 .. Len(e) : e[i] = IF i <= k THEN b[i] ELSE Empty
  BY <1>1, <1>2, <1>3
<1>5. k = 0 \/ b[k] # Empty
  BY OperationAssumption
<1> HIDE DEF e, b
<1>6. k \in 0 .. Len(e) /\ Ends(k)
  BY <1>2, <1>4, <1>5
<1>7. ASSUME NEW n \in 0 .. Len(e), Ends(n)
      PROVE  n = k
  <2>1. CASE n < k
    <3>1. k \in n + 1 .. Len(e) /\ e[k] = b[k] /\ k # 0
      BY <1>2, <1>4, <2>1
    <3> QED BY <1>5, <1>7, <3>1
  <2>2. CASE n > k
    <3>1. n \in 1 .. Len(e) /\ e[n] = Empty
      BY <1>2, <1>4, <2>2
    <3> QED BY <1>7, <2>2, <1>2, <3>1
  <2> QED BY <1>2, <1>7, <2>1, <2>2
<1>8. (CHOOSE n \in 0 .. Len(e) : Ends(n)) = k
  <2> HIDE DEF Ends, k
  <2> QED BY <1>6, <1>7
<1>9. TrimRight(e) = SubSeq(e, 1, k)
  BY <1>8 DEF TrimRight
<1>10. SubSeq(e, 1, k) = b
  BY <1>2, <1>4
<1> QED BY <1>9, <1>10 DEF e, b

\* Traffic that the normaliser can recognise always meets the operation it
\* belongs to: DynamicCallsMatch is an invariant.
THEOREM RecognisableCallsMatch == MergerSpec => []DynamicCallsMatch
<1>1. ASSUME NEW op \in Operation, IsWhole(op.target), NEW path \in CallsWith(op, Dynamic \ Excluded)
      PROVE  Normalize(path) \in ManagedPaths(op)
  <2>1. PICK base \in {op.public, op.base}, target \in TargetsWith(op, Dynamic \ Excluded) :
           path = base \o target
    BY DEF CallsWith
  <2>2. PICK v \in [1 .. Len(op.target) -> Dynamic \ Excluded] : target = Sent(op.target, v)
    BY DEF TargetsWith
  <2>3. /\ base \in Path /\ op.target \in Path
        /\ \A i \in 1 .. Len(base) : base[i] \notin Placeholder
    <3>1. /\ op.target \in Path /\ op.public \in Path /\ op.base \in Path
          /\ \A i \in 1 .. Len(op.public) : op.public[i] \notin Placeholder
          /\ \A i \in 1 .. Len(op.base) : op.base[i] \notin Placeholder
      BY OperationAssumption, Zenon
    <3> QED BY <2>1, <3>1
  <2>4. Normalize(path) = NormalizePath(base \o op.target)
    BY <1>1, <2>1, <2>2, <2>3, DynamicCallsMeetOperation
  <2>5. CASE base = op.base
    <3>1. TrimRight(op.endpoint) = op.base
      BY TrimmedBase
    <3> QED BY <2>4, <2>5, <3>1 DEF ManagedPaths, BackendPath
  <2>6. CASE base = op.public
    <3>1. ComposeGatewayPath(op.context, op.version, op.target) = op.public \o op.target
      <4>1. CASE /\ op.public = op.context
                 /\ op.version = Empty \/ (op.context # <<>> /\ op.context[Len(op.context)] = op.version)
        BY <4>1 DEF ComposeGatewayPath
      <4>2. CASE /\ op.public = Append(op.context, op.version)
                 /\ op.version # Empty
                 /\ op.context = <<>> \/ op.context[Len(op.context)] # op.version
        BY <4>2 DEF ComposeGatewayPath
      <4>. QED
        BY <4>1, <4>2, OperationAssumption
    <3>. QED
      BY <2>4, <2>6, <3>1 DEF ManagedPaths
  <2>. QED
    BY <2>1, <2>5, <2>6
<1>2. \A i \in Input : KeyOf(signals[i])[3] = Normalize(signals[i].path)
  BY DEF KeyOf
<1>3. DynamicCallsMatch
  BY <1>1, <1>2 DEF DynamicCallsMatch
<1>. QED
  BY <1>3, PTL
===============================================================================
