---------------------------- MODULE PublisherProofs ----------------------------
(****************************************************************************)
(* Proofs about the requests of one phase 2 run: the semaphore and the      *)
(* goroutines, what a listing that changes between two pages may miss or    *)
(* repeat, and that no API that was listed is lost.                         *)
(****************************************************************************)
EXTENDS Publisher, FiniteSetTheorems, SequenceTheorems, TLAPS

----------------------------------------------------------------------------
(* Sequences. *)

\* The elements of a sequence by their places.
LEMMA ElementsOf ==
    ASSUME NEW S, NEW s \in Seq(S)
    PROVE  /\ Len(s) \in Nat /\ DOMAIN s = 1 .. Len(s)
           /\ ToSet(s) = {s[i] : i \in 1 .. Len(s)}
           /\ ToSet(s) \subseteq S
           /\ IsFiniteSet(1 .. Len(s))
<1>1. Len(s) \in Nat /\ DOMAIN s = 1 .. Len(s)
  OBVIOUS
<1>2. ToSet(s) = {s[i] : i \in 1 .. Len(s)}
  BY <1>1 DEF ToSet
<1>3. IsFiniteSet(1 .. Len(s))
  BY <1>1, FS_Interval
<1> QED BY <1>1, <1>2, <1>3

LEMMA FunctionIsSequence ==
    ASSUME NEW S, NEW n \in Nat, NEW f \in [1 .. n -> S]
    PROVE  f \in Seq(S) /\ Len(f) = n
<1>1. f \in Seq(S)
  BY SeqDef
<1> QED BY <1>1

\* SetToSeq lists every element of a finite set once.
LEMMA SetIsListed ==
    ASSUME NEW S, IsFiniteSet(S)
    PROVE  /\ SetToSeq(S) \in Seq(S)
           /\ ToSet(SetToSeq(S)) = S
           /\ IsInjective(SetToSeq(S))
<1> DEFINE n == Cardinality(S)
           s == SetToSeq(S)
<1>1. n \in Nat /\ \E f \in Bijection(1 .. n, S) : TRUE
  BY FS_CardinalityType DEF ExistsBijection
<1>2. \E f \in [1 .. n -> S] : IsInjective(f)
  BY <1>1 DEF Bijection, Injection
<1>3. s \in [1 .. n -> S] /\ IsInjective(s)
  BY <1>2 DEF SetToSeq
<1> HIDE DEF s, n
<1>4. s \in Injection(1 .. n, S)
  BY <1>3 DEF Injection
<1>5. Cardinality(1 .. n) = Cardinality(S)
  BY <1>1, FS_Interval DEF n
<1>6. s \in Surjection(1 .. n, S)
  BY <1>4, <1>5, FS_Injection
<1>7. ToSet(s) = S
  BY <1>3, <1>6 DEF Surjection, ToSet
<1>8. s \in Seq(S)
  BY <1>1, <1>3
<1> QED BY <1>3, <1>7, <1>8 DEF s

\* An element is removed: those behind it move up.
LEMMA ElementRemoved ==
    ASSUME NEW S, NEW s \in Seq(S), NEW p \in 1 .. Len(s)
    PROVE  /\ RemoveAt(s, p) \in Seq(S)
           /\ Len(RemoveAt(s, p)) = Len(s) - 1
           /\ \A i \in 1 .. Len(s) - 1 :
                 RemoveAt(s, p)[i] = IF i < p THEN s[i] ELSE s[i + 1]
<1> DEFINE before == SubSeq(s, 1, p - 1)
           behind == SubSeq(s, p + 1, Len(s))
<1>1. /\ before \in Seq(S) /\ Len(before) = p - 1
      /\ \A i \in 1 .. p - 1 : before[i] = s[i]
  OBVIOUS
<1>2. /\ behind \in Seq(S) /\ Len(behind) = Len(s) - p
      /\ \A i \in 1 .. Len(s) - p : behind[i] = s[i + p]
  OBVIOUS
<1>3. RemoveAt(s, p) = before \o behind
  BY DEF RemoveAt
<1> HIDE DEF before, behind
<1>4. /\ before \o behind \in Seq(S) /\ Len(before \o behind) = Len(before) + Len(behind)
      /\ \A i \in 1 .. Len(before) + Len(behind) :
            (before \o behind)[i] = IF i <= Len(before) THEN before[i] ELSE behind[i - Len(before)]
  BY <1>1, <1>2, ConcatProperties
<1>5. Len(before \o behind) = Len(s) - 1
  BY <1>1, <1>2, <1>4
<1>6. ASSUME NEW i \in 1 .. Len(s) - 1
      PROVE  (before \o behind)[i] = IF i < p THEN s[i] ELSE s[i + 1]
  <2>1. (before \o behind)[i] = IF i <= p - 1 THEN before[i] ELSE behind[i - (p - 1)]
    BY <1>1, <1>2, <1>4
  <2>2. CASE i < p
    BY <2>1, <2>2, <1>1
  <2>3. CASE ~(i < p)
    <3>1. i - (p - 1) \in 1 .. Len(s) - p /\ (i - (p - 1)) + p = i + 1
      BY <2>3
    <3>2. behind[i - (p - 1)] = s[(i - (p - 1)) + p]
      BY <3>1, <1>2
    <3>3. (before \o behind)[i] = behind[i - (p - 1)]
      <4>1. ~(i <= p - 1)
        BY <2>3
      <4> QED BY <2>1, <4>1
    <3> QED BY <2>3, <3>1, <3>2, <3>3
  <2> QED BY <2>2, <2>3
<1> QED BY <1>3, <1>4, <1>5, <1>6

\* An element is inserted: those behind it move down.
LEMMA ElementInserted ==
    ASSUME NEW S, NEW s \in Seq(S), NEW e \in S, NEW p \in 1 .. Len(s) + 1
    PROVE  /\ InsertAt(s, p, e) \in Seq(S)
           /\ Len(InsertAt(s, p, e)) = Len(s) + 1
           /\ \A i \in 1 .. Len(s) + 1 :
                 InsertAt(s, p, e)[i] =
                     IF i < p THEN s[i] ELSE IF i = p THEN e ELSE s[i - 1]
<1> DEFINE before == SubSeq(s, 1, p - 1)
           behind == SubSeq(s, p, Len(s))
<1>1. /\ before \in Seq(S) /\ Len(before) = p - 1
      /\ \A i \in 1 .. p - 1 : before[i] = s[i]
  OBVIOUS
<1>2. /\ behind \in Seq(S) /\ Len(behind) = Len(s) - p + 1
      /\ \A i \in 1 .. Len(s) - p + 1 : behind[i] = s[i + p - 1]
  OBVIOUS
<1>3. InsertAt(s, p, e) = before \o <<e>> \o behind
  BY DEF InsertAt
<1> HIDE DEF before, behind
<1>4. /\ before \o <<e>> \in Seq(S) /\ Len(before \o <<e>>) = p
      /\ \A i \in 1 .. p : (before \o <<e>>)[i] = IF i < p THEN s[i] ELSE e
  BY <1>1
<1> DEFINE front == before \o <<e>>
<1> HIDE DEF front
<1>5. front \in Seq(S) /\ Len(front) = p
      /\ \A i \in 1 .. p : front[i] = IF i < p THEN s[i] ELSE e
  BY <1>4 DEF front
<1>6. /\ front \o behind \in Seq(S) /\ Len(front \o behind) = Len(front) + Len(behind)
      /\ \A i \in 1 .. Len(front) + Len(behind) :
            (front \o behind)[i] = IF i <= Len(front) THEN front[i] ELSE behind[i - Len(front)]
  BY <1>2, <1>5, ConcatProperties
<1>7. Len(front \o behind) = Len(s) + 1
  BY <1>2, <1>5, <1>6
<1>8. ASSUME NEW i \in 1 .. Len(s) + 1
      PROVE  (front \o behind)[i] = IF i < p THEN s[i] ELSE IF i = p THEN e ELSE s[i - 1]
  <2>1. (front \o behind)[i] = IF i <= p THEN front[i] ELSE behind[i - p]
    BY <1>2, <1>5, <1>6
  <2>2. CASE i <= p
    BY <2>1, <2>2, <1>5
  <2>3. CASE ~(i <= p)
    <3>1. i - p \in 1 .. Len(s) - p + 1 /\ (i - p) + p - 1 = i - 1
      BY <2>3
    <3> QED BY <2>1, <2>3, <3>1, <1>2
  <2> QED BY <2>2, <2>3
<1> QED BY <1>3, <1>6, <1>7, <1>8 DEF front

----------------------------------------------------------------------------
(* The administrators' changes of the list. *)

\* An API that is created moves others down.
LEMMA AfterCreate ==
    ASSUME catalogue \in Seq(Api), NEW a \in Api, Create(a)
    PROVE  /\ catalogue' \in Seq(Api)
           /\ ToSet(catalogue') = ToSet(catalogue) \cup {a}
           /\ \A i \in 1 .. Len(catalogue') :
                 \/ catalogue'[i] = a
                 \/ \E k \in 1 .. Len(catalogue) : k <= i /\ catalogue'[i] = catalogue[k]
           /\ IsInjective(catalogue) => IsInjective(catalogue')
<1> DEFINE n == Len(catalogue)
<1>1. PICK p \in 1 .. n + 1 : catalogue' = InsertAt(catalogue, p, a)
  BY DEF Create
<1>2. n \in Nat /\ DOMAIN catalogue = 1 .. n /\ ToSet(catalogue) = {catalogue[i] : i \in 1 .. n}
  BY ElementsOf
<1>3. /\ catalogue' \in Seq(Api) /\ Len(catalogue') = n + 1
      /\ \A i \in 1 .. n + 1 :
            catalogue'[i] = IF i < p THEN catalogue[i] ELSE IF i = p THEN a ELSE catalogue[i - 1]
  <2> DEFINE r == InsertAt(catalogue, p, a)
  <2>1. /\ r \in Seq(Api) /\ Len(r) = Len(catalogue) + 1
        /\ \A i \in 1 .. Len(catalogue) + 1 :
              r[i] = IF i < p THEN catalogue[i] ELSE IF i = p THEN a ELSE catalogue[i - 1]
    BY ElementInserted
  <2>2. catalogue' = r
    BY <1>1
  <2> HIDE DEF r
  <2> QED BY <2>1, <2>2
<1>4. /\ DOMAIN catalogue' = 1 .. n + 1
      /\ ToSet(catalogue') = {catalogue'[i] : i \in 1 .. n + 1}
  BY <1>3, ElementsOf
<1> HIDE DEF n
<1>5. ASSUME NEW i \in 1 .. n + 1
      PROVE  \/ i = p /\ catalogue'[i] = a
             \/ \E k \in 1 .. n : /\ k <= i /\ catalogue'[i] = catalogue[k]
                                /\ k = IF i < p THEN i ELSE i - 1
  <2>1. CASE i < p
    BY <2>1, <1>2, <1>3
  <2>2. CASE i = p
    BY <2>2, <1>3
  <2>3. CASE i > p
    <3>1. i - 1 \in 1 .. n /\ i - 1 <= i
      BY <2>3, <1>2
    <3> QED BY <2>3, <3>1, <1>2, <1>3
  <2> QED BY <2>1, <2>2, <2>3, <1>2
<1>6. ASSUME NEW k \in 1 .. n
      PROVE  \E i \in 1 .. n + 1 : catalogue'[i] = catalogue[k]
  <2>1. CASE k < p
    BY <2>1, <1>2, <1>3
  <2>2. CASE ~(k < p)
    <3>1. k + 1 \in 1 .. n + 1 /\ ~(k + 1 < p) /\ k + 1 # p /\ (k + 1) - 1 = k
      BY <2>2, <1>2
    <3>2. catalogue'[k + 1] = catalogue[(k + 1) - 1]
      BY <3>1, <1>3
    <3> QED BY <3>1, <3>2
  <2> QED BY <2>1, <2>2
<1>7. ToSet(catalogue') = ToSet(catalogue) \cup {a}
  <2>1. a \in ToSet(catalogue')
    BY <1>2, <1>3, <1>4
  <2>2. \A u \in ToSet(catalogue') : u \in ToSet(catalogue) \cup {a}
    BY <1>2, <1>4, <1>5
  <2>3. \A u \in ToSet(catalogue) : u \in ToSet(catalogue')
    BY <1>2, <1>4, <1>6
  <2> QED BY <2>1, <2>2, <2>3
<1>8. ASSUME IsInjective(catalogue)
      PROVE  IsInjective(catalogue')
  <2> SUFFICES ASSUME NEW i \in 1 .. n + 1, NEW j \in 1 .. n + 1, catalogue'[i] = catalogue'[j]
               PROVE  i = j
    BY <1>4 DEF IsInjective
  <2>1. a \notin ToSet(catalogue)
    BY DEF Create
  <2>2. CASE i = p /\ j = p
    BY <2>2
  <2>3. CASE i # p /\ j # p
    <3>1. PICK k \in 1 .. n : catalogue'[i] = catalogue[k] /\ k = IF i < p THEN i ELSE i - 1
      BY <2>3, <1>5
    <3>2. PICK l \in 1 .. n : catalogue'[j] = catalogue[l] /\ l = IF j < p THEN j ELSE j - 1
      BY <2>3, <1>5
    <3>3. k = l
      BY <3>1, <3>2, <1>2, <1>8 DEF IsInjective
    <3> QED BY <2>3, <3>1, <3>2, <3>3, <1>2
  <2>4. CASE (i = p) # (j = p)
    BY <2>1, <2>4, <1>2, <1>3, <1>5
  <2> QED BY <2>2, <2>3, <2>4
<1> QED BY <1>3, <1>5, <1>7, <1>8 DEF n

\* An API that is deleted moves others up.
LEMMA AfterDelete ==
    ASSUME catalogue \in Seq(Api), NEW a \in Api, Delete(a)
    PROVE  /\ catalogue' \in Seq(Api)
           /\ ToSet(catalogue) \ {a} \subseteq ToSet(catalogue')
           /\ \A i \in 1 .. Len(catalogue') :
                 \E k \in 1 .. Len(catalogue) : i <= k /\ catalogue'[i] = catalogue[k]
           /\ IsInjective(catalogue) => IsInjective(catalogue')
<1> DEFINE n == Len(catalogue)
<1>1. n \in Nat /\ DOMAIN catalogue = 1 .. n /\ ToSet(catalogue) = {catalogue[i] : i \in 1 .. n}
  BY ElementsOf
<1>2. PICK p \in 1 .. n : catalogue[p] = a /\ catalogue' = RemoveAt(catalogue, p)
  BY <1>1 DEF Delete
<1>3. /\ catalogue' \in Seq(Api) /\ Len(catalogue') = n - 1
      /\ \A i \in 1 .. n - 1 : catalogue'[i] = IF i < p THEN catalogue[i] ELSE catalogue[i + 1]
  BY <1>2, ElementRemoved
<1>4. /\ DOMAIN catalogue' = 1 .. n - 1
      /\ ToSet(catalogue') = {catalogue'[i] : i \in 1 .. n - 1}
  BY <1>3, ElementsOf
<1> HIDE DEF n
<1>5. ASSUME NEW i \in 1 .. n - 1
      PROVE  \E k \in 1 .. n : /\ i <= k /\ catalogue'[i] = catalogue[k]
                             /\ k = IF i < p THEN i ELSE i + 1
  <2>1. CASE i < p
    BY <2>1, <1>1, <1>3
  <2>2. CASE ~(i < p)
    <3>1. i + 1 \in 1 .. n /\ i <= i + 1
      BY <1>1
    <3> QED BY <2>2, <3>1, <1>3
  <2> QED BY <2>1, <2>2
<1>6. ASSUME NEW k \in 1 .. n, k # p
      PROVE  \E i \in 1 .. n - 1 : catalogue'[i] = catalogue[k]
  <2>1. CASE k < p
    BY <2>1, <1>1, <1>3
  <2>2. CASE k > p
    <3>1. k - 1 \in 1 .. n - 1 /\ ~(k - 1 < p) /\ (k - 1) + 1 = k
      BY <2>2, <1>1
    <3>2. catalogue'[k - 1] = catalogue[(k - 1) + 1]
      BY <3>1, <1>3
    <3> QED BY <3>1, <3>2
  <2> QED BY <2>1, <2>2, <1>6, <1>1
<1>7. ToSet(catalogue) \ {a} \subseteq ToSet(catalogue')
  BY <1>1, <1>2, <1>4, <1>6
<1>8. ASSUME IsInjective(catalogue)
      PROVE  IsInjective(catalogue')
  <2> SUFFICES ASSUME NEW i \in 1 .. n - 1, NEW j \in 1 .. n - 1, catalogue'[i] = catalogue'[j]
               PROVE  i = j
    BY <1>4 DEF IsInjective
  <2>1. PICK k \in 1 .. n : catalogue'[i] = catalogue[k] /\ k = IF i < p THEN i ELSE i + 1
    BY <1>5
  <2>2. PICK l \in 1 .. n : catalogue'[j] = catalogue[l] /\ l = IF j < p THEN j ELSE j + 1
    BY <1>5
  <2>3. k = l
    BY <2>1, <2>2, <1>1, <1>8 DEF IsInjective
  <2> QED BY <2>1, <2>2, <2>3, <1>1
<1> QED BY <1>3, <1>5, <1>7, <1>8 DEF n

----------------------------------------------------------------------------
(* The types, and the places of the semaphore. *)

TypesOfList ==
    /\ catalogue \in Seq(Api) /\ published \subseteq ToSet(catalogue)
    /\ changes \in 0 .. MaxChanges
    /\ stable \subseteq published
    /\ inserted \in BOOLEAN /\ deleted \in BOOLEAN

TypesOfPaging ==
    /\ pc \in {"list", "fetch", "returned", "failed"}
    /\ offset \in Nat /\ attempt \in 1 .. MaxAttempts
    /\ listed \in Seq(Api)

TypesOfFetching ==
    /\ worker \in Seq({"running", "got", "error"}) /\ Len(worker) <= Len(listed)
    /\ tries \in [DOMAIN worker -> 1 .. MaxAttempts]
    /\ free = Concurrency - Cardinality({i \in DOMAIN worker : Working(i)})
    /\ free >= 0

\* The administrators.
Change == \E a \in Api : Create(a) \/ Delete(a) \/ ChangeLifecycle(a)

LEMMA TypesOfChange ==
    ASSUME TypesOfList, Change
    PROVE  TypesOfList'
<1>1. changes' \in 0 .. MaxChanges
  BY PublisherAssumption DEF Change, Create, Delete, ChangeLifecycle, Changing, TypesOfList
<1>2. ASSUME NEW a \in Api, Create(a)
      PROVE  TypesOfList'
  <2>1. catalogue' \in Seq(Api) /\ ToSet(catalogue') = ToSet(catalogue) \cup {a}
    BY <1>2, AfterCreate DEF TypesOfList
  <2> QED BY <1>1, <1>2, <2>1 DEF Create, TypesOfList
<1>3. ASSUME NEW a \in Api, Delete(a)
      PROVE  TypesOfList'
  <2>1. catalogue' \in Seq(Api) /\ ToSet(catalogue) \ {a} \subseteq ToSet(catalogue')
    BY <1>3, AfterDelete DEF TypesOfList
  <2> QED BY <1>1, <1>3, <2>1 DEF Delete, TypesOfList
<1>4. ASSUME NEW a \in Api, ChangeLifecycle(a)
      PROVE  TypesOfList'
  BY <1>1, <1>4 DEF ChangeLifecycle, TypesOfList
<1> QED BY <1>2, <1>3, <1>4 DEF Change

\* The published APIs of a page, as places of the list.
LEMMA PageKeeps ==
    ASSUME catalogue \in Seq(Api), offset \in Nat
    PROVE  /\ \A a \in Kept : a \in Api
           /\ \A a : a \in Kept <=>
                 /\ a \in published
                 /\ \E i \in 1 .. Len(catalogue) :
                       offset < i /\ i <= offset + PageSize /\ catalogue[i] = a
           /\ SetToSeq(Kept) \in Seq(Api) /\ ToSet(SetToSeq(Kept)) = Kept
           /\ IsInjective(SetToSeq(Kept))
<1> DEFINE n == Len(catalogue)
           m == Min({offset + PageSize, n})
<1>1. n \in Nat /\ PageSize \in Nat
  BY PublisherAssumption
<1>2. m = IF offset + PageSize <= n THEN offset + PageSize ELSE n
  BY <1>1 DEF Min
<1> HIDE DEF m
<1>3. m \in Nat /\ m <= n /\ \A i \in offset + 1 .. m : catalogue[i] \in Api
  BY <1>1, <1>2
<1>4. /\ Page \in Seq(Api)
      /\ Len(Page) = IF offset + 1 <= m THEN m - (offset + 1) + 1 ELSE 0
      /\ \A i \in 1 .. m - (offset + 1) + 1 : Page[i] = catalogue[offset + 1 + i - 1]
  <2>1. offset + 1 \in Int /\ m \in Int
    BY <1>3
  <2>2. Page = SubSeq(catalogue, offset + 1, m)
    BY DEF Page, m
  <2> QED BY <1>3, <2>1, <2>2, SubSeqProperties
<1>5. /\ \A i \in 1 .. Len(Page) : /\ Page[i] = catalogue[offset + i]
                                   /\ offset + i \in 1 .. n /\ offset + i <= offset + PageSize
      /\ \A k \in 1 .. n : offset < k /\ k <= offset + PageSize =>
            k - offset \in 1 .. Len(Page) /\ Page[k - offset] = catalogue[k]
  BY <1>1, <1>2, <1>3, <1>4
<1>6. /\ ToSet(Page) = {Page[i] : i \in 1 .. Len(Page)} /\ ToSet(Page) \subseteq Api
      /\ Len(Page) \in Nat
  BY <1>4, ElementsOf
<1>7. \A a : a \in ToSet(Page) <=>
         \E i \in 1 .. n : offset < i /\ i <= offset + PageSize /\ catalogue[i] = a
  <2>1. ASSUME NEW i \in 1 .. Len(Page)
        PROVE  \E k \in 1 .. n : offset < k /\ k <= offset + PageSize /\ catalogue[k] = Page[i]
    <3>1. offset < offset + i
      BY <1>6
    <3> QED BY <1>5, <3>1
  <2>2. ASSUME NEW k \in 1 .. n, offset < k, k <= offset + PageSize
        PROVE  catalogue[k] \in ToSet(Page)
    BY <1>5, <1>6, <2>2
  <2> QED BY <1>6, <2>1, <2>2
<1>8. Kept \subseteq Api /\ IsFiniteSet(Kept)
  BY <1>6, FS_Subset, PublisherAssumption DEF Kept
<1>9. SetToSeq(Kept) \in Seq(Kept) /\ ToSet(SetToSeq(Kept)) = Kept /\ IsInjective(SetToSeq(Kept))
  BY <1>8, SetIsListed
<1>10. SetToSeq(Kept) \in Seq(Api)
  BY <1>8, <1>9, SeqMonotonic
<1> QED BY <1>7, <1>8, <1>9, <1>10 DEF Kept

\* The goroutines that hold a place.
Holders == {i \in DOMAIN worker : Working(i)}

LEMMA HoldersAreFinite ==
    ASSUME TypesOfFetching
    PROVE  /\ Len(worker) \in Nat /\ DOMAIN worker = 1 .. Len(worker)
           /\ IsFiniteSet(Holders) /\ Cardinality(Holders) \in Nat
           /\ free = Concurrency - Cardinality(Holders)
<1>1. Len(worker) \in Nat /\ DOMAIN worker = 1 .. Len(worker) /\ IsFiniteSet(1 .. Len(worker))
  BY ElementsOf DEF TypesOfFetching
<1>2. Holders \in SUBSET (1 .. Len(worker))
  BY <1>1 DEF Holders
<1> QED BY <1>1, <1>2, FS_Subset, FS_CardinalityType DEF TypesOfFetching, Holders

LEMMA TypesOfListPage ==
    ASSUME TypesOfList, TypesOfPaging, TypesOfFetching, ListPage
    PROVE  TypesOfPaging' /\ TypesOfFetching'
<1>1. catalogue \in Seq(Api) /\ offset \in Nat /\ listed \in Seq(Api)
  BY DEF TypesOfList, TypesOfPaging
<1>2. SetToSeq(Kept) \in Seq(Api)
  BY <1>1, PageKeeps
<1>3. /\ listed \o SetToSeq(Kept) \in Seq(Api)
      /\ Len(listed \o SetToSeq(Kept)) = Len(listed) + Len(SetToSeq(Kept))
      /\ Len(SetToSeq(Kept)) \in Nat /\ Len(listed) \in Nat
  BY <1>1, <1>2, ConcatProperties
<1>4. listed' = listed \o SetToSeq(Kept) /\ offset' = offset + PageSize
  BY DEF ListPage, NextOffset
<1>5. TypesOfPaging'
  BY <1>1, <1>3, <1>4, PublisherAssumption DEF ListPage, TypesOfPaging
<1>6. worker' = worker /\ tries' = tries /\ free' = free
  BY DEF ListPage, fetching
<1>7. Len(worker) <= Len(listed')
  <2>1. Len(worker) \in Nat /\ Len(worker) <= Len(listed)
    BY DEF TypesOfFetching
  <2> QED BY <1>3, <1>4, <2>1
<1> QED BY <1>5, <1>6, <1>7 DEF TypesOfFetching, Working

LEMMA TypesOfSpawn ==
    ASSUME TypesOfPaging, TypesOfFetching, Spawn
    PROVE  TypesOfPaging' /\ TypesOfFetching'
<1> DEFINE n == Len(worker)
<1>1. /\ worker \in Seq({"running", "got", "error"}) /\ n \in Nat
      /\ tries \in [1 .. n -> 1 .. MaxAttempts]
      /\ DOMAIN worker = 1 .. n
  BY DEF TypesOfFetching
<1>2. /\ worker' \in Seq({"running", "got", "error"}) /\ Len(worker') = n + 1
      /\ DOMAIN worker' = 1 .. n + 1
      /\ worker'[n + 1] = "running" /\ \A i \in 1 .. n : worker'[i] = worker[i]
  BY <1>1 DEF Spawn
<1>3. tries' \in [1 .. n + 1 -> 1 .. MaxAttempts]
  <2>1. tries \in Seq(1 .. MaxAttempts) /\ Len(tries) = n
    BY <1>1, FunctionIsSequence
  <2>2. 1 \in 1 .. MaxAttempts
    BY PublisherAssumption
  <2>3. Append(tries, 1) \in Seq(1 .. MaxAttempts) /\ Len(Append(tries, 1)) = n + 1
    BY <2>1, <2>2
  <2>4. tries' \in Seq(1 .. MaxAttempts) /\ Len(tries') = n + 1
    BY <2>3 DEF Spawn
  <2> HIDE DEF n
  <2> QED BY <2>4, LenProperties
<1>4. Holders' = Holders \cup {n + 1}
  BY <1>1, <1>2 DEF Holders, Working
<1>5. n + 1 \notin Holders
  BY <1>1 DEF Holders
<1>6. Cardinality(Holders') = Cardinality(Holders) + 1
  BY <1>4, <1>5, HoldersAreFinite, FS_AddElement
<1>7. free' = Concurrency - Cardinality(Holders') /\ free' >= 0
  BY <1>6, HoldersAreFinite, PublisherAssumption DEF Spawn
<1>8. Len(listed) \in Nat /\ n < Len(listed)
  BY DEF Spawn, TypesOfPaging
<1>9. TypesOfPaging' /\ listed' = listed
  BY DEF Spawn, TypesOfPaging
<1> QED BY <1>1, <1>2, <1>3, <1>7, <1>8, <1>9 DEF TypesOfFetching, Holders

LEMMA TypesOfDetail ==
    ASSUME TypesOfPaging, TypesOfFetching, NEW i \in DOMAIN worker, Detail(i)
    PROVE  TypesOfPaging' /\ TypesOfFetching'
<1> DEFINE n == Len(worker)
<1>1. /\ worker \in Seq({"running", "got", "error"}) /\ n \in Nat /\ n <= Len(listed)
      /\ tries \in [1 .. n -> 1 .. MaxAttempts]
      /\ DOMAIN worker = 1 .. n /\ i \in 1 .. n
  BY DEF TypesOfFetching
<1>2. TypesOfPaging' /\ listed' = listed
  BY DEF Detail, RetryDetail, EndDetail, TypesOfPaging
<1>3. CASE RetryDetail(i)
  <2>1. tries' \in [1 .. n -> 1 .. MaxAttempts]
    <3>1. tries[i] \in 1 .. MaxAttempts /\ tries[i] + 1 \in 1 .. MaxAttempts
      BY <1>1, <1>3, PublisherAssumption DEF RetryDetail
    <3> QED BY <1>1, <1>3, <3>1 DEF RetryDetail
  <2>2. worker' = worker /\ free' = free
    BY <1>3 DEF RetryDetail
  <2> QED BY <1>1, <1>2, <2>1, <2>2 DEF TypesOfFetching, Working
<1>4. ASSUME NEW outcome \in {"got", "error"}, EndDetail(i, outcome)
      PROVE  TypesOfPaging' /\ TypesOfFetching'
  <2>1. /\ worker' \in Seq({"running", "got", "error"}) /\ Len(worker') = n
        /\ DOMAIN worker' = 1 .. n
        /\ \A j \in 1 .. n : worker'[j] = IF j = i THEN outcome ELSE worker[j]
    <3>1. outcome \in {"running", "got", "error"}
      OBVIOUS
    <3> QED BY <1>1, <1>4, <3>1, ExceptSeq DEF EndDetail
  <2>2. Holders' = Holders \ {i} /\ i \in Holders
    BY <1>1, <1>4, <2>1 DEF Holders, Working, EndDetail
  <2>3. Cardinality(Holders') = Cardinality(Holders) - 1
    BY <2>2, HoldersAreFinite, FS_RemoveElement
  <2>4. free' = Concurrency - Cardinality(Holders') /\ free' >= 0
    BY <1>4, <2>3, HoldersAreFinite, PublisherAssumption DEF EndDetail, TypesOfFetching
  <2>5. tries' = tries
    BY <1>4 DEF EndDetail
  <2> QED BY <1>1, <1>2, <2>1, <2>4, <2>5 DEF TypesOfFetching, Holders
<1> QED BY <1>3, <1>4 DEF Detail

\* The places of the semaphore are free or held by a goroutine that runs,
\* whatever fails and in whatever order the goroutines end.
THEOREM PublisherTypes == PublisherSpec => []PublisherTypeOK
<1>1. PublisherInit => PublisherTypeOK
  <2> SUFFICES ASSUME PublisherInit
               PROVE  TypesOfList /\ TypesOfPaging /\ TypesOfFetching
    BY DEF PublisherTypeOK, TypesOfList, TypesOfPaging, TypesOfFetching
  <2>1. TypesOfList
    <3>1. PICK S \in SUBSET Api : catalogue = SetToSeq(S)
      BY DEF PublisherInit
    <3>2. SetToSeq(S) \in Seq(S)
      BY <3>1, SetIsListed, FS_Subset, PublisherAssumption
    <3>3. catalogue \in Seq(Api)
      BY <3>1, <3>2, SeqMonotonic
    <3>4. published \subseteq ToSet(catalogue) /\ changes = 0 /\ stable = published
      BY DEF PublisherInit
    <3>5. inserted \in BOOLEAN /\ deleted \in BOOLEAN
      BY DEF PublisherInit
    <3> QED BY <3>3, <3>4, <3>5, PublisherAssumption DEF TypesOfList
  <2>2. TypesOfPaging
    BY PublisherAssumption DEF PublisherInit, TypesOfPaging
  <2>3. TypesOfFetching
    <3>1. /\ worker = <<>> /\ tries = <<>> /\ free = Concurrency
          /\ Len(worker) = 0 /\ Len(listed) = 0 /\ DOMAIN worker = {}
      BY DEF PublisherInit
    <3>2. {i \in DOMAIN worker : Working(i)} = {}
      BY <3>1
    <3>3. Cardinality({i \in DOMAIN worker : Working(i)}) = 0
      BY <3>2, FS_EmptySet
    <3>4. tries \in [DOMAIN worker -> 1 .. MaxAttempts]
      BY <3>1
    <3>5. worker \in Seq({"running", "got", "error"})
      BY <3>1
    <3> QED BY <3>1, <3>3, <3>4, <3>5, PublisherAssumption DEF TypesOfFetching
  <2> QED BY <2>1, <2>2, <2>3
<1>2. PublisherTypeOK /\ [PublisherNext]_publisherVars => PublisherTypeOK'
  <2> SUFFICES ASSUME TypesOfList, TypesOfPaging, TypesOfFetching, [PublisherNext]_publisherVars
               PROVE  (TypesOfList /\ TypesOfPaging /\ TypesOfFetching)'
    BY DEF PublisherTypeOK, TypesOfList, TypesOfPaging, TypesOfFetching
  <2>1. CASE Change
    <3>1. UNCHANGED <<pc, offset, attempt, listed, fetching>>
      BY <2>1 DEF Change, Create, Delete, ChangeLifecycle, Changing
    <3> QED BY <2>1, <3>1, TypesOfChange DEF fetching, TypesOfPaging, TypesOfFetching, Working
  <2>2. CASE UNCHANGED list
    <3>1. TypesOfList'
      BY <2>2 DEF list, TypesOfList
    <3>2. CASE ListPage
      BY <3>1, <3>2, TypesOfListPage
    <3>3. CASE Spawn
      BY <3>1, <3>3, TypesOfSpawn
    <3>4. ASSUME NEW i \in DOMAIN worker, Detail(i)
          PROVE  (TypesOfPaging /\ TypesOfFetching)'
      BY <3>4, TypesOfDetail
    <3>5. CASE RetryPage \/ ListFails \/ Return \/ UNCHANGED publisherVars
      <4>1. TypesOfPaging'
        BY <3>5, PublisherAssumption
        DEF RetryPage, ListFails, Return, publisherVars, TypesOfPaging
      <4>2. UNCHANGED <<worker, tries, free, listed>>
        BY <3>5 DEF RetryPage, ListFails, Return, publisherVars, fetching
      <4> QED BY <3>1, <4>1, <4>2 DEF TypesOfFetching, Working
    <3> QED BY <2>2, <3>1, <3>2, <3>3, <3>4, <3>5, <2>1 DEF PublisherNext, Listing, Change
  <2>3. Change \/ UNCHANGED list
    BY DEF PublisherNext, Change, Listing, ListPage, RetryPage, ListFails, Spawn, Detail,
           RetryDetail, EndDetail, Return, publisherVars
  <2> QED BY <2>1, <2>2, <2>3
<1> QED BY <1>1, <1>2, PTL DEF PublisherSpec

----------------------------------------------------------------------------
(* What a listing that changes between two pages may miss or repeat. *)

\* Unless an API was deleted, those that were published all along and stand
\* before the next page have been listed.
NothingHidden ==
    ~deleted =>
        /\ pc = "list" =>
              \A i \in 1 .. Len(catalogue) :
                 i <= offset /\ catalogue[i] \in stable => catalogue[i] \in ToSet(listed)
        /\ pc \in {"fetch", "returned"} => stable \subseteq ToSet(listed)

\* Unless an API was created, those that have been listed stand before the
\* next page.
NothingTwice ==
    ~inserted =>
        /\ IsInjective(listed)
        /\ \A i \in 1 .. Len(catalogue) : catalogue[i] \in ToSet(listed) => i <= offset

ListingInv ==
    /\ IsInjective(catalogue)
    /\ NothingHidden
    /\ NothingTwice

LEMMA CreateKeepsListing ==
    ASSUME TypesOfList, TypesOfPaging, ListingInv, NEW a \in Api, Create(a)
    PROVE  ListingInv'
<1>1. /\ UNCHANGED <<pc, offset, listed, stable, deleted>> /\ inserted'
      /\ a \notin ToSet(catalogue) /\ stable \subseteq ToSet(catalogue)
  BY DEF Create, Changing, TypesOfList
<1>2. /\ Len(catalogue') \in Nat /\ Len(catalogue) \in Nat /\ offset \in Nat
      /\ \A i \in 1 .. Len(catalogue') :
            \/ catalogue'[i] = a
            \/ \E k \in 1 .. Len(catalogue) : k <= i /\ catalogue'[i] = catalogue[k]
      /\ IsInjective(catalogue')
  BY AfterCreate DEF TypesOfList, TypesOfPaging, ListingInv
<1>3. ASSUME ~deleted, pc = "list",
             NEW i \in 1 .. Len(catalogue'), i <= offset, catalogue'[i] \in stable
      PROVE  catalogue'[i] \in ToSet(listed)
  <2>1. PICK k \in 1 .. Len(catalogue) : k <= i /\ catalogue'[i] = catalogue[k]
    BY <1>1, <1>2, <1>3
  <2>2. k <= offset
    BY <2>1, <1>2, <1>3
  <2> QED BY <2>1, <2>2, <1>3 DEF ListingInv, NothingHidden
<1>4. NothingHidden'
  BY <1>1, <1>3 DEF ListingInv, NothingHidden
<1> QED BY <1>1, <1>2, <1>4 DEF ListingInv, NothingTwice

LEMMA DeleteKeepsListing ==
    ASSUME TypesOfList, TypesOfPaging, ListingInv, NEW a \in Api, Delete(a)
    PROVE  ListingInv'
<1>1. UNCHANGED <<pc, offset, listed, inserted>> /\ deleted'
  BY DEF Delete, Changing
<1>2. /\ Len(catalogue') \in Nat /\ Len(catalogue) \in Nat /\ offset \in Nat
      /\ \A i \in 1 .. Len(catalogue') :
            \E k \in 1 .. Len(catalogue) : i <= k /\ catalogue'[i] = catalogue[k]
      /\ IsInjective(catalogue')
  BY AfterDelete DEF TypesOfList, TypesOfPaging, ListingInv
<1>3. ASSUME ~inserted, NEW i \in 1 .. Len(catalogue'), catalogue'[i] \in ToSet(listed)
      PROVE  i <= offset
  <2>1. PICK k \in 1 .. Len(catalogue) : i <= k /\ catalogue'[i] = catalogue[k]
    BY <1>2
  <2>2. k <= offset
    BY <2>1, <1>3 DEF ListingInv, NothingTwice
  <2> QED BY <2>1, <2>2, <1>2
<1>4. NothingTwice'
  BY <1>1, <1>3 DEF ListingInv, NothingTwice
<1> QED BY <1>1, <1>2, <1>4 DEF ListingInv, NothingHidden

\* Two lists without repetition and without a common element.
LEMMA JoinedOnce ==
    ASSUME NEW S, NEW s \in Seq(S), NEW t \in Seq(S)
    PROVE  /\ ToSet(s \o t) = ToSet(s) \cup ToSet(t)
           /\ IsInjective(s) /\ IsInjective(t) /\ ToSet(s) \cap ToSet(t) = {}
              => IsInjective(s \o t)
<1> DEFINE r == s \o t
           m == Len(s)
           n == Len(t)
<1>1. /\ m \in Nat /\ n \in Nat /\ DOMAIN s = 1 .. m /\ DOMAIN t = 1 .. n
      /\ ToSet(s) = {s[i] : i \in 1 .. m} /\ ToSet(t) = {t[i] : i \in 1 .. n}
  BY ElementsOf
<1>2. /\ r \in Seq(S) /\ Len(r) = m + n
      /\ \A i \in 1 .. m + n : r[i] = IF i <= m THEN s[i] ELSE t[i - m]
  BY ConcatProperties
<1>3. DOMAIN r = 1 .. m + n /\ ToSet(r) = {r[i] : i \in 1 .. m + n}
  BY <1>2, ElementsOf
<1> HIDE DEF r, m, n
<1>4. \A i \in 1 .. m + n : \/ i \in 1 .. m /\ r[i] = s[i]
                            \/ i > m /\ i - m \in 1 .. n /\ r[i] = t[i - m]
  BY <1>1, <1>2
<1>5. \A i \in 1 .. m : i \in 1 .. m + n /\ r[i] = s[i]
  BY <1>1, <1>2
<1>6. ASSUME NEW i \in 1 .. n
      PROVE  i + m \in 1 .. m + n /\ r[i + m] = t[i]
  <2>1. i + m \in 1 .. m + n /\ ~(i + m <= m) /\ (i + m) - m = i
    BY <1>1
  <2>2. r[i + m] = t[(i + m) - m]
    BY <1>2, <2>1
  <2> QED BY <2>1, <2>2
<1>7. ToSet(r) = ToSet(s) \cup ToSet(t)
  <2>1. \A u \in ToSet(r) : u \in ToSet(s) \cup ToSet(t)
    BY <1>1, <1>3, <1>4
  <2>2. \A u \in ToSet(s) : u \in ToSet(r)
    BY <1>1, <1>3, <1>5
  <2>3. \A u \in ToSet(t) : u \in ToSet(r)
    BY <1>1, <1>3, <1>6
  <2> QED BY <2>1, <2>2, <2>3
<1>8. ASSUME IsInjective(s), IsInjective(t), ToSet(s) \cap ToSet(t) = {},
             NEW i \in 1 .. m + n, NEW j \in 1 .. m + n, r[i] = r[j]
      PROVE  i = j
  <2>1. CASE i \in 1 .. m /\ j \in 1 .. m
    BY <2>1, <1>1, <1>5, <1>8 DEF IsInjective
  <2>2. CASE i \notin 1 .. m /\ j \notin 1 .. m
    <3>1. i - m \in 1 .. n /\ j - m \in 1 .. n /\ t[i - m] = t[j - m]
      BY <2>2, <1>4, <1>8
    <3>2. i - m = j - m
      BY <3>1, <1>1, <1>8 DEF IsInjective
    <3> QED BY <3>2, <1>1
  <2>3. CASE (i \in 1 .. m) # (j \in 1 .. m)
    BY <2>3, <1>1, <1>4, <1>8
  <2> QED BY <2>1, <2>2, <2>3
<1>9. IsInjective(s) /\ IsInjective(t) /\ ToSet(s) \cap ToSet(t) = {} => IsInjective(r)
  BY <1>3, <1>8 DEF IsInjective
<1> QED BY <1>7, <1>9 DEF r

LEMMA PageKeepsListing ==
    ASSUME TypesOfList, TypesOfPaging, ListingInv, ListPage
    PROVE  ListingInv'
<1> DEFINE n == Len(catalogue)
<1>1. /\ n \in Nat /\ offset \in Nat /\ PageSize \in Nat
      /\ DOMAIN catalogue = 1 .. n /\ ToSet(catalogue) = {catalogue[i] : i \in 1 .. n}
      /\ stable \subseteq published /\ published \subseteq ToSet(catalogue)
  BY ElementsOf, PublisherAssumption DEF TypesOfList, TypesOfPaging
<1>2. /\ UNCHANGED <<catalogue, stable, deleted, inserted>> /\ pc = "list"
      /\ offset' = offset + PageSize
      /\ pc' = IF offset + PageSize >= n THEN "fetch" ELSE "list"
  BY DEF ListPage, list, NextOffset, LastPage
<1>3. \A i \in 1 .. n : catalogue[i] \in Kept <=>
          /\ catalogue[i] \in published
          /\ offset < i /\ i <= offset + PageSize
  <2>1. \A i, k \in 1 .. n : catalogue[i] = catalogue[k] => i = k
    BY <1>1 DEF ListingInv, IsInjective
  <2> QED BY <1>1, <2>1, PageKeeps DEF TypesOfList
<1>4. /\ ToSet(listed') = ToSet(listed) \cup Kept
      /\ IsInjective(listed) /\ ToSet(listed) \cap Kept = {} => IsInjective(listed')
  <2>1. listed' = listed \o SetToSeq(Kept)
    BY DEF ListPage
  <2>2. /\ SetToSeq(Kept) \in Seq(Api) /\ ToSet(SetToSeq(Kept)) = Kept
        /\ IsInjective(SetToSeq(Kept)) /\ listed \in Seq(Api)
    BY <1>1, PageKeeps DEF TypesOfList, TypesOfPaging
  <2>3. /\ ToSet(listed \o SetToSeq(Kept)) = ToSet(listed) \cup Kept
        /\ IsInjective(listed) /\ ToSet(listed) \cap Kept = {}
           => IsInjective(listed \o SetToSeq(Kept))
    BY <2>2, JoinedOnce
  <2> QED BY <2>1, <2>3
<1> HIDE DEF n
<1>5. ASSUME ~deleted, NEW i \in 1 .. n, i <= offset + PageSize, catalogue[i] \in stable
      PROVE  catalogue[i] \in ToSet(listed')
  <2>1. CASE i <= offset
    BY <2>1, <1>2, <1>4, <1>5 DEF ListingInv, NothingHidden, n
  <2>2. CASE ~(i <= offset)
    BY <2>2, <1>1, <1>3, <1>4, <1>5
  <2> QED BY <2>1, <2>2
<1>6. NothingHidden'
  <2>1. ASSUME ~deleted, offset + PageSize >= n
        PROVE  stable \subseteq ToSet(listed')
    <3>1. \A i \in 1 .. n : i <= offset + PageSize
      BY <1>1, <2>1
    <3> QED BY <1>1, <1>5, <2>1, <3>1
  <2> QED BY <1>2, <1>5, <2>1 DEF NothingHidden, n
<1>7. NothingTwice'
  <2> SUFFICES ASSUME ~inserted
               PROVE  /\ IsInjective(listed')
                      /\ \A i \in 1 .. n : catalogue[i] \in ToSet(listed') => i <= offset + PageSize
    BY <1>2 DEF NothingTwice, n
  <2>1. \A i \in 1 .. n : catalogue[i] \in ToSet(listed) => i <= offset
    BY DEF ListingInv, NothingTwice, n
  <2>2. ToSet(listed) \cap Kept = {}
    <3>1. \A u \in Kept : u \in ToSet(catalogue)
      BY <1>1 DEF Kept
    <3> QED BY <1>1, <1>3, <2>1, <3>1
  <2>3. IsInjective(listed')
    BY <1>4, <2>2 DEF ListingInv, NothingTwice
  <2>4. ASSUME NEW i \in 1 .. n, catalogue[i] \in ToSet(listed')
        PROVE  i <= offset + PageSize
    BY <1>1, <1>3, <1>4, <2>1, <2>4
  <2> QED BY <2>3, <2>4
<1> QED BY <1>2, <1>6, <1>7 DEF ListingInv

\* Only the deletion of an API hides another one that was published all along,
\* and only the creation of one makes another appear twice.
THEOREM ListingMissesOnlyByDeletion == PublisherSpec => []ListingIsFaithful
<1>1. PublisherInit => ListingInv
  <2> SUFFICES ASSUME PublisherInit
               PROVE  ListingInv
    OBVIOUS
  <2>1. PICK S \in SUBSET Api : catalogue = SetToSeq(S)
    BY DEF PublisherInit
  <2>2. IsInjective(catalogue)
    BY <2>1, SetIsListed, FS_Subset, PublisherAssumption
  <2>3. offset = 0 /\ pc = "list" /\ listed = <<>> /\ ToSet(listed) = {} /\ IsInjective(listed)
    BY DEF PublisherInit, ToSet, IsInjective
  <2>4. \A i \in 1 .. Len(catalogue) : ~(i <= 0)
    OBVIOUS
  <2> QED BY <2>2, <2>3, <2>4 DEF ListingInv, NothingHidden, NothingTwice
<1>2. PublisherTypeOK /\ ListingInv /\ [PublisherNext]_publisherVars => ListingInv'
  <2> SUFFICES ASSUME PublisherTypeOK, ListingInv, [PublisherNext]_publisherVars
               PROVE  ListingInv'
    OBVIOUS
  <2>1. TypesOfList /\ TypesOfPaging
    BY DEF PublisherTypeOK, TypesOfList, TypesOfPaging
  <2>2. ASSUME NEW a \in Api, Create(a)
        PROVE  ListingInv'
    BY <2>1, <2>2, CreateKeepsListing
  <2>3. ASSUME NEW a \in Api, Delete(a)
        PROVE  ListingInv'
    BY <2>1, <2>3, DeleteKeepsListing
  <2>4. ASSUME NEW a \in Api, ChangeLifecycle(a)
        PROVE  ListingInv'
    <3>1. /\ UNCHANGED <<catalogue, inserted, deleted, pc, offset, listed>>
          /\ stable' \subseteq stable
      BY <2>4 DEF ChangeLifecycle, Changing
    <3> QED BY <3>1 DEF ListingInv, NothingHidden, NothingTwice
  <2>5. CASE ListPage
    BY <2>1, <2>5, PageKeepsListing
  <2>6. CASE RetryPage \/ Spawn \/ (\E i \in DOMAIN worker : Detail(i)) \/ UNCHANGED publisherVars
    <3>1. UNCHANGED <<catalogue, stable, inserted, deleted, pc, offset, listed>>
      BY <2>6 DEF RetryPage, Spawn, Detail, RetryDetail, EndDetail, publisherVars, list
    <3> QED BY <3>1 DEF ListingInv, NothingHidden, NothingTwice
  <2>7. CASE ListFails \/ Return
    <3>1. /\ UNCHANGED <<catalogue, stable, inserted, deleted, offset, listed>>
          /\ pc' = "failed" \/ (pc = "fetch" /\ pc' = "returned")
      BY <2>7 DEF ListFails, Return, list
    <3> QED BY <3>1 DEF ListingInv, NothingHidden, NothingTwice
  <2> QED BY <2>2, <2>3, <2>4, <2>5, <2>6, <2>7 DEF PublisherNext, Listing
<1>3. ListingInv => ListingIsFaithful
  BY DEF ListingInv, NothingHidden, NothingTwice, ListingIsFaithful
<1> QED BY <1>1, <1>2, <1>3, PublisherTypes, PTL DEF PublisherSpec

----------------------------------------------------------------------------
(* The results. *)

EveryDetailAccounted ==
    pc = "returned" => \A i \in DOMAIN listed : i \in DOMAIN worker /\ ~Working(i)

\* wg.Wait returns when every goroutine of every API that was listed has left
\* a result or an error, and nothing changes the outcome of one afterwards.
LEMMA NoDetailLost == PublisherSpec => []EveryDetailAccounted
<1>1. PublisherInit => EveryDetailAccounted
  BY DEF PublisherInit, EveryDetailAccounted
<1>2. PublisherTypeOK /\ EveryDetailAccounted /\ [PublisherNext]_publisherVars
      => EveryDetailAccounted'
  <2> SUFFICES ASSUME PublisherTypeOK, EveryDetailAccounted, [PublisherNext]_publisherVars,
                      pc' = "returned"
               PROVE  \A i \in DOMAIN listed' : i \in DOMAIN worker' /\ ~Working(i)'
    BY DEF EveryDetailAccounted
  <2>1. /\ DOMAIN listed = 1 .. Len(listed) /\ DOMAIN worker = 1 .. Len(worker)
        /\ worker \in Seq({"running", "got", "error"})
    BY ElementsOf DEF PublisherTypeOK
  <2>2. CASE Return
    <3>1. Len(worker) = Len(listed) /\ worker' = worker /\ listed' = listed
      BY <2>2 DEF Return, fetching
    <3>2. \A i \in DOMAIN worker : ~Working(i)
      BY <2>2 DEF Return
    <3> QED BY <2>1, <3>1, <3>2 DEF Working
  <2>3. CASE pc = "returned"
    <3>1. \A i \in DOMAIN listed : i \in DOMAIN worker /\ ~Working(i)
      BY <2>3 DEF EveryDetailAccounted
    <3>2. listed' = listed /\ ~ListPage /\ ~Spawn
      BY <2>3
      DEF PublisherNext, publisherVars, Create, Delete, ChangeLifecycle, Changing, Listing, ListPage,
          RetryPage, ListFails, Spawn, Detail, RetryDetail, EndDetail, Return
    <3>3. CASE \E i \in DOMAIN worker : Detail(i)
      <4>1. PICK i \in DOMAIN worker : RetryDetail(i) \/ \E o \in {"got", "error"} : EndDetail(i, o)
        BY <3>3 DEF Detail
      <4>2. DOMAIN worker' = DOMAIN worker
        BY <4>1 DEF RetryDetail, EndDetail
      <4>3. \A j \in DOMAIN worker : worker'[j] = "running" => worker[j] = "running"
        BY <4>1 DEF RetryDetail, EndDetail
      <4> QED BY <3>1, <3>2, <4>2, <4>3 DEF Working
    <3>4. CASE worker' = worker
      BY <3>1, <3>2, <3>4 DEF Working
    <3>5. (\E i \in DOMAIN worker : Detail(i)) \/ worker' = worker
      BY <3>2
      DEF PublisherNext, publisherVars, fetching, Create, Delete, ChangeLifecycle, Changing, Listing,
          RetryPage, ListFails, Return
    <3> QED BY <3>3, <3>4, <3>5
  <2>4. Return \/ pc = "returned"
    BY DEF PublisherNext, publisherVars, Create, Delete, ChangeLifecycle, Changing, Listing, ListPage,
           RetryPage, ListFails, Spawn, Detail, RetryDetail, EndDetail
  <2> QED BY <2>2, <2>3, <2>4
<1> QED BY <1>1, <1>2, PublisherTypes, PTL DEF PublisherSpec

----------------------------------------------------------------------------
(* The two calls of phase 2. *)

\* Nothing is listed before the first page.
NothingListedYet == offset = 0 => listed = <<>>

LEMMA FirstPageIsFirst == PublisherSpec => []NothingListedYet
<1>1. PublisherInit => NothingListedYet
  BY DEF PublisherInit, NothingListedYet
<1>2. PublisherTypeOK /\ NothingListedYet /\ [PublisherNext]_publisherVars => NothingListedYet'
  <2> SUFFICES ASSUME PublisherTypeOK, NothingListedYet, [PublisherNext]_publisherVars
               PROVE  NothingListedYet'
    OBVIOUS
  <2>1. CASE ListPage
    <3>1. offset' = offset + PageSize /\ offset \in Nat /\ PageSize \in Nat \ {0}
      BY <2>1, PublisherAssumption DEF ListPage, NextOffset, PublisherTypeOK
    <3>2. offset' # 0
      BY <3>1
    <3> QED BY <3>2 DEF NothingListedYet
  <2>2. CASE UNCHANGED <<offset, listed>>
    BY <2>2 DEF NothingListedYet
  <2> QED
    BY <2>1, <2>2 DEF PublisherNext, Create, Delete, ChangeLifecycle, Changing, Listing, RetryPage,
       ListFails, Spawn, Detail, RetryDetail, EndDetail, Return, publisherVars
<1> QED BY <1>1, <1>2, PublisherTypes, PTL DEF PublisherSpec

\* A page is a step of the listing: the whole of it, if it is the only one.
LEMMA PageIsListing ==
    ASSUME PublisherTypeOK, NothingListedYet, ListPage
    PROVE  Policy!Gather \/ Policy!ListPublishedAPIs
<1> DEFINE n == Len(catalogue)
<1>1. /\ catalogue \in Seq(Api) /\ listed \in Seq(Api) /\ n \in Nat /\ offset \in Nat
      /\ published \subseteq ToSet(catalogue) /\ ToSet(catalogue) = {catalogue[i] : i \in 1 .. n}
      /\ PageSize \in Nat \ {0}
  BY ElementsOf, PublisherAssumption DEF PublisherTypeOK
<1>2. /\ pc = "list" /\ UNCHANGED <<catalogue, published, worker>>
      /\ listed' = listed \o SetToSeq(Kept)
      /\ offset' = offset + PageSize
      /\ pc' = IF offset + PageSize >= n THEN "fetch" ELSE "list"
  BY DEF ListPage, list, fetching, NextOffset, LastPage
<1>3. /\ SetToSeq(Kept) \in Seq(Api) /\ ToSet(SetToSeq(Kept)) = Kept
      /\ \A a \in Kept : a \in Api
      /\ \A a : a \in Kept <=>
            /\ a \in published
            /\ \E i \in 1 .. n : offset < i /\ i <= offset + PageSize /\ catalogue[i] = a
  BY <1>1, PageKeeps
<1>4. ToSet(listed') = ToSet(listed) \cup Kept /\ ToSet(listed') \in SUBSET Api
  <2>1. ToSet(listed) \subseteq Api
    BY <1>1, ElementsOf
  <2>2. ToSet(listed \o SetToSeq(Kept)) = ToSet(listed) \cup ToSet(SetToSeq(Kept))
    BY <1>1, <1>3, JoinedOnce
  <2> QED BY <1>2, <1>3, <2>1, <2>2
<1>5. /\ Ended("got") = {} /\ Ended("error") = {}
      /\ Ended("got")' = {} /\ Ended("error")' = {}
  BY <1>2 DEF Ended
<1>6. OnePage' = FALSE
  <2>1. offset' # 0
    BY <1>1, <1>2
  <2> QED BY <2>1 DEF OnePage
<1>7. CASE OnePage
  <2>1. offset = 0 /\ n <= PageSize /\ listed = <<>>
    BY <1>7 DEF OnePage, NothingListedYet
  <2>2. Kept = published
    <3>1. \A i \in 1 .. n : offset < i /\ i <= offset + PageSize
      BY <1>1, <2>1
    <3> QED BY <1>1, <1>3, <3>1
  <2>3. ToSet(listed) = {}
    BY <2>1 DEF ToSet
  <2>4. pc' = "fetch" /\ ToSet(listed') = published
    BY <1>1, <1>2, <1>4, <2>1, <2>2, <2>3
  <2> QED BY <1>2, <1>5, <1>6, <1>7, <2>4 DEF Policy!ListPublishedAPIs
<1>8. CASE ~OnePage
  <2>1. CASE pc' = "fetch"
    BY <1>2, <1>4, <1>5, <1>6, <1>8, <2>1 DEF Policy!ListPublishedAPIs
  <2>2. CASE pc' = "list"
    <3>1. OnePage' = OnePage
      BY <1>6, <1>8 DEF OnePage
    <3> QED BY <1>2, <1>4, <1>5, <1>8, <2>2, <3>1 DEF Policy!Gather
  <2> QED BY <1>2, <2>1, <2>2
<1> QED BY <1>7, <1>8

\* What is returned covers what was listed.
LEMMA ReturnIsFetch ==
    ASSUME PublisherTypeOK, Return
    PROVE  Policy!FetchDetails
<1>1. /\ DOMAIN listed = 1 .. Len(listed) /\ DOMAIN worker = 1 .. Len(worker)
      /\ worker \in Seq({"running", "got", "error"})
  BY ElementsOf DEF PublisherTypeOK
<1>2. /\ pc = "fetch" /\ pc' = "returned" /\ Len(worker) = Len(listed)
      /\ UNCHANGED <<catalogue, published, offset, listed, worker>>
      /\ \A i \in DOMAIN worker : worker[i] \in {"got", "error"}
  BY <1>1 DEF Return, Working, list, fetching
<1>3. /\ Ended("got")' = {listed[i] : i \in {j \in DOMAIN worker : worker[j] = "got"}}
      /\ Ended("error")' = {listed[i] : i \in {j \in DOMAIN worker : worker[j] = "error"}}
  BY <1>2 DEF Ended
<1>4. Ended("got")' \cup Ended("error")' = ToSet(listed)
  <2>1. \A i \in DOMAIN worker : listed[i] \in Ended("got")' \cup Ended("error")'
    BY <1>2, <1>3
  <2>2. Ended("got")' \cup Ended("error")' \subseteq {listed[i] : i \in DOMAIN worker}
    BY <1>3
  <2>3. ToSet(listed) = {listed[i] : i \in DOMAIN worker}
    BY <1>1, <1>2 DEF ToSet
  <2> QED BY <2>1, <2>2, <2>3
<1> QED BY <1>2, <1>4 DEF Policy!FetchDetails, OnePage, ToSet

\* Paging, retries, goroutines and the semaphore implement the two calls of
\* phase 2: KeepsFetchPolicy holds for every number of APIs, pages and places.
THEOREM FetchKeepsPolicy == PublisherSpec => KeepsFetchPolicy
<1>1. PublisherInit => Policy!Init
  <2> SUFFICES ASSUME PublisherInit PROVE Policy!Init
    OBVIOUS
  <2>1. PICK S \in SUBSET Api : catalogue = SetToSeq(S)
    BY DEF PublisherInit
  <2>2. ToSet(catalogue) = S
    BY <2>1, SetIsListed, FS_Subset, PublisherAssumption
  <2>3. published \in SUBSET Api /\ pc = "list" /\ listed = <<>>
    BY <2>2 DEF PublisherInit
  <2>4. ToSet(listed) = {} /\ Ended("got") = {} /\ Ended("error") = {}
    BY <2>3 DEF ToSet, Ended
  <2> QED BY <2>3, <2>4 DEF Policy!Init, OnePage
<1>2. PublisherTypeOK /\ PublisherTypeOK' /\ NothingListedYet /\ EveryDetailAccounted
      /\ [PublisherNext]_publisherVars => [Policy!Next]_(Policy!fetchVars)
  <2> SUFFICES ASSUME PublisherTypeOK, PublisherTypeOK', NothingListedYet, EveryDetailAccounted,
                      [PublisherNext]_publisherVars
               PROVE  [Policy!Next]_(Policy!fetchVars)
    OBVIOUS
  <2>1. CASE Change
    <3>1. UNCHANGED <<pc, offset, listed, worker>>
      BY <2>1 DEF Change, Create, Delete, ChangeLifecycle, Changing, fetching
    <3>2. published' \in SUBSET Api
      BY ElementsOf DEF PublisherTypeOK
    <3>3. /\ Ended("got")' = Ended("got") /\ Ended("error")' = Ended("error")
          /\ ToSet(listed') = ToSet(listed)
      BY <3>1 DEF Ended
    <3>4. Policy!Administer
      BY <3>1, <3>2, <3>3 DEF Policy!Administer, OnePage
    <3> QED BY <3>4 DEF Policy!Next
  <2>2. CASE ListPage
    BY <2>2, PageIsListing DEF Policy!Next
  <2>3. CASE ListFails
    <3>1. /\ pc = "list" /\ pc' = "failed"
          /\ UNCHANGED <<catalogue, published, offset, listed, worker>>
      BY <2>3 DEF ListFails, list, fetching
    <3>2. /\ Ended("got") = {} /\ Ended("error") = {}
          /\ Ended("got")' = {} /\ Ended("error")' = {} /\ ToSet(listed') = ToSet(listed)
      BY <3>1 DEF Ended
    <3>3. Policy!GiveUp
      BY <3>1, <3>2 DEF Policy!GiveUp, OnePage
    <3> QED BY <3>3 DEF Policy!Next
  <2>4. CASE Return
    BY <2>4, ReturnIsFetch DEF Policy!Next
  <2>5. CASE Spawn \/ \E i \in DOMAIN worker : Detail(i)
    <3>1. UNCHANGED <<pc, offset, listed, catalogue, published>>
      BY <2>5 DEF Spawn, Detail, RetryDetail, EndDetail, list
    <3>2. /\ Ended("got")' = Ended("got") /\ Ended("error")' = Ended("error")
      <4>1. CASE pc # "returned"
        BY <3>1, <4>1 DEF Ended
      <4>2. CASE pc = "returned"
        <5>1. worker' = worker
          <6>1. DOMAIN listed = 1 .. Len(listed) /\ DOMAIN worker = 1 .. Len(worker)
                /\ Len(worker) <= Len(listed) /\ Len(worker) \in Nat /\ Len(listed) \in Nat
            BY ElementsOf DEF PublisherTypeOK
          <6>2. \A i \in DOMAIN worker : ~Working(i)
            BY <4>2, <6>1 DEF EveryDetailAccounted
          <6> QED BY <2>5, <4>2, <6>2 DEF Spawn, Detail, RetryDetail, EndDetail
        <5> QED BY <3>1, <5>1 DEF Ended
      <4> QED BY <4>1, <4>2
    <3>3. UNCHANGED Policy!fetchVars
      BY <3>1, <3>2 DEF Policy!fetchVars, OnePage, ToSet
    <3> QED BY <3>3
  <2>6. CASE RetryPage \/ UNCHANGED publisherVars
    <3>1. UNCHANGED <<pc, offset, listed, catalogue, published, worker>>
      BY <2>6 DEF RetryPage, publisherVars, list, fetching
    <3>2. UNCHANGED Policy!fetchVars
      BY <3>1 DEF Policy!fetchVars, OnePage, ToSet, Ended
    <3> QED BY <3>2
  <2> QED BY <2>1, <2>2, <2>3, <2>4, <2>5, <2>6 DEF PublisherNext, Listing, Change
<1>3. PublisherSpec => [](PublisherTypeOK /\ NothingListedYet /\ EveryDetailAccounted)
  BY PublisherTypes, FirstPageIsFirst, NoDetailLost, PTL
<1> QED BY <1>1, <1>2, <1>3, PTL DEF PublisherSpec, KeepsFetchPolicy, Policy!FetchSpec

----------------------------------------------------------------------------
(* The end of a run: what a run may still do is a finite set that every one *)
(* of its steps makes smaller, and it never waits for a place that nobody   *)
(* will give back.                                                          *)

\* The listing has at most this length while the run goes on.
Reach == Len(catalogue) + (MaxChanges - changes)

\* The requests of a listing that may follow: by offset and attempt.
PagesAhead ==
    {p \in ({offset} \cup offset .. Reach) \X (1 .. MaxAttempts) :
         p[1] = offset => p[2] >= attempt}

\* What FetchDetails may still do: return, and for each API that was listed
\* start a goroutine (attempt 0) and make attempts that it has not begun or is
\* making now.
DetailsAhead ==
    {<<0, 0>>} \cup
    {p \in (1 .. Len(listed)) \X (0 .. MaxAttempts) :
         p[1] \in DOMAIN worker => Working(p[1]) /\ p[2] >= tries[p[1]]}

Ahead ==
    CASE pc = "list"  -> PagesAhead
      [] pc = "fetch" -> DetailsAhead
      [] OTHER        -> {}

\* A step of the administrators leaves the run no more to do; a step of the run
\* ends its listing or leaves it less to do.
EveryStepCounts ==
    [][\/ Change /\ pc' = pc /\ Ahead' \subseteq Ahead
       \/ pc = "list" /\ pc' = "fetch"
       \/ Ahead' \subseteq Ahead /\ Ahead' # Ahead]_publisherVars

\* The run has something to do until it has ended, and then it has nothing.
AheadIsFinite ==
    /\ IsFiniteSet(Ahead)
    /\ Ahead = {} <=> pc \in {"returned", "failed"}

\* Whatever the goroutines did with their places: the next one finds a place,
\* or one runs that gives its place back, or the run returns.
FetchNeverBlocks ==
    pc = "fetch" =>
        \/ Len(worker) < Len(listed) /\ free > 0
        \/ \E i \in DOMAIN worker : Working(i)
        \/ Len(worker) = Len(listed) /\ \A i \in DOMAIN worker : ~Working(i)

\* Goroutines are started by FetchDetails only.
QuietListing == pc \in {"list", "failed"} => worker = <<>>

LEMMA ListingIsQuiet == PublisherSpec => []QuietListing
<1>1. PublisherInit => QuietListing
  BY DEF PublisherInit, QuietListing
<1>2. QuietListing /\ [PublisherNext]_publisherVars => QuietListing'
  <2> SUFFICES ASSUME QuietListing, [PublisherNext]_publisherVars
               PROVE  QuietListing'
    OBVIOUS
  <2>1. CASE Change \/ Listing \/ Return \/ UNCHANGED publisherVars
    <3>1. worker' = worker
      BY <2>1 DEF Change, Create, Delete, ChangeLifecycle, Changing, Listing, ListPage, RetryPage,
                  ListFails, Return, fetching, publisherVars
    <3>2. pc' \in {"list", "failed"} => pc \in {"list", "failed"}
      BY <2>1 DEF Change, Create, Delete, ChangeLifecycle, Changing, Listing, ListPage, RetryPage,
                  ListFails, Return, publisherVars
    <3> QED BY <3>1, <3>2 DEF QuietListing
  <2>2. CASE Spawn
    BY <2>2 DEF Spawn, QuietListing
  <2>3. ASSUME NEW i \in DOMAIN worker, Detail(i)
        PROVE  QuietListing'
    <3>1. pc' = pc
      BY <2>3 DEF Detail, RetryDetail, EndDetail
    <3>2. worker # <<>>
      OBVIOUS
    <3> QED BY <3>1, <3>2 DEF QuietListing
  <2> QED BY <2>1, <2>2, <2>3 DEF PublisherNext, Change
<1> QED BY <1>1, <1>2, PTL DEF PublisherSpec

\* However the list changes, it stays within its reach.
LEMMA ReachShrinks ==
    ASSUME TypesOfList, Change
    PROVE  Reach' \in Int /\ Reach' <= Reach
<1>1. /\ catalogue \in Seq(Api) /\ Len(catalogue) \in Nat
      /\ changes \in Nat /\ MaxChanges \in Nat /\ changes' = changes + 1
  BY PublisherAssumption DEF TypesOfList, Change, Create, Delete, ChangeLifecycle, Changing
<1>2. Len(catalogue') \in Nat /\ Len(catalogue') <= Len(catalogue) + 1
  <2>1. ASSUME NEW a \in Api, Create(a)
        PROVE  Len(catalogue') = Len(catalogue) + 1
    <3>1. PICK p \in 1 .. Len(catalogue) + 1 : catalogue' = InsertAt(catalogue, p, a)
      BY <2>1 DEF Create
    <3> QED BY <1>1, <3>1, ElementInserted
  <2>2. ASSUME NEW a \in Api, Delete(a)
        PROVE  Len(catalogue') = Len(catalogue) - 1 /\ Len(catalogue) # 0
    <3>1. PICK p \in 1 .. Len(catalogue) : catalogue' = RemoveAt(catalogue, p)
      BY <1>1, <2>2 DEF Delete
    <3> QED BY <1>1, <3>1, ElementRemoved
  <2>3. ASSUME NEW a \in Api, ChangeLifecycle(a)
        PROVE  catalogue' = catalogue
    BY <2>3 DEF ChangeLifecycle
  <2> QED BY <1>1, <2>1, <2>2, <2>3 DEF Change
<1> QED BY <1>1, <1>2 DEF Reach

\* A change of the list leaves the run no more to do.
LEMMA ChangeLeavesNoMore ==
    ASSUME TypesOfList, TypesOfPaging, Change
    PROVE  pc' = pc /\ Ahead' \subseteq Ahead
<1>1. UNCHANGED <<pc, offset, attempt, listed, worker, tries>>
  BY DEF Change, Create, Delete, ChangeLifecycle, Changing, fetching
<1>2. offset .. Reach' \subseteq offset .. Reach
  <2>1. Reach \in Int
    BY PublisherAssumption DEF Reach, TypesOfList
  <2> QED BY <2>1, ReachShrinks DEF TypesOfPaging
<1>3. PagesAhead' \subseteq PagesAhead
  BY <1>1, <1>2 DEF PagesAhead
<1>4. DetailsAhead' = DetailsAhead
  BY <1>1 DEF DetailsAhead, Working
<1> QED BY <1>1, <1>3, <1>4 DEF Ahead

\* So does a request of the listing, or it is the last one.
LEMMA ListingGoesOn ==
    ASSUME TypesOfList, TypesOfPaging, Listing
    PROVE  \/ pc = "list" /\ pc' = "fetch"
           \/ Ahead' \subseteq Ahead /\ Ahead' # Ahead
<1>1. /\ offset \in Nat /\ attempt \in 1 .. MaxAttempts /\ MaxAttempts \in Nat
      /\ PageSize \in Nat \ {0} /\ Len(catalogue) \in Nat
      /\ Reach \in Int /\ Len(catalogue) <= Reach
  BY PublisherAssumption DEF TypesOfList, TypesOfPaging, Reach
<1>2. pc = "list" /\ Ahead = PagesAhead
  BY DEF Listing, ListPage, RetryPage, ListFails, Ahead
<1>3. <<offset, attempt>> \in Ahead
  BY <1>1, <1>2 DEF PagesAhead
<1>4. CASE ListPage /\ pc' = "list"
  <2>1. /\ offset' = offset + PageSize /\ attempt' = 1 /\ Reach' = Reach
        /\ offset' < Len(catalogue)
    BY <1>1, <1>4 DEF ListPage, LastPage, NextOffset, list, Reach
  <2>2. ({offset'} \cup offset' .. Reach') \subseteq (offset .. Reach) \ {offset}
    BY <1>1, <2>1
  <2>3. Ahead' = PagesAhead'
    BY <1>4 DEF Ahead
  <2>4. Ahead' \subseteq Ahead /\ <<offset, attempt>> \notin Ahead'
    BY <1>2, <2>2, <2>3 DEF PagesAhead
  <2> QED BY <1>3, <2>4
<1>5. CASE RetryPage
  <2>1. offset' = offset /\ attempt' = attempt + 1 /\ Reach' = Reach /\ pc' = "list"
    BY <1>2, <1>5 DEF RetryPage, list, Reach
  <2>2. Ahead' = PagesAhead'
    BY <2>1 DEF Ahead
  <2>3. Ahead' \subseteq Ahead /\ <<offset, attempt>> \notin Ahead'
    BY <1>1, <1>2, <2>1, <2>2 DEF PagesAhead
  <2> QED BY <1>3, <2>3
<1>6. CASE ListFails
  <2>1. Ahead' = {}
    BY <1>6 DEF ListFails, Ahead
  <2> QED BY <1>3, <2>1
<1> QED BY <1>2, <1>4, <1>5, <1>6 DEF Listing, ListPage

\* A goroutine is started, makes an attempt or ends: it has less to do, and the
\* others have as much as before.
LEMMA GoroutinesGoOn ==
    ASSUME TypesOfPaging, TypesOfFetching, pc = "fetch",
           Spawn \/ \E i \in DOMAIN worker : Detail(i)
    PROVE  Ahead' \subseteq Ahead /\ Ahead' # Ahead
<1> DEFINE n == Len(worker)
<1>1. /\ worker \in Seq({"running", "got", "error"}) /\ n \in Nat /\ Len(listed) \in Nat
      /\ n <= Len(listed) /\ DOMAIN worker = 1 .. n
      /\ tries \in [1 .. n -> 1 .. MaxAttempts] /\ MaxAttempts \in Nat \ {0}
  BY PublisherAssumption DEF TypesOfPaging, TypesOfFetching
<1>2. pc' = "fetch" /\ listed' = listed
  BY DEF Spawn, Detail, RetryDetail, EndDetail
<1>3. Ahead = DetailsAhead /\ Ahead' = DetailsAhead'
  BY <1>2 DEF Ahead
<1>4. CASE Spawn
  <2>1. /\ DOMAIN worker' = 1 .. n + 1 /\ worker'[n + 1] = "running"
        /\ \A i \in 1 .. n : worker'[i] = worker[i]
    BY <1>1, <1>4 DEF Spawn
  <2>2. tries'[n + 1] = 1 /\ \A i \in 1 .. n : tries'[i] = tries[i]
    <3>1. tries \in Seq(1 .. MaxAttempts) /\ Len(tries) = n
      BY <1>1, FunctionIsSequence
    <3> QED BY <1>4, <3>1 DEF Spawn
  <2>3. n + 1 \in 1 .. Len(listed)
    BY <1>1, <1>4 DEF Spawn
  <2>4. <<n + 1, 0>> \in DetailsAhead /\ <<n + 1, 0>> \notin DetailsAhead'
    BY <1>1, <1>2, <2>1, <2>2, <2>3 DEF DetailsAhead
  <2>5. DetailsAhead' \subseteq DetailsAhead
    BY <1>1, <1>2, <2>1, <2>2 DEF DetailsAhead, Working
  <2> QED BY <1>3, <2>4, <2>5
<1>5. ASSUME NEW i \in DOMAIN worker, Detail(i)
      PROVE  Ahead' \subseteq Ahead /\ Ahead' # Ahead
  <2>1. i \in 1 .. n /\ i \in 1 .. Len(listed) /\ worker[i] = "running" /\ tries[i] \in 1 .. MaxAttempts
    BY <1>1, <1>5 DEF Detail, RetryDetail, EndDetail, Working
  <2>2. <<i, tries[i]>> \in DetailsAhead
    BY <1>1, <2>1 DEF DetailsAhead, Working
  <2>3. CASE RetryDetail(i)
    <3>1. worker' = worker /\ tries'[i] = tries[i] + 1 /\ \A j \in 1 .. n : j # i => tries'[j] = tries[j]
      BY <1>1, <2>1, <2>3 DEF RetryDetail
    <3>2. <<i, tries[i]>> \notin DetailsAhead'
      BY <1>1, <2>1, <3>1 DEF DetailsAhead
    <3>3. DetailsAhead' \subseteq DetailsAhead
      BY <1>1, <1>2, <2>1, <3>1 DEF DetailsAhead, Working
    <3> QED BY <1>3, <2>2, <3>2, <3>3
  <2>4. ASSUME NEW outcome \in {"got", "error"}, EndDetail(i, outcome)
        PROVE  Ahead' \subseteq Ahead /\ Ahead' # Ahead
    <3>1. /\ DOMAIN worker' = 1 .. n /\ tries' = tries /\ worker'[i] # "running"
          /\ \A j \in 1 .. n : j # i => worker'[j] = worker[j]
      BY <1>1, <2>1, <2>4 DEF EndDetail
    <3>2. <<i, tries[i]>> \notin DetailsAhead'
      BY <2>1, <3>1 DEF DetailsAhead, Working
    <3>3. DetailsAhead' \subseteq DetailsAhead
      BY <1>1, <1>2, <3>1 DEF DetailsAhead, Working
    <3> QED BY <1>3, <2>2, <3>2, <3>3
  <2> QED BY <1>5, <2>3, <2>4 DEF Detail
<1> QED BY <1>4, <1>5

\* Pages, retries, goroutines and the return of a run are finitely many,
\* whatever the API Manager answers and whatever its administrators do: only
\* their bound MaxChanges, or a list that no longer grows, is assumed.
THEOREM RunStepsRunOut == PublisherSpec => EveryStepCounts
<1>1. PublisherTypeOK /\ QuietListing /\ EveryDetailAccounted /\ [PublisherNext]_publisherVars
      => [\/ Change /\ pc' = pc /\ Ahead' \subseteq Ahead
          \/ pc = "list" /\ pc' = "fetch"
          \/ Ahead' \subseteq Ahead /\ Ahead' # Ahead]_publisherVars
  <2> SUFFICES ASSUME TypesOfList, TypesOfPaging, TypesOfFetching, QuietListing,
                      EveryDetailAccounted, PublisherNext
               PROVE  \/ Change /\ pc' = pc /\ Ahead' \subseteq Ahead
                      \/ pc = "list" /\ pc' = "fetch"
                      \/ Ahead' \subseteq Ahead /\ Ahead' # Ahead
    BY DEF PublisherTypeOK, TypesOfList, TypesOfPaging, TypesOfFetching
  <2>1. CASE Change
    BY <2>1, ChangeLeavesNoMore
  <2>2. CASE Listing
    BY <2>2, ListingGoesOn
  <2>3. CASE Spawn
    BY <2>3, GoroutinesGoOn DEF Spawn
  <2>4. ASSUME NEW i \in DOMAIN worker, Detail(i)
        PROVE  Ahead' \subseteq Ahead /\ Ahead' # Ahead
    <3>1. Working(i) /\ worker # <<>>
      BY <2>4 DEF Detail, RetryDetail, EndDetail
    <3>2. i \in DOMAIN listed
      BY ElementsOf DEF TypesOfPaging, TypesOfFetching
    <3>3. pc = "fetch"
      BY <3>1, <3>2 DEF QuietListing, EveryDetailAccounted, TypesOfPaging
    <3> QED BY <2>4, <3>3, GoroutinesGoOn
  <2>5. CASE Return
    <3>1. <<0, 0>> \in Ahead /\ Ahead' = {}
      BY <2>5 DEF Return, Ahead, DetailsAhead
    <3> QED BY <3>1
  <2> QED BY <2>1, <2>2, <2>3, <2>4, <2>5 DEF PublisherNext, Change
<1> QED
  BY <1>1, PublisherTypes, ListingIsQuiet, NoDetailLost, PTL DEF PublisherSpec, EveryStepCounts

\* What is left is a finite set at any time, and empty only at the end.
THEOREM RunHasAnEnd == PublisherSpec => []AheadIsFinite
<1>1. PublisherTypeOK => AheadIsFinite
  <2> SUFFICES ASSUME TypesOfList, TypesOfPaging, TypesOfFetching
               PROVE  AheadIsFinite
    BY DEF PublisherTypeOK, TypesOfList, TypesOfPaging, TypesOfFetching
  <2>1. /\ offset \in Nat /\ attempt \in 1 .. MaxAttempts /\ MaxAttempts \in Nat
        /\ Reach \in Int /\ Len(listed) \in Nat
    BY PublisherAssumption DEF TypesOfList, TypesOfPaging, Reach
  <2>2. IsFiniteSet(PagesAhead)
    <3>1. IsFiniteSet(offset .. Reach) /\ IsFiniteSet(1 .. MaxAttempts)
      <4>1. offset \in Int /\ Reach \in Int /\ MaxAttempts \in Int
        BY <2>1
      <4>2. \A a, b \in Int : IsFiniteSet(a .. b)
        BY FS_Interval
      <4> QED BY <4>1, <4>2
    <3>2. IsFiniteSet({offset} \cup offset .. Reach)
      <4>1. IsFiniteSet({offset})
        BY FS_Singleton
      <4> QED BY <3>1, <4>1, FS_Union
    <3>3. IsFiniteSet(({offset} \cup offset .. Reach) \X (1 .. MaxAttempts))
      BY <3>1, <3>2, FS_Product
    <3> QED BY <3>3, FS_Subset DEF PagesAhead
  <2>3. IsFiniteSet(DetailsAhead)
    <3>1. IsFiniteSet(1 .. Len(listed)) /\ IsFiniteSet(0 .. MaxAttempts)
      BY <2>1, FS_Interval
    <3>2. IsFiniteSet((1 .. Len(listed)) \X (0 .. MaxAttempts))
      BY <3>1, FS_Product
    <3> DEFINE D == {p \in (1 .. Len(listed)) \X (0 .. MaxAttempts) :
                        p[1] \in DOMAIN worker => Working(p[1]) /\ p[2] >= tries[p[1]]}
    <3>3. IsFiniteSet(D)
      BY <3>2, FS_Subset
    <3>4. IsFiniteSet({<<0, 0>>})
      BY FS_Singleton
    <3>5. DetailsAhead = {<<0, 0>>} \cup D
      BY DEF DetailsAhead
    <3> HIDE DEF D
    <3> QED BY <3>3, <3>4, <3>5, FS_Union
  <2>4. <<offset, attempt>> \in PagesAhead /\ <<0, 0>> \in DetailsAhead
    BY <2>1 DEF PagesAhead, DetailsAhead
  <2>5. IsFiniteSet({})
    BY FS_EmptySet
  <2> QED BY <2>2, <2>3, <2>4, <2>5 DEF AheadIsFinite, Ahead, TypesOfPaging
<1> QED BY <1>1, PublisherTypes, PTL

\* No goroutine and no loop waits for a place forever, for any number of
\* places, goroutines and failures.
THEOREM PlacesComeBack == PublisherSpec => []FetchNeverBlocks
<1>1. PublisherTypeOK => FetchNeverBlocks
  <2> SUFFICES ASSUME TypesOfPaging, TypesOfFetching, \A i \in DOMAIN worker : ~Working(i)
               PROVE  Len(worker) = Len(listed) \/ (Len(worker) < Len(listed) /\ free > 0)
    BY DEF PublisherTypeOK, TypesOfPaging, TypesOfFetching, FetchNeverBlocks
  <2>1. {i \in DOMAIN worker : Working(i)} = {}
    OBVIOUS
  <2>2. free = Concurrency
    <3>1. Cardinality({i \in DOMAIN worker : Working(i)}) = 0
      BY <2>1, FS_EmptySet
    <3>2. free = Concurrency - Cardinality({i \in DOMAIN worker : Working(i)})
      BY DEF TypesOfFetching
    <3> QED BY <3>1, <3>2, PublisherAssumption
  <2>3. Len(worker) \in Nat /\ Len(listed) \in Nat /\ Len(worker) <= Len(listed)
    BY DEF TypesOfPaging, TypesOfFetching
  <2> QED BY <2>2, <2>3, PublisherAssumption
<1> QED BY <1>1, PublisherTypes, PTL
=============================================================================
