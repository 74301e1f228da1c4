--------------------------- MODULE TokenCacheProofs ---------------------------
(****************************************************************************)
(* Proofs about the token cache of the BFF: the map and the list agree, the *)
(* list is in the order of use, and no entry outlives the validity of its   *)
(* token by more than the cache promises.                                   *)
(****************************************************************************)
EXTENDS TokenCache, FiniteSetTheorems, SequenceTheorems, TLAPS

----------------------------------------------------------------------------
(* The list. *)

\* An element at a place of a sequence is removed: those behind it move up.
LEMMA ElementRemoved ==
    ASSUME NEW S, NEW s \in Seq(S), NEW p \in 1 .. Len(s)
    PROVE  /\ RemoveAt(s, p) \in Seq(S)
           /\ Len(RemoveAt(s, p)) = Len(s) - 1
           /\ \A i \in 1 .. Len(s) - 1 :
                 RemoveAt(s, p)[i] = IF i < p THEN s[i] ELSE s[i + 1]
<1> DEFINE before == SubSeq(s, 1, p - 1)
           behind == SubSeq(s, p + 1, Len(s))
<1>1. /\ before \in Seq(S) /\ Len(before) = p - 1
      /\ \A i \in 1 .. p - 1 : before[i] = s[i]
  OBVIOUS
<1>2. /\ behind \in Seq(S) /\ Len(behind) = Len(s) - p
      /\ \A i \in 1 .. Len(s) - p : behind[i] = s[i + p]
  OBVIOUS
<1> HIDE DEF before, behind
<1>3. /\ before \o behind \in Seq(S)
      /\ Len(before \o behind) = Len(before) + Len(behind)
      /\ \A i \in 1 .. Len(before) + Len(behind) :
            (before \o behind)[i] =
                IF i <= Len(before) THEN before[i] ELSE behind[i - Len(before)]
  BY <1>1, <1>2, ConcatProperties
<1>4. RemoveAt(s, p) = before \o behind
  BY DEF RemoveAt, before, behind
<1>5. ASSUME NEW i \in 1 .. Len(s) - 1
      PROVE  (before \o behind)[i] = IF i < p THEN s[i] ELSE s[i + 1]
  <2>1. (before \o behind)[i] = IF i <= p - 1 THEN before[i] ELSE behind[i - (p - 1)]
    BY <1>1, <1>2, <1>3
  <2>2. CASE i < p
    BY <2>1, <2>2, <1>1
  <2>3. CASE ~(i < p)
    <3>1. i - (p - 1) \in 1 .. Len(s) - p /\ (i - (p - 1)) + p = i + 1
      BY <2>3
    <3>2. behind[i - (p - 1)] = s[(i - (p - 1)) + p]
      BY <3>1, <1>2
    <3>3. (before \o behind)[i] = behind[i - (p - 1)]
      <4>1. ~(i <= p - 1)
        BY <2>3
      <4> QED BY <2>1, <4>1
    <3> QED BY <2>3, <3>1, <3>2, <3>3
  <2> QED BY <2>2, <2>3
<1>6. Len(before \o behind) = Len(s) - 1
  BY <1>1, <1>2, <1>3
<1> QED BY <1>3, <1>4, <1>5, <1>6

\* The list without repetition, and the map.
LEMMA ListAndMap ==
    ASSUME CacheConsistent
    PROVE  /\ lru \in Seq(Token) /\ Len(lru) \in Nat /\ Len(lru) <= Capacity
           /\ DOMAIN lru = 1 .. Len(lru)
           /\ items = {lru[i] : i \in 1 .. Len(lru)}
           /\ \A i, j \in 1 .. Len(lru) : lru[i] = lru[j] => i = j
<1>1. lru \in Seq(Token) /\ Len(lru) <= Capacity /\ items = ToSet(lru)
  BY DEF CacheConsistent
<1>2. Len(lru) \in Nat /\ DOMAIN lru = 1 .. Len(lru)
  BY <1>1
<1>3. items = {lru[i] : i \in 1 .. Len(lru)}
  BY <1>1, <1>2 DEF ToSet
<1> QED BY <1>1, <1>2, <1>3 DEF CacheConsistent

\* The map knows the place of every token that is cached.
LEMMA PlaceIsKnown ==
    ASSUME CacheConsistent, NEW t \in items
    PROVE  Place(t) \in 1 .. Len(lru) /\ lru[Place(t)] = t
<1>1. \E i \in DOMAIN lru : lru[i] = t
  BY ListAndMap
<1> QED BY <1>1, ListAndMap DEF Place

\* What the list s and the map agree on.
Agree(s, keys) ==
    /\ s \in Seq(Token) /\ Len(s) <= Capacity
    /\ keys = ToSet(s)
    /\ \A i, j \in 1 .. Len(s) : s[i] = s[j] => i = j

\* s keeps tokens of the list, in their order.
Sublist(s) ==
    /\ \A i \in 1 .. Len(s) : \E k \in 1 .. Len(lru) : s[i] = lru[k]
    /\ \A i, j \in 1 .. Len(s) : i < j =>
          \E k, l \in 1 .. Len(lru) : k < l /\ s[i] = lru[k] /\ s[j] = lru[l]

\* A token is removed from the list and the map.
LEMMA TokenRemoved ==
    ASSUME CacheConsistent, NEW t \in items
    PROVE  /\ Agree(Without(t), items \ {t})
           /\ Len(Without(t)) = Len(lru) - 1
           /\ Sublist(Without(t))
<1> DEFINE s == Without(t)
           p == Place(t)
           From(i) == IF i < p THEN i ELSE i + 1
<1>1. /\ lru \in Seq(Token) /\ Len(lru) \in Nat /\ Len(lru) <= Capacity
      /\ items = {lru[i] : i \in 1 .. Len(lru)}
      /\ \A i, j \in 1 .. Len(lru) : lru[i] = lru[j] => i = j
  BY ListAndMap
<1>2. p \in 1 .. Len(lru) /\ lru[p] = t
  BY PlaceIsKnown
<1>3. /\ s \in Seq(Token) /\ Len(s) = Len(lru) - 1
      /\ \A i \in 1 .. Len(lru) - 1 : s[i] = IF i < p THEN lru[i] ELSE lru[i + 1]
  BY <1>1, <1>2, ElementRemoved DEF Without
<1> HIDE DEF s, p
<1>4. \A i \in 1 .. Len(s) : From(i) \in 1 .. Len(lru) /\ s[i] = lru[From(i)] /\ From(i) # p
  BY <1>1, <1>2, <1>3
<1>5. \A i, j \in 1 .. Len(s) : i < j => From(i) < From(j)
  BY <1>1, <1>2, <1>3
<1>6. \A k \in 1 .. Len(lru) : k # p => \E i \in 1 .. Len(s) : From(i) = k
  <2> SUFFICES ASSUME NEW k \in 1 .. Len(lru), k # p
               PROVE  \E i \in 1 .. Len(s) : From(i) = k
    OBVIOUS
  <2>1. CASE k < p
    BY <2>1, <1>1, <1>2, <1>3
  <2>2. CASE k > p
    <3>1. k - 1 \in 1 .. Len(s) /\ From(k - 1) = k
      BY <2>2, <1>1, <1>2, <1>3
    <3> QED BY <3>1
  <2> QED BY <2>1, <2>2, <1>2
<1> HIDE DEF From
<1>7. items \ {t} = {s[i] : i \in 1 .. Len(s)}
  <2>1. \A i \in 1 .. Len(s) : s[i] \in items \ {t}
    BY <1>1, <1>2, <1>4
  <2>2. ASSUME NEW u \in items \ {t}
        PROVE  \E i \in 1 .. Len(s) : s[i] = u
    <3>1. PICK k \in 1 .. Len(lru) : lru[k] = u
      BY <1>1
    <3>2. k # p
      BY <1>2, <3>1
    <3> QED BY <1>4, <1>6, <3>1, <3>2
  <2> QED BY <2>1, <2>2
<1>8. Sublist(s)
  BY <1>4, <1>5 DEF Sublist
<1>9. \A i, j \in 1 .. Len(s) : s[i] = s[j] => i = j
  <2>1. \A i, j \in 1 .. Len(s) : s[i] = s[j] => From(i) = From(j)
    BY <1>1, <1>4
  <2>2. Len(s) \in Nat
    BY <1>3
  <2>3. \A i, j \in 1 .. Len(s) : From(i) = From(j) => i = j
    BY <1>1, <1>2, <1>3 DEF From
  <2> QED BY <2>1, <2>3
<1>10. DOMAIN s = 1 .. Len(s) /\ Len(s) <= Capacity
  BY <1>1, <1>3, TokenCacheAssumption
<1> QED BY <1>3, <1>7, <1>8, <1>9, <1>10, TokenCacheAssumption DEF Agree, ToSet, s

\* A token is put in front of a list that does not hold it.
LEMMA TokenInFront ==
    ASSUME NEW t \in Token, NEW s, NEW keys, Agree(s, keys), t \notin keys,
           Len(s) < Capacity
    PROVE  /\ Agree(<<t>> \o s, keys \cup {t})
           /\ Len(<<t>> \o s) = Len(s) + 1
           /\ (<<t>> \o s)[1] = t
           /\ \A i \in 2 .. Len(s) + 1 : (<<t>> \o s)[i] = s[i - 1]
<1> DEFINE r == <<t>> \o s
<1>1. /\ s \in Seq(Token) /\ Len(s) \in Nat
      /\ keys = {s[i] : i \in 1 .. Len(s)}
      /\ \A i, j \in 1 .. Len(s) : s[i] = s[j] => i = j
  BY DEF Agree, ToSet
<1>2. /\ r \in Seq(Token) /\ Len(r) = Len(s) + 1 /\ r[1] = t
      /\ \A i \in 2 .. Len(s) + 1 : r[i] = s[i - 1]
  BY <1>1
<1> HIDE DEF r
<1>3. keys \cup {t} = {r[i] : i \in 1 .. Len(r)}
  <2>1. \A i \in 1 .. Len(s) : i + 1 \in 2 .. Len(s) + 1 /\ r[i + 1] = s[i]
    BY <1>1, <1>2
  <2>2. \A i \in 1 .. Len(r) : i # 1 => i \in 2 .. Len(s) + 1 /\ i - 1 \in 1 .. Len(s)
    BY <1>1, <1>2
  <2>3. 1 \in 1 .. Len(r) /\ 2 .. Len(s) + 1 \subseteq 1 .. Len(r)
    BY <1>1, <1>2
  <2>4. \A i \in 1 .. Len(r) : r[i] \in keys \cup {t}
    BY <1>1, <1>2, <2>2
  <2>5. \A u \in keys \cup {t} : \E i \in 1 .. Len(r) : r[i] = u
    <3> SUFFICES ASSUME NEW u \in keys \cup {t}
                 PROVE  \E i \in 1 .. Len(r) : r[i] = u
      OBVIOUS
    <3>1. CASE u = t
      BY <3>1, <1>2, <2>3
    <3>2. CASE u \in keys
      <4>1. PICK k \in 1 .. Len(s) : s[k] = u
        BY <3>2, <1>1
      <4> QED BY <4>1, <2>1, <2>3
    <3> QED BY <3>1, <3>2
  <2> QED BY <2>4, <2>5
<1>4. \A i, j \in 1 .. Len(r) : r[i] = r[j] => i = j
  <2> SUFFICES ASSUME NEW i \in 1 .. Len(r), NEW j \in 1 .. Len(r), r[i] = r[j]
               PROVE  i = j
    OBVIOUS
  <2>1. \A k \in 2 .. Len(s) + 1 : k - 1 \in 1 .. Len(s) /\ r[k] \in keys
    BY <1>1, <1>2
  <2>2. CASE i = 1 \/ j = 1
    BY <2>1, <2>2, <1>2, <1>1
  <2>3. CASE i # 1 /\ j # 1
    <3>1. i \in 2 .. Len(s) + 1 /\ j \in 2 .. Len(s) + 1
      BY <2>3, <1>1, <1>2
    <3>2. s[i - 1] = s[j - 1]
      BY <3>1, <1>2
    <3>3. i - 1 = j - 1
      BY <3>1, <3>2, <2>1, <1>1
    <3> QED BY <3>1, <3>3, <1>1
  <2> QED BY <2>2, <2>3
<1>5. DOMAIN r = 1 .. Len(r) /\ Len(r) <= Capacity
  BY <1>1, <1>2, TokenCacheAssumption
<1> QED BY <1>2, <1>3, <1>4, <1>5 DEF Agree, ToSet, r

\* The element at the back is removed.
LEMMA FrontRemoves ==
    ASSUME NEW S, NEW s \in Seq(S), s # <<>>
    PROVE  Front(s) = RemoveAt(s, Len(s))
<1>1. Len(s) \in 1 .. Len(s) /\ Len(s) \in Nat
  OBVIOUS
<1>2. /\ Front(s) \in Seq(S) /\ Len(Front(s)) = Len(s) - 1
      /\ \A i \in 1 .. Len(s) - 1 : Front(s)[i] = s[i]
  <2> DEFINE m == Len(s) - 1
  <2>1. m \in Nat /\ \A i \in 1 .. m : s[i] \in S
    BY <1>1
  <2> HIDE DEF m
  <2>2. /\ SubSeq(s, 1, m) \in Seq(S) /\ Len(SubSeq(s, 1, m)) = m
        /\ \A i \in 1 .. m : SubSeq(s, 1, m)[i] = s[i]
    BY <2>1
  <2> QED BY <2>2 DEF m, Front
<1>3. /\ RemoveAt(s, Len(s)) \in Seq(S) /\ Len(RemoveAt(s, Len(s))) = Len(s) - 1
      /\ \A i \in 1 .. Len(s) - 1 : RemoveAt(s, Len(s))[i] = s[i]
  BY <1>1, ElementRemoved
<1> QED BY <1>1, <1>2, <1>3, SeqEqual

\* The least recently used token is the one behind all others.
LEMMA BackIsRemoved ==
    ASSUME CacheConsistent, lru # <<>>
    PROVE  Last(lru) \in items /\ Front(lru) = Without(Last(lru))
<1> DEFINE n == Len(lru)
<1>1. lru \in Seq(Token) /\ n \in 1 .. n /\ n \in Nat /\ lru[n] \in items
  BY ListAndMap
<1>2. Place(Last(lru)) = n
  BY <1>1, PlaceIsKnown, ListAndMap DEF Last
<1>3. Front(lru) = RemoveAt(lru, n)
  BY <1>1, FrontRemoves
<1> QED BY <1>1, <1>2, <1>3 DEF Without, Last

\* A hit and an insertion put their token in front of the others that stay.
InFrontOf(t, s, keys) ==
    /\ Agree(s, keys) /\ Sublist(s)
    /\ keys \subseteq items \ {t} /\ Len(s) < Capacity
    /\ lru' = <<t>> \o s /\ items' = keys \cup {t}

\* Every token stays but the one behind all others, which goes for a token
\* that is not cached when the list is full.
Makes(t, keys) ==
    \/ keys = items \ {t}
    \/ /\ t \notin items /\ Len(lru) >= Capacity
       /\ keys = items \ {Last(lru)}

LEMMA StoredInFront ==
    ASSUME CacheConsistent, NEW t \in Token, Stored(t)
    PROVE  \E s \in Seq(Token), keys \in SUBSET Token : InFrontOf(t, s, keys) /\ Makes(t, keys)
<1>1. /\ lru \in Seq(Token) /\ Len(lru) \in Nat /\ Len(lru) <= Capacity
      /\ items \in SUBSET Token /\ Capacity \in Nat \ {0}
  BY ListAndMap, TokenCacheAssumption DEF CacheConsistent
<1>2. CASE t \in items
  <2>1. Agree(Without(t), items \ {t}) /\ Len(Without(t)) = Len(lru) - 1 /\ Sublist(Without(t))
    BY <1>2, TokenRemoved
  <2>2. lru' = <<t>> \o Without(t) /\ items' = (items \ {t}) \cup {t}
    BY <1>2 DEF Stored, MovedToFront
  <2>3. Len(Without(t)) < Capacity
    BY <1>1, <2>1
  <2>4. Without(t) \in Seq(Token) /\ items \ {t} \in SUBSET Token
    BY <1>1, <2>1 DEF Agree
  <2> QED BY <2>1, <2>2, <2>3, <2>4 DEF InFrontOf, Makes
<1>3. CASE t \notin items /\ Len(lru) < Capacity
  <2>1. lru' = <<t>> \o lru /\ items' = items \cup {t} /\ items = items \ {t}
    BY <1>1, <1>3 DEF Stored, MovedToFront
  <2>2. Agree(lru, items)
    BY DEF CacheConsistent, Agree
  <2>3. Sublist(lru)
    BY <1>1 DEF Sublist
  <2> QED BY <1>1, <1>3, <2>1, <2>2, <2>3 DEF InFrontOf, Makes
<1>4. CASE t \notin items /\ Len(lru) >= Capacity
  <2> DEFINE u == Last(lru)
  <2>1. lru # <<>>
    BY <1>1, <1>4
  <2>2. u \in items /\ Front(lru) = Without(u)
    BY <2>1, BackIsRemoved
  <2>3. Agree(Front(lru), items \ {u}) /\ Len(Front(lru)) = Len(lru) - 1 /\ Sublist(Front(lru))
    BY <2>2, TokenRemoved
  <2>4. lru' = <<t>> \o Front(lru) /\ items' = (items \ {u}) \cup {t}
    BY <1>4 DEF Stored
  <2>5. items \ {u} \subseteq items \ {t} /\ Len(Front(lru)) < Capacity
    BY <1>1, <1>4, <2>3
  <2>6. Front(lru) \in Seq(Token) /\ items \ {u} \in SUBSET Token
    BY <1>1, <2>3 DEF Agree
  <2> QED BY <1>4, <2>3, <2>4, <2>5, <2>6 DEF InFrontOf, Makes
<1> QED BY <1>1, <1>2, <1>3, <1>4

\* A hit stores nothing new.
LEMMA HitStores ==
    ASSUME NEW q \in Request, GetHit(q)
    PROVE  Stored(token[q])
BY DEF GetHit, Stored

LEMMA StoredAgrees ==
    ASSUME CacheConsistent, NEW t \in Token, Stored(t)
    PROVE  Agree(lru', items')
<1>1. PICK s \in Seq(Token), keys \in SUBSET Token : InFrontOf(t, s, keys)
  BY StoredInFront
<1>2. Agree(s, keys) /\ t \notin keys /\ Len(s) < Capacity
  BY <1>1 DEF InFrontOf
<1>3. Agree(<<t>> \o s, keys \cup {t})
  BY <1>2, TokenInFront
<1> QED BY <1>1, <1>3 DEF InFrontOf

----------------------------------------------------------------------------
(* The map and the list. *)

LEMMA LaterIsBounded ==
    ASSUME NEW bound \in Nat, NEW time \in 0 .. bound
    PROVE  Later(time, bound) \in 0 .. bound
BY DEF Later

\* The steps of time and of the tokens leave the map and the list alone.
LEMMA TypesOutside ==
    ASSUME CacheConsistent, Tick \/ \E t \in Token : Invalidate(t)
    PROVE  CacheConsistent'
<1> USE TokenCacheAssumption DEF CacheConsistent
<1>1. CASE Tick
  <2>1. age' \in [Token -> 0 .. Ttl + 1]
    <3>1. \A t \in Token : Later(age[t], Ttl + 1) \in 0 .. Ttl + 1
      BY LaterIsBounded
    <3> QED BY <1>1, <3>1 DEF Tick
  <2>2. staleFor' \in [Token -> 0 .. Forever]
    <3>1. Forever \in Nat
      BY DEF Forever
    <3>2. \A t \in Token : Later(staleFor[t], Forever) \in 0 .. Forever
      BY <3>1, LaterIsBounded
    <3> QED BY <1>1, <3>1, <3>2 DEF Tick
  <2>3. delay' \in [Request -> 0 .. Latency]
    BY <1>1 DEF Tick
  <2> QED BY <1>1, <2>1, <2>2, <2>3 DEF Tick
<1>2. ASSUME NEW t \in Token, Invalidate(t)
      PROVE  CacheConsistent'
  BY <1>2 DEF Invalidate
<1> QED BY <1>1, <1>2

\* The other variables of a step that stores a token.
LEMMA TypesOfStored ==
    ASSUME CacheConsistent, NEW q \in Request, Stored(token[q]), Used(token[q]), Answered(q),
           age' = age \/ age' = [age EXCEPT ![token[q]] = 0],
           delay' = delay \/ delay' = [delay EXCEPT ![q] = 0],
           valid' = valid, staleFor' = staleFor, token' = token
    PROVE  CacheConsistent'
<1>1. token[q] \in Token
  BY DEF CacheConsistent
<1>2. Agree(lru', items')
  BY <1>1, StoredAgrees
<1>3. items' \in SUBSET Token
  BY <1>2 DEF Agree, ToSet
<1>4. age' \in [Token -> 0 .. Ttl + 1] /\ delay' \in [Request -> 0 .. Latency]
  <2>1. 0 \in 0 .. Ttl + 1 /\ 0 \in 0 .. Latency
    BY TokenCacheAssumption
  <2>2. age \in [Token -> 0 .. Ttl + 1] /\ delay \in [Request -> 0 .. Latency]
    BY DEF CacheConsistent
  <2> QED BY <2>1, <2>2
<1>5. pc' \in [Request -> {"idle", "get", "introspect", "put", "accepted", "refused"}]
  BY DEF CacheConsistent, Answered
<1>6. usedSince' \in [Token -> SUBSET Token]
  BY <1>1 DEF CacheConsistent, Used
<1> QED BY <1>2, <1>3, <1>4, <1>5, <1>6 DEF CacheConsistent, Agree

LEMMA TypesOfMiss ==
    ASSUME CacheConsistent, NEW q \in Request, GetMiss(q)
    PROVE  CacheConsistent'
<1>1. token[q] \in Token
  BY DEF CacheConsistent
<1>2. Agree(lru', items')
  <2>1. CASE token[q] \in items
    BY <2>1, TokenRemoved DEF GetMiss
  <2>2. CASE token[q] \notin items
    <3>1. items' = items /\ lru' = lru
      BY <2>2 DEF GetMiss
    <3> QED BY <3>1 DEF CacheConsistent, Agree
  <2> QED BY <2>1, <2>2
<1>3. items' \in SUBSET Token
  BY DEF CacheConsistent, GetMiss
<1>4. pc' \in [Request -> {"idle", "get", "introspect", "put", "accepted", "refused"}]
  BY DEF CacheConsistent, GetMiss
<1> QED BY <1>2, <1>3, <1>4 DEF CacheConsistent, GetMiss, Agree

LEMMA TypesOfServe ==
    ASSUME CacheConsistent, NEW q \in Request, Serve(q)
    PROVE  CacheConsistent'
<1>1. CASE Arrive(q)
  BY <1>1 DEF CacheConsistent, Arrive
<1>2. CASE GetHit(q)
  BY <1>2, HitStores, TypesOfStored DEF GetHit
<1>3. CASE GetMiss(q)
  BY <1>3, TypesOfMiss
<1>4. CASE IntrospectActive(q)
  BY <1>4, TokenCacheAssumption DEF CacheConsistent, IntrospectActive
<1>5. CASE IntrospectFails(q)
  BY <1>5 DEF CacheConsistent, IntrospectFails
<1>6. CASE Put(q)
  BY <1>6, TypesOfStored DEF Put
<1>7. CASE Respond(q)
  BY <1>7 DEF CacheConsistent, Respond
<1> QED BY <1>1, <1>2, <1>3, <1>4, <1>5, <1>6, <1>7 DEF Serve

\* The map and the list hold the same tokens, each once and within the
\* capacity, whatever the order in which requests get and put.
THEOREM CacheAgrees == CacheSpec => []CacheConsistent
<1>1. CacheInit => CacheConsistent
  <2> SUFFICES ASSUME CacheInit
               PROVE  CacheConsistent
    OBVIOUS
  <2>1. lru \in Seq(Token) /\ Len(lru) = 0 /\ items = ToSet(lru)
    BY DEF CacheInit, ToSet
  <2>2. age \in [Token -> 0 .. Ttl + 1] /\ staleFor \in [Token -> 0 .. Forever]
    BY TokenCacheAssumption DEF CacheInit, Forever
  <2> QED BY <2>1, <2>2, TokenCacheAssumption DEF CacheInit, CacheConsistent
<1>2. CacheConsistent /\ [CacheNext]_cacheVars => CacheConsistent'
  <2> SUFFICES ASSUME CacheConsistent, [CacheNext]_cacheVars
               PROVE  CacheConsistent'
    OBVIOUS
  <2>1. CASE Tick \/ \E t \in Token : Invalidate(t)
    BY <2>1, TypesOutside
  <2>2. ASSUME NEW q \in Request, Serve(q)
        PROVE  CacheConsistent'
    BY <2>2, TypesOfServe
  <2>3. CASE UNCHANGED cacheVars
    BY <2>3 DEF cacheVars, CacheConsistent
  <2> QED BY <2>1, <2>2, <2>3 DEF CacheNext
<1> QED BY <1>1, <1>2, PTL DEF CacheSpec

----------------------------------------------------------------------------
(* The order of use. *)

\* Whatever is in front of a token in the list was used after it.
InOrderOfUse ==
    \A i, j \in 1 .. Len(lru) : i < j => lru[i] \in usedSince[lru[j]]

LEMMA StoredKeepsOrder ==
    ASSUME CacheConsistent, InOrderOfUse, NEW t \in Token, Stored(t), Used(t)
    PROVE  InOrderOfUse'
<1>1. PICK s \in Seq(Token), keys \in SUBSET Token : InFrontOf(t, s, keys)
  BY StoredInFront
<1>2. /\ lru' = <<t>> \o s /\ Len(lru') = Len(s) + 1 /\ Len(s) \in Nat
      /\ lru'[1] = t /\ \A i \in 2 .. Len(s) + 1 : lru'[i] = s[i - 1]
  BY <1>1, TokenInFront DEF InFrontOf
<1>3. \A i \in 1 .. Len(s) : s[i] \in Token /\ s[i] # t
  <2>1. keys = ToSet(s) /\ t \notin keys /\ DOMAIN s = 1 .. Len(s)
    BY <1>1 DEF InFrontOf, Agree
  <2> QED BY <2>1 DEF ToSet
<1>4. \A i, j \in 1 .. Len(s) : i < j => s[i] \in usedSince[s[j]]
  <2> SUFFICES ASSUME NEW i \in 1 .. Len(s), NEW j \in 1 .. Len(s), i < j
               PROVE  s[i] \in usedSince[s[j]]
    OBVIOUS
  <2>1. PICK k \in 1 .. Len(lru), l \in 1 .. Len(lru) :
            k < l /\ s[i] = lru[k] /\ s[j] = lru[l]
    BY <1>1 DEF InFrontOf, Sublist
  <2> QED BY <2>1 DEF InOrderOfUse
<1>5. \A u \in Token : u # t => usedSince'[u] = usedSince[u] \cup {t}
  BY DEF Used
<1> SUFFICES ASSUME NEW i \in 1 .. Len(lru'), NEW j \in 1 .. Len(lru'), i < j
             PROVE  lru'[i] \in usedSince'[lru'[j]]
  BY DEF InOrderOfUse
<1>6. j - 1 \in 1 .. Len(s) /\ lru'[j] = s[j - 1]
  BY <1>2
<1>7. usedSince'[lru'[j]] = usedSince[s[j - 1]] \cup {t}
  BY <1>3, <1>5, <1>6
<1>8. CASE i = 1
  BY <1>2, <1>7, <1>8
<1>9. CASE i # 1
  <2>1. i - 1 \in 1 .. Len(s) /\ i - 1 < j - 1 /\ lru'[i] = s[i - 1]
    BY <1>2, <1>6, <1>9
  <2> QED BY <1>4, <1>6, <1>7, <2>1
<1> QED BY <1>8, <1>9

LEMMA MissKeepsOrder ==
    ASSUME CacheConsistent, InOrderOfUse, NEW q \in Request, GetMiss(q)
    PROVE  InOrderOfUse'
<1>1. CASE token[q] \in items
  <2>1. lru' = Without(token[q]) /\ usedSince' = usedSince
    BY <1>1 DEF GetMiss
  <2>2. Sublist(lru')
    BY <1>1, <2>1, TokenRemoved
  <2> SUFFICES ASSUME NEW i \in 1 .. Len(lru'), NEW j \in 1 .. Len(lru'), i < j
               PROVE  lru'[i] \in usedSince'[lru'[j]]
    BY DEF InOrderOfUse
  <2>3. PICK k \in 1 .. Len(lru), l \in 1 .. Len(lru) :
            k < l /\ lru'[i] = lru[k] /\ lru'[j] = lru[l]
    BY <2>2 DEF Sublist
  <2>4. lru[k] \in usedSince[lru[l]]
    BY <2>3 DEF InOrderOfUse
  <2> QED BY <2>1, <2>3, <2>4
<1>2. CASE token[q] \notin items
  BY <1>2 DEF GetMiss, InOrderOfUse
<1> QED BY <1>1, <1>2

\* As many tokens were used after the one at the back as are in front of it.
LEMMA UsedAfterTheBack ==
    ASSUME CacheConsistent, InOrderOfUse, NEW t \in Token, t \notin items,
           Len(lru) >= Capacity
    PROVE  Cardinality(usedSince[Last(lru)] \cup {t}) >= Capacity
<1> DEFINE n == Len(lru)
           U == usedSince[Last(lru)] \cup {t}
           f == [i \in 1 .. n |-> IF i = n THEN t ELSE lru[i]]
<1>1. n \in Nat /\ n \in 1 .. n /\ Capacity \in Nat /\ lru # <<>>
  BY ListAndMap, TokenCacheAssumption
<1>2. Last(lru) = lru[n] /\ lru[n] \in Token
  BY <1>1, ListAndMap DEF Last
<1>3. IsFiniteSet(U) /\ Cardinality(U) \in Nat
  <2>1. usedSince[Last(lru)] \cup {t} \in SUBSET Token
    BY <1>2 DEF CacheConsistent
  <2> QED BY <2>1, FS_Subset, FS_CardinalityType, TokenCacheAssumption
<1>4. \A i \in 1 .. n : f[i] \in U
  BY <1>1, <1>2 DEF InOrderOfUse
<1>5. ASSUME NEW i \in 1 .. n, NEW j \in 1 .. n, f[i] = f[j]
      PROVE  i = j
  <2>1. lru[i] \in items /\ lru[j] \in items /\ (lru[i] = lru[j] => i = j)
    BY ListAndMap
  <2>2. (i = n /\ j = n) \/ (i # n /\ j # n)
    BY <1>5, <2>1
  <2> QED BY <1>5, <2>1, <2>2
<1>6. f \in Injection(1 .. n, U)
  BY <1>4, <1>5 DEF Injection, IsInjective
<1>7. Cardinality(1 .. n) <= Cardinality(U)
  BY <1>3, <1>6, FS_Injection
<1>8. Cardinality(1 .. n) = n
  <2> HIDE DEF n
  <2>1. 1 \in Int /\ n \in Int /\ ~(1 > n) /\ n - 1 + 1 = n
    BY <1>1
  <2> QED BY <2>1, FS_Interval
<1> QED BY <1>1, <1>3, <1>7, <1>8

\* A token that was cached and is within its window is only forgotten after
\* Capacity other tokens were used.
LEMMA StoredKeepsRecent ==
    ASSUME CacheConsistent, InOrderOfUse, KeepsRecent,
           NEW q \in Request, Stored(token[q]), Used(token[q]),
           age' = age \/ age' = [age EXCEPT ![token[q]] = 0]
    PROVE  KeepsRecent'
<1> DEFINE t == token[q]
<1>1. t \in Token /\ Capacity \in Nat \ {0}
  BY TokenCacheAssumption DEF CacheConsistent
<1>2. PICK s \in Seq(Token), keys \in SUBSET Token : InFrontOf(t, s, keys) /\ Makes(t, keys)
  BY <1>1, StoredInFront
<1> SUFFICES ASSUME NEW u \in Token, Cardinality(usedSince'[u]) < Capacity, age'[u] <= Ttl
             PROVE  u \in items'
  BY DEF KeepsRecent
<1> HIDE DEF t
<1>3. CASE u = t
  BY <1>2, <1>3 DEF InFrontOf
<1>4. CASE u # t
  <2>1. usedSince'[u] = usedSince[u] \cup {t} /\ age'[u] = age[u]
    BY <1>1, <1>4 DEF Used, CacheConsistent, t
  <2>2. Cardinality(usedSince[u]) < Capacity
    <3>1. usedSince[u] \in SUBSET Token /\ usedSince[u] \cup {t} \in SUBSET Token
      BY <1>1 DEF CacheConsistent
    <3>2. IsFiniteSet(usedSince[u]) /\ IsFiniteSet(usedSince[u] \cup {t})
      BY <3>1, FS_Subset, TokenCacheAssumption
    <3>3. Cardinality(usedSince[u]) <= Cardinality(usedSince[u] \cup {t})
      BY <3>2, FS_Subset
    <3>4. Cardinality(usedSince[u]) \in Nat /\ Cardinality(usedSince[u] \cup {t}) \in Nat
      BY <3>2, FS_CardinalityType
    <3> QED BY <1>1, <2>1, <3>3, <3>4
  <2>3. u \in items
    BY <2>1, <2>2 DEF KeepsRecent
  <2>4. CASE keys = items \ {t}
    BY <1>2, <1>4, <2>3, <2>4 DEF InFrontOf
  <2>5. CASE t \notin items /\ Len(lru) >= Capacity /\ keys = items \ {Last(lru)}
    <3>1. Cardinality(usedSince[Last(lru)] \cup {t}) >= Capacity
      BY <1>1, <2>5, UsedAfterTheBack
    <3>2. Cardinality(usedSince[u] \cup {t}) < Capacity
      BY <2>1
    <3>3. IsFiniteSet(usedSince[u] \cup {t})
      <4>1. usedSince[u] \cup {t} \in SUBSET Token
        BY <1>1 DEF CacheConsistent
      <4> QED BY <4>1, FS_Subset, TokenCacheAssumption
    <3>4. Cardinality(usedSince[u] \cup {t}) \in Nat
      BY <3>3, FS_CardinalityType
    <3>5. u # Last(lru)
      <4> SUFFICES ASSUME u = Last(lru)
                   PROVE  FALSE
        OBVIOUS
      <4>1. Cardinality(usedSince[u] \cup {t}) >= Capacity
        BY <3>1
      <4> QED BY <1>1, <3>2, <3>4, <4>1
    <3> QED BY <1>2, <2>3, <2>5, <3>5 DEF InFrontOf
  <2> QED BY <1>2, <2>4, <2>5 DEF Makes
<1> QED BY <1>3, <1>4

\* The tokens in the list are in the order of their last use, so busy tokens
\* are not introspected again before their window ends.
THEOREM BusyTokensStay == CacheSpec => []KeepsRecent
<1> DEFINE Inv == InOrderOfUse /\ KeepsRecent
<1>1. CacheInit => Inv
  <2> SUFFICES ASSUME CacheInit
               PROVE  Inv
    OBVIOUS
  <2>1. Len(lru) = 0 /\ \A t \in Token : ~(age[t] <= Ttl)
    BY TokenCacheAssumption DEF CacheInit
  <2> QED BY <2>1 DEF InOrderOfUse, KeepsRecent
<1>2. CacheConsistent /\ Inv /\ [CacheNext]_cacheVars => Inv'
  <2> SUFFICES ASSUME CacheConsistent, Inv, [CacheNext]_cacheVars
               PROVE  Inv'
    OBVIOUS
  <2>1. CASE Tick
    <3>1. items' = items /\ lru' = lru /\ usedSince' = usedSince
      BY <2>1 DEF Tick
    <3>2. ASSUME NEW t \in Token, age'[t] <= Ttl
          PROVE  age[t] <= Ttl
      <4>1. age[t] \in 0 .. Ttl + 1 /\ age'[t] = Later(age[t], Ttl + 1)
        BY <2>1 DEF Tick, CacheConsistent
      <4> QED BY <3>2, <4>1, TokenCacheAssumption DEF Later
    <3> QED BY <3>1, <3>2 DEF InOrderOfUse, KeepsRecent
  <2>2. ASSUME NEW q \in Request, GetHit(q) \/ Put(q)
        PROVE  Inv'
    <3>1. /\ Stored(token[q]) /\ Used(token[q]) /\ token[q] \in Token
          /\ age' = age \/ age' = [age EXCEPT ![token[q]] = 0]
      BY <2>2, HitStores DEF GetHit, Put, CacheConsistent
    <3> QED BY <3>1, StoredKeepsOrder, StoredKeepsRecent
  <2>3. ASSUME NEW q \in Request, GetMiss(q)
        PROVE  Inv'
    <3>1. InOrderOfUse'
      BY <2>3, MissKeepsOrder
    <3>2. token[q] \in items => age[token[q]] > Ttl
      BY <2>3 DEF GetMiss
    <3>3. ASSUME NEW t \in Token, Cardinality(usedSince'[t]) < Capacity, age'[t] <= Ttl
          PROVE  t \in items'
      <4>1. t \in items /\ age[t] <= Ttl
        BY <2>3, <3>3 DEF GetMiss, KeepsRecent
      <4>2. t # token[q]
        <5>1. age[t] \in 0 .. Ttl + 1
          BY DEF CacheConsistent
        <5> QED BY <3>2, <4>1, <5>1, TokenCacheAssumption
      <4> QED BY <2>3, <4>1, <4>2 DEF GetMiss
    <3> QED BY <3>1, <3>3 DEF KeepsRecent
  <2>4. CASE UNCHANGED <<items, lru, age, usedSince>>
    BY <2>4 DEF InOrderOfUse, KeepsRecent
  <2> QED
    BY <2>1, <2>2, <2>3, <2>4
    DEF CacheNext, cacheVars, Invalidate, Serve, Arrive, IntrospectActive, IntrospectFails, Respond
<1> QED BY <1>1, <1>2, CacheAgrees, PTL DEF CacheSpec

----------------------------------------------------------------------------
(* What an accepted token may have lost. *)

\* An answer ages at most as long as it is on its way to put, and an entry no
\* longer than its window lets it be used.
AnswersAreFresh ==
    /\ \A t \in valid : staleFor[t] = 0
    /\ \A q \in Request : pc[q] = "put" => staleFor[token[q]] <= delay[q]
    /\ \A t \in items : age[t] <= Ttl => staleFor[t] <= age[t] + Latency

LEMMA TickKeepsFresh ==
    ASSUME CacheConsistent, AnswersAreFresh, Tick
    PROVE  AnswersAreFresh'
<1>1. /\ items' = items /\ valid' = valid /\ pc' = pc /\ token' = token
      /\ Ttl \in Nat /\ Latency \in Nat
  BY TokenCacheAssumption DEF Tick
<1>2. \A t \in Token : /\ staleFor[t] \in Nat /\ age[t] \in 0 .. Ttl + 1
                       /\ staleFor'[t] = IF t \in valid THEN 0 ELSE Later(staleFor[t], Forever)
                       /\ age'[t] = Later(age[t], Ttl + 1)
  BY <1>1 DEF Tick, CacheConsistent
<1>3. ASSUME NEW t \in Token
      PROVE  staleFor'[t] \in Nat /\ staleFor'[t] <= staleFor[t] + 1
  <2>1. Forever \in Nat
    BY <1>1 DEF Forever
  <2>2. staleFor[t] \in 0 .. Forever
    BY DEF CacheConsistent
  <2> QED BY <1>2, <2>1, <2>2 DEF Later
<1>4. \A t \in valid : staleFor'[t] = 0
  BY <1>2 DEF CacheConsistent
<1>5. ASSUME NEW q \in Request, pc[q] = "put"
      PROVE  staleFor'[token[q]] <= delay'[q]
  <2>1. token[q] \in Token /\ delay[q] \in Nat /\ delay'[q] = delay[q] + 1
    BY <1>5 DEF Tick, CacheConsistent
  <2>2. staleFor[token[q]] <= delay[q]
    BY <1>5 DEF AnswersAreFresh
  <2>3. staleFor'[token[q]] \in Nat /\ staleFor'[token[q]] <= staleFor[token[q]] + 1
    BY <1>3, <2>1
  <2> QED BY <1>2, <2>1, <2>2, <2>3
<1>6. ASSUME NEW t \in items, age'[t] <= Ttl
      PROVE  staleFor'[t] <= age'[t] + Latency
  <2>1. t \in Token
    BY DEF CacheConsistent
  <2>2. age[t] <= Ttl /\ age'[t] = age[t] + 1
    BY <1>1, <1>2, <1>6, <2>1 DEF Later
  <2>3. staleFor[t] <= age[t] + Latency
    BY <2>2 DEF AnswersAreFresh
  <2>4. staleFor'[t] \in Nat /\ staleFor'[t] <= staleFor[t] + 1
    BY <1>3, <2>1
  <2> QED BY <1>1, <1>2, <2>1, <2>2, <2>3, <2>4
<1> QED BY <1>1, <1>4, <1>5, <1>6 DEF AnswersAreFresh

LEMMA StoredInItems ==
    ASSUME CacheConsistent, NEW t \in Token, Stored(t)
    PROVE  items' \subseteq items \cup {t}
<1>1. PICK s \in Seq(Token), keys \in SUBSET Token : InFrontOf(t, s, keys)
  BY StoredInFront
<1> QED BY <1>1 DEF InFrontOf

LEMMA ServeKeepsFresh ==
    ASSUME CacheConsistent, AnswersAreFresh, NEW q \in Request, Serve(q)
    PROVE  AnswersAreFresh'
<1>1. /\ valid' = valid /\ staleFor' = staleFor /\ token[q] \in Token
      /\ Ttl \in Nat /\ Latency \in Nat
      /\ delay[q] \in 0 .. Latency /\ \A t \in Token : staleFor[t] \in Nat
  BY TokenCacheAssumption
  DEF CacheConsistent, Serve, Arrive, GetHit, GetMiss, IntrospectActive, IntrospectFails, Put, Respond
<1>2. ASSUME NEW p \in Request, pc'[p] = "put"
      PROVE  staleFor'[token'[p]] <= delay'[p]
  <2>1. CASE p = q
    <3>1. IntrospectActive(q)
      BY <1>2, <2>1
      DEF CacheConsistent, Serve, Arrive, GetHit, GetMiss, IntrospectActive, IntrospectFails, Put,
          Respond, Answered
    <3> QED BY <1>1, <2>1, <3>1 DEF IntrospectActive, CacheConsistent, AnswersAreFresh
  <2>2. CASE p # q
    <3>1. pc[p] = "put" /\ token'[p] = token[p] /\ delay'[p] = delay[p]
      BY <1>2, <2>2
      DEF CacheConsistent, Serve, Arrive, GetHit, GetMiss, IntrospectActive, IntrospectFails, Put,
          Respond, Answered
    <3> QED BY <1>1, <3>1 DEF AnswersAreFresh
  <2> QED BY <2>1, <2>2
<1>3. ASSUME NEW t \in items', age'[t] <= Ttl
      PROVE  staleFor'[t] <= age'[t] + Latency
  <2>1. CASE Put(q) /\ t = token[q]
    <3>1. staleFor[t] <= delay[q]
      BY <2>1 DEF Put, AnswersAreFresh
    <3>2. age'[t] = 0
      BY <1>1, <2>1 DEF Put, CacheConsistent
    <3> QED BY <1>1, <2>1, <3>1, <3>2
  <2>2. CASE ~(Put(q) /\ t = token[q])
    <3>1. t \in items /\ age'[t] = age[t]
      <4>1. CASE Put(q)
        <5>1. t \in items \cup {token[q]}
          BY <1>1, <4>1, StoredInItems DEF Put
        <5> QED BY <2>2, <4>1, <5>1 DEF Put, CacheConsistent
      <4>2. CASE ~Put(q)
        BY <4>2
        DEF Serve, Arrive, GetHit, GetMiss, IntrospectActive, IntrospectFails, Respond
      <4> QED BY <4>1, <4>2
    <3> QED BY <1>1, <1>3, <3>1 DEF AnswersAreFresh
  <2> QED BY <2>1, <2>2
<1> QED BY <1>1, <1>2, <1>3 DEF AnswersAreFresh

\* A request is accepted by a hit or after a put.
LEMMA AcceptedIsFresh ==
    ASSUME CacheConsistent, AnswersAreFresh, [CacheNext]_cacheVars,
           NEW q \in Request, pc[q] # "accepted", pc'[q] = "accepted"
    PROVE  staleFor[token[q]] <= Ttl + Latency
<1>1. /\ token[q] \in Token /\ Ttl \in Nat /\ Latency \in Nat
      /\ delay[q] \in 0 .. Latency /\ \A t \in Token : staleFor[t] \in Nat
      /\ \A t \in Token : age[t] \in 0 .. Ttl + 1
  BY TokenCacheAssumption DEF CacheConsistent
<1>2. GetHit(q) \/ Put(q)
  BY DEF CacheConsistent, CacheNext, cacheVars, Tick, Invalidate, Serve, Arrive, GetHit, GetMiss,
         IntrospectActive, IntrospectFails, Put, Respond, Answered
<1>3. CASE GetHit(q)
  <2>1. token[q] \in items /\ age[token[q]] <= Ttl
    BY <1>3 DEF GetHit
  <2>2. staleFor[token[q]] <= age[token[q]] + Latency
    BY <2>1 DEF AnswersAreFresh
  <2> QED BY <1>1, <2>1, <2>2
<1>4. CASE Put(q)
  <2>1. staleFor[token[q]] <= delay[q]
    BY <1>4 DEF Put, AnswersAreFresh
  <2> QED BY <1>1, <2>1
<1> QED BY <1>2, <1>3, <1>4

\* A token that the API Manager no longer calls active is accepted for no
\* longer than the window and the latency of one introspection, although hits,
\* renewals and late answers of concurrent requests keep it in the cache.
THEOREM StaleTokensEnd == CacheSpec => AcceptedWasActive
<1>1. CacheInit => AnswersAreFresh
  BY DEF CacheInit, AnswersAreFresh
<1>2. CacheConsistent /\ AnswersAreFresh /\ [CacheNext]_cacheVars => AnswersAreFresh'
  <2> SUFFICES ASSUME CacheConsistent, AnswersAreFresh, [CacheNext]_cacheVars
               PROVE  AnswersAreFresh'
    OBVIOUS
  <2>1. CASE Tick
    BY <2>1, TickKeepsFresh
  <2>2. ASSUME NEW t \in Token, Invalidate(t)
        PROVE  AnswersAreFresh'
    BY <2>2 DEF Invalidate, AnswersAreFresh
  <2>3. ASSUME NEW q \in Request, Serve(q)
        PROVE  AnswersAreFresh'
    BY <2>3, ServeKeepsFresh
  <2>4. CASE UNCHANGED cacheVars
    BY <2>4 DEF cacheVars, AnswersAreFresh
  <2> QED BY <2>1, <2>2, <2>3, <2>4 DEF CacheNext
<1>3. CacheConsistent /\ AnswersAreFresh /\ [CacheNext]_cacheVars
      => [\A q \in Request : pc[q] # "accepted" /\ pc'[q] = "accepted"
             => staleFor[token[q]] <= Ttl + Latency]_cacheVars
  BY AcceptedIsFresh
<1> QED BY <1>1, <1>2, <1>3, CacheAgrees, PTL DEF CacheSpec, AcceptedWasActive
=============================================================================
