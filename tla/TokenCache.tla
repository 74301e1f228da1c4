------------------------------ MODULE TokenCache ------------------------------
(****************************************************************************)
(* Authorisation of the requests to the BFF: the middleware                 *)
(* (internal/bff/auth.go), the cache of introspection results               *)
(* (internal/bff/token_cache.go), and the API Manager that answers an       *)
(* introspection.  Requests interleave at the cache's mutex.                *)
(****************************************************************************)
EXTENDS Integers, SequencesExt

CONSTANTS
    Token,      \* bearer tokens
    Scoped,     \* tokens that carry one of requiredScopes
    Request,    \* requests that are served at a time
    Capacity,   \* max: entries of the cache
    Ttl,        \* server.introspect_cache_ttl
    Latency     \* longest time from the API Manager's answer to put

ASSUME TokenCacheAssumption ==
    /\ IsFiniteSet(Token) /\ Scoped \subseteq Token
    /\ Capacity \in Nat \ {0} /\ Ttl \in Nat /\ Latency \in Nat

VARIABLES
    items,      \* keys of the map
    lru,        \* tokens of the list, the most recently used first
    age,        \* age[t]: time since t was cached; Ttl + 1 stands for any longer time, and for never
    valid,      \* tokens that the API Manager calls active
    staleFor,   \* history: time since t was no longer valid, at most Forever
    pc,         \* pc[q]: what request q does next
    token,      \* token[q]: its bearer token
    delay,      \* delay[q]: age of the answer that q is about to cache
    usedSince   \* history: tokens used since t was last used

cacheVars == <<items, lru, age, valid, staleFor, pc, token, delay, usedSince>>

Forever == Ttl + Latency + 1

\* The map and the list hold the same tokens, each once, within the capacity.
CacheConsistent ==
    /\ items \in SUBSET Token
    /\ lru \in Seq(Token) /\ Len(lru) <= Capacity
    /\ items = ToSet(lru)
    /\ \A i, j \in 1 .. Len(lru) : lru[i] = lru[j] => i = j
    /\ age \in [Token -> 0 .. Ttl + 1]
    /\ valid \in SUBSET Token
    /\ staleFor \in [Token -> 0 .. Forever]
    /\ pc \in [Request -> {"idle", "get", "introspect", "put", "accepted", "refused"}]
    /\ token \in [Request -> Token]
    /\ delay \in [Request -> 0 .. Latency]
    /\ usedSince \in [Token -> SUBSET Token]

CacheInit ==
    /\ items = {}
    /\ lru = <<>>
    /\ age = [t \in Token |-> Ttl + 1]
    /\ valid \in SUBSET Token
    /\ staleFor = [t \in Token |-> IF t \in valid THEN 0 ELSE Forever]
    /\ pc = [q \in Request |-> "idle"]
    /\ token \in [Request -> Token]
    /\ delay = [q \in Request |-> 0]
    /\ usedSince = [t \in Token |-> Token]

Later(time, bound) == IF time < bound THEN time + 1 ELSE bound

Tick ==
    /\ \A q \in Request : pc[q] = "put" => delay[q] < Latency
    /\ age' = [t \in Token |-> Later(age[t], Ttl + 1)]
    /\ staleFor' = [t \in Token |-> IF t \in valid THEN 0 ELSE Later(staleFor[t], Forever)]
    /\ delay' = [q \in Request |-> IF pc[q] = "put" THEN delay[q] + 1 ELSE 0]
    /\ UNCHANGED <<items, lru, valid, pc, token, usedSince>>

\* A token expires or is revoked.
Invalidate(t) ==
    /\ t \in valid
    /\ valid' = valid \ {t}
    /\ UNCHANGED <<items, lru, age, staleFor, pc, token, delay, usedSince>>

Arrive(q) ==
    /\ pc[q] = "idle"
    /\ pc' = [pc EXCEPT ![q] = "get"]
    /\ \E t \in Token : token' = [token EXCEPT ![q] = t]
    /\ UNCHANGED <<items, lru, age, valid, staleFor, delay, usedSince>>

\* The element of the list that the map holds for a token that is cached.
Place(t) == CHOOSE i \in DOMAIN lru : lru[i] = t

\* lru.Remove of that element.
Without(t) == RemoveAt(lru, Place(t))

\* lru.MoveToFront of that element, or lru.PushFront of a new one.
MovedToFront(t) == <<t>> \o (IF t \in items THEN Without(t) ELSE lru)

\* t is used now.
Used(t) ==
    usedSince' = [u \in Token |-> IF u = t THEN {} ELSE usedSince[u] \cup {t}]

\* hasAnyScope, for a token that is active.
Answered(q) == pc' = [pc EXCEPT ![q] = IF token[q] \in Scoped THEN "accepted" ELSE "refused"]

\* A hit restarts the validity window.
GetHit_Slides(q) ==
    LET t == token[q]
    IN  /\ pc[q] = "get"
        /\ t \in items /\ age[t] <= Ttl
        /\ lru' = MovedToFront(t)
        /\ age' = [age EXCEPT ![t] = 0]
        /\ Used(t)
        /\ Answered(q)
        /\ UNCHANGED <<items, valid, staleFor, token, delay>>

\* A hit leaves the entry where it is in the list.
GetHit_StaysPut(q) ==
    LET t == token[q]
    IN  /\ pc[q] = "get"
        /\ t \in items /\ age[t] <= Ttl
        /\ Used(t)
        /\ Answered(q)
        /\ UNCHANGED <<items, lru, age, valid, staleFor, token, delay>>

\* get: a hit moves the entry to the front and keeps its age.
GetHit(q) ==
    LET t == token[q]
    IN  /\ pc[q] = "get"
        /\ t \in items /\ age[t] <= Ttl
        /\ lru' = MovedToFront(t)
        /\ Used(t)
        /\ Answered(q)
        /\ UNCHANGED <<items, age, valid, staleFor, token, delay>>

\* get: an entry that has expired is removed.
GetMiss(q) ==
    LET t == token[q]
    IN  /\ pc[q] = "get"
        /\ t \in items => age[t] > Ttl
        /\ pc' = [pc EXCEPT ![q] = "introspect"]
        /\ items' = items \ {t}
        /\ lru' = IF t \in items THEN Without(t) ELSE lru
        /\ UNCHANGED <<age, valid, staleFor, token, delay, usedSince>>

\* The API Manager calls the token active.
IntrospectActive(q) ==
    /\ pc[q] = "introspect"
    /\ token[q] \in valid
    /\ pc' = [pc EXCEPT ![q] = "put"]
    /\ delay' = [delay EXCEPT ![q] = 0]
    /\ UNCHANGED <<items, lru, age, valid, staleFor, token, usedSince>>

\* It does not, or does not answer: 401, and nothing is cached or removed.
IntrospectFails(q) ==
    /\ pc[q] = "introspect"
    /\ pc' = [pc EXCEPT ![q] = "refused"]
    /\ UNCHANGED <<items, lru, age, valid, staleFor, token, delay, usedSince>>

\* The eviction forgets the map.
Stored_KeepsItem(t) ==
    /\ lru' = IF t \notin items /\ Len(lru) >= Capacity THEN <<t>> \o Front(lru) ELSE MovedToFront(t)
    /\ items' = items \cup {t}

\* An entry is renewed and moved to the front, or inserted there; an insertion
\* into a full cache evicts the entry at the back.
Stored(t) ==
    IF t \notin items /\ Len(lru) >= Capacity
    THEN /\ lru' = <<t>> \o Front(lru)
         /\ items' = (items \ {Last(lru)}) \cup {t}
    ELSE /\ lru' = MovedToFront(t)
         /\ items' = items \cup {t}

\* put, with the time of the call, not of the answer.
Put(q) ==
    LET t == token[q]
    IN  /\ pc[q] = "put"
        /\ Stored(t)
        /\ age' = [age EXCEPT ![t] = 0]
        /\ delay' = [delay EXCEPT ![q] = 0]
        /\ Used(t)
        /\ Answered(q)
        /\ UNCHANGED <<valid, staleFor, token>>

Respond(q) ==
    /\ pc[q] \in {"accepted", "refused"}
    /\ pc' = [pc EXCEPT ![q] = "idle"]
    /\ UNCHANGED <<items, lru, age, valid, staleFor, token, delay, usedSince>>

Serve(q) ==
    \/ Arrive(q)
    \/ GetHit(q) \/ GetMiss(q)
    \/ IntrospectActive(q) \/ IntrospectFails(q)
    \/ Put(q)
    \/ Respond(q)

CacheNext ==
    \/ Tick
    \/ \E t \in Token : Invalidate(t)
    \/ \E q \in Request : Serve(q)

CacheSpec == CacheInit /\ [][CacheNext]_cacheVars

----------------------------------------------------------------------------
(* Properties. *)

\* A token is accepted for at most the validity window and the latency of an
\* introspection after the API Manager stopped calling it active, although
\* hits, renewals and late answers of concurrent requests keep it cached
\* (token_cache.go:15-22).
AcceptedWasActive ==
    [][\A q \in Request : pc[q] # "accepted" /\ pc'[q] = "accepted"
          => staleFor[token[q]] <= Ttl + Latency]_cacheVars

\* A token that was cached and is within its window is only forgotten after
\* Capacity other tokens were used: busy tokens are not introspected again
\* (token_cache.go:15-18).
KeepsRecent ==
    \A t \in Token : Cardinality(usedSince[t]) < Capacity /\ age[t] <= Ttl => t \in items
=============================================================================
