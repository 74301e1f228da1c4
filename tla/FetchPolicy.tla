------------------------------ MODULE FetchPolicy ------------------------------
(****************************************************************************)
(* What a phase 2 run is promised about the APIs it works on, without       *)
(* pages, offsets, retries, goroutines or places (publisher.go:112-114 and  *)
(* 153-156): the published ones of one moment, if they fit on one page, and *)
(* each of them in the end either with its detail or with an error.         *)
(* ListPublishedAPIs and FetchDetails of Managed are these two steps.       *)
(****************************************************************************)

CONSTANT Api

VARIABLES
    published,   \* APIs that are PUBLISHED now
    onePage,     \* the listing fits on one page
    stage,       \* what the run does next
    apis,        \* APIs listed so far
    results,     \* APIs whose details are returned
    errors       \* APIs whose errors are returned

fetchVars == <<published, onePage, stage, apis, results, errors>>

Init ==
    /\ published \in SUBSET Api
    /\ onePage \in BOOLEAN
    /\ stage = "list"
    /\ apis = {} /\ results = {} /\ errors = {}

Administer ==
    /\ published' \in SUBSET Api
    /\ onePage' \in BOOLEAN
    /\ UNCHANGED <<stage, apis, results, errors>>

\* One page of several.
Gather ==
    /\ stage = "list" /\ ~onePage
    /\ apis' \in SUBSET Api /\ apis \subseteq apis'
    /\ UNCHANGED <<published, onePage, stage, results, errors>>

ListPublishedAPIs ==
    /\ stage = "list"
    /\ stage' = "fetch"
    /\ IF onePage THEN apis' = published ELSE apis' \in SUBSET Api /\ apis \subseteq apis'
    /\ onePage' \in BOOLEAN
    /\ UNCHANGED <<published, results, errors>>

GiveUp ==
    /\ stage = "list"
    /\ stage' = "failed"
    /\ UNCHANGED <<published, onePage, apis, results, errors>>

FetchDetails ==
    /\ stage = "fetch"
    /\ stage' = "returned"
    /\ results' \cup errors' = apis
    /\ UNCHANGED <<published, onePage, apis>>

Next == Administer \/ Gather \/ ListPublishedAPIs \/ GiveUp \/ FetchDetails

FetchSpec == Init /\ [][Next]_fetchVars
=============================================================================
