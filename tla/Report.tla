------------------------------- MODULE Report -------------------------------
(****************************************************************************)
(* The BFF's queries over the report (internal/store/bff_repo.go) and the   *)
(* handlers that answer them (internal/bff/server.go), beside the pipelines *)
(* that write it.  A client walks through the pages of the list by what the *)
(* pagination block of each answer says.  GetSummary only counts rows and   *)
(* is left out.                                                             *)
(****************************************************************************)
EXTENDS Pipelines, FiniteSets

CONSTANTS
    RowId,          \* the discovered_api_id of an endpoint, by which ties are broken
    AskedLimit,     \* limits clients ask for, 0 when the parameter is missing
    AskedOffset,    \* offsets clients start from
    DefaultLimit,   \* 25
    MaxLimit        \* 100

ASSUME ReportAssumption ==
    /\ IsFiniteSet(Endpoint)
    /\ RowId \in [Endpoint -> Nat]
    /\ \A e, f \in Endpoint : RowId[e] = RowId[f] => e = f
    /\ AskedLimit \subseteq Int /\ AskedOffset \subseteq Int
    /\ DefaultLimit \in Nat \ {0} /\ MaxLimit \in Nat \ {0}
    /\ DefaultLimit <= MaxLimit

VARIABLES
    ranked,   \* last_seen_at in the rows of the view, as of its last refresh
    shown     \* of each endpoint, the row some client was shown last

ReportTypeOK ==
    /\ TypeOK
    /\ ranked \in [Endpoint -> Time]
    /\ shown \in SUBSET Finding

ReportInit ==
    /\ Init
    /\ ranked = [e \in Endpoint |-> 0]
    /\ shown = {}

\* A refresh replaces the rows of the view and what orders them.
ServerStep ==
    /\ Next
    /\ ranked' = IF \E r \in Replica : CycleRefreshView(r) THEN lastSeen ELSE ranked
    /\ UNCHANGED shown

----------------------------------------------------------------------------
(* GET /apis. *)

\* The WHERE clause: one verdict or any, one service or any.
Selected(verdicts, identities) ==
    {v \in view : v.verdict \in verdicts /\ ServiceOf[v.endpoint] \in identities}

\* ORDER BY last_seen_at DESC, discovered_api_id
Before(v, w) ==
    \/ ranked[v.endpoint] > ranked[w.endpoint]
    \/ /\ ranked[v.endpoint] = ranked[w.endpoint]
       /\ RowId[v.endpoint] < RowId[w.endpoint]

\* LIMIT limit OFFSET offset
Page(rows, limit, offset) ==
    {v \in rows : Cardinality({w \in rows : Before(w, v)})
                     \in offset .. offset + limit - 1}

\* ListDiscovered clamps the limit it is asked, ...
RowLimit(asked) ==
    IF asked <= 0 THEN DefaultLimit ELSE IF asked > MaxLimit THEN MaxLimit ELSE asked

\* ... and an offset below 0 is 0.
RowOffset(asked) == IF asked < 0 THEN 0 ELSE asked

\* The answer says the limit that was asked, whatever its size.
EchoedLimit_Asked(asked) == IF asked <= 0 THEN DefaultLimit ELSE asked

\* handleList clamps the limit once more for the answer.
EchoedLimit(asked) ==
    IF asked <= 0 THEN DefaultLimit ELSE IF asked > MaxLimit THEN MaxLimit ELSE asked

\* The client is shown rows: they replace what it knew of their endpoints.
Show(rows) ==
    shown' = rows \cup {w \in shown : \A v \in rows : v.endpoint # w.endpoint}

\* The answer to GET /apis, for some query.
ReadPage ==
    /\ \E V \in {Verdict} \cup {{v} : v \in Verdict},
          S \in {Service} \cup {{s} : s \in Service},
          limit \in AskedLimit, offset \in AskedOffset :
          Show(Page(Selected(V, S), RowLimit(limit), RowOffset(offset)))
    /\ UNCHANGED <<vars, ranked>>

\* The rows a client is shown that begins with limit and offset and follows
\* the pagination block, which echoes the offset as it was asked, up to the
\* total.
Walk(rows, limit, offset) ==
    LET total == Cardinality(rows)
        size  == EchoedLimit(limit)
        asked == {offset + k * size : k \in 0 .. total - offset}
    IN  UNION {Page(rows, RowLimit(limit), RowOffset(o)) :
                  o \in {x \in asked : x < total}}

----------------------------------------------------------------------------
(* GET /apis/{id} and GET /untrafficked. *)

\* An id without a row in the view is answered 404.  The query of the sister
\* APIs follows; matched_apim_api_ids is empty in every row that exists.
ReadDetail ==
    /\ \E v \in view : Show({v})
    /\ UNCHANGED <<vars, ranked>>

\* Without OR d.normalized_path = m.backend_path.
Untrafficked_GatewayOnly ==
    {o \in activeOps : \A e \in active : GatewaySignature[o] # SignatureOf[e]}

\* What ListUntrafficked answers: operations without a discovered row.
Untrafficked == {o \in activeOps : \A e \in active : ~Matches(o, e)}

ReportNext == ServerStep \/ ReadPage \/ ReadDetail

ReportSpec == ReportInit /\ [][ReportNext]_<<vars, ranked, shown>>

----------------------------------------------------------------------------

\* An operation that a discovered endpoint was once matched with, its anchor,
\* is never reported as untrafficked while it is active, however long the
\* endpoint has been idle and whatever retention deleted since, unless
\* retention overtook the statement that anchored the endpoint.
AnchoredNotUntrafficked ==
    \A o \in Untrafficked : \A e \in anchored \ overtaken : ~Matches(o, e)

\* A client never sees the verdict on an endpoint replaced by an older one:
\* not on two pages, not in a detail after a list, and not when the endpoint
\* left the report in between and came back after retention.
ReaderNeverSeesOlder ==
    [][\A w \in shown, v \in shown' : v.endpoint = w.endpoint => v.at >= w.at]_shown

\* A client that follows the pagination block from the start up to the total
\* is shown every row, whatever limit it asks for, even when every active
\* endpoint is in the report (a refresh between two pages is another matter: it
\* moves rows).
PagesComplete ==
    LET rows == [endpoint : active, verdict : {"shadow"}, at : {now}]
    IN  \A limit \in AskedLimit, offset \in AskedOffset :
           offset <= 0 => Walk(rows, limit, offset) = rows
=============================================================================
