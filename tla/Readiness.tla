------------------------------ MODULE Readiness ------------------------------
(****************************************************************************)
(* The /readyz handler (internal/health/server.go) beside the cycle loop    *)
(* and the poller that pings the database (internal/engine/engine.go): it   *)
(* reads the flag that the poller set and twice the state of every breaker, *)
(* one lock at a time (internal/engine/state.go), while the phases run and  *)
(* the database comes and goes.  One request is in progress at a time:      *)
(* requests share nothing.  The poller counts seconds and the loop minutes; *)
(* neither clock looks at the other.                                        *)
(****************************************************************************)
EXTENDS CycleLoop

CONSTANTS
    PollEvery,     \* seconds between two pings: 10 in the code
    PingTimeout    \* seconds after which a ping has failed: 3 in the code

ASSUME ReadinessAssumption ==
    /\ PollEvery \in Nat /\ PingTimeout \in Nat
    /\ PingTimeout <= PollEvery

VARIABLES
    dbUp,          \* whether the database answers, through the pool and in time
    sinceChange,   \* seconds since dbUp changed, as far as anybody looks back
    dbReachable,   \* State.dbReachable
    poller,        \* pollDBReachability is "waiting", "pinging" or has "stopped"
    sinceTick,     \* seconds since the last tick of its ticker
    polled,        \* history: some ping has ended
    handler,       \* what the handler does next
    reachable,     \* DatabaseReachable of the report
    listed,        \* breakers whose state the body has
    cleared,       \* breakers that AnyBreakerOpen has found not to be open
    wasClear,      \* history: breakers that were not open at some time of the request
    wasOpen,       \* history: some breaker was open at some time of it
    grounds        \* history: what the flag could say of the database when it was read

pollerVars == <<dbUp, sinceChange, dbReachable, poller, sinceTick, polled>>
probeVars  == <<handler, reachable, listed, cleared, wasClear, wasOpen, grounds>>
readyVars  == <<loopVars, pollerVars, probeVars>>

\* The age of the news that the flag holds, at most.
Staleness == PollEvery + PingTimeout

ReadyTypeOK ==
    /\ TypeOK
    /\ dbUp \in BOOLEAN
    /\ sinceChange \in 0 .. Staleness + 1
    /\ dbReachable \in BOOLEAN
    /\ poller \in {"waiting", "pinging", "stopped"}
    /\ sinceTick \in 0 .. PollEvery
    /\ polled \in BOOLEAN
    /\ handler \in {"idle", "statuses", "any", "reply"}
    /\ reachable \in BOOLEAN
    /\ listed \in SUBSET Phase
    /\ cleared \in SUBSET Phase
    /\ wasClear \in SUBSET Phase
    /\ wasOpen \in BOOLEAN
    /\ grounds \in SUBSET BOOLEAN

\* The flag starts TRUE, before anybody has pinged the database, which may have
\* gone since the migrations.
ReadyInit ==
    /\ Init
    /\ dbUp \in BOOLEAN
    /\ sinceChange \in 0 .. Staleness + 1
    /\ dbReachable = TRUE
    /\ poller = "waiting"
    /\ sinceTick = 0
    /\ polled = FALSE
    /\ handler = "idle"
    /\ reachable = FALSE
    /\ listed = {}
    /\ cleared = {}
    /\ wasClear = {}
    /\ wasOpen = FALSE
    /\ grounds = {}

----------------------------------------------------------------------------
(* The database and its poller. *)

\* Seconds since dbUp last had the value up.
Age(up) == IF up = dbUp THEN 0 ELSE sinceChange

DatabaseChanges ==
    /\ dbUp' = ~dbUp
    /\ sinceChange' = 0
    /\ UNCHANGED <<loopVars, dbReachable, poller, sinceTick, polled, probeVars>>

\* A ping starts when its tick fires and is over by its timeout.
Second ==
    /\ poller = "waiting" => sinceTick < PollEvery
    /\ poller = "pinging" => sinceTick < PingTimeout
    /\ sinceTick' = IF poller = "stopped" THEN sinceTick ELSE sinceTick + 1
    /\ sinceChange' = Least(sinceChange + 1, Staleness + 1)
    /\ UNCHANGED <<loopVars, dbUp, dbReachable, poller, polled, probeVars>>

StartPing ==
    /\ poller = "waiting" /\ sinceTick = PollEvery
    /\ poller' = "pinging"
    /\ sinceTick' = 0
    /\ UNCHANGED <<loopVars, dbUp, sinceChange, dbReachable, polled, probeVars>>

\* What a ping may find: any state of the database since it began, and an error
\* if ctx is cancelled meanwhile.
Findable == {up \in BOOLEAN : Age(up) <= sinceTick \/ (stopping /\ ~up)}

\* Only a ping that succeeds sets the flag.
PingEnds_OnlySuccess ==
    /\ poller = "pinging"
    /\ poller' = "waiting"
    /\ dbReachable' \in {dbReachable \/ up : up \in Findable}
    /\ polled' = TRUE
    /\ UNCHANGED <<loopVars, dbUp, sinceChange, sinceTick, probeVars>>

PingEnds ==
    /\ poller = "pinging"
    /\ poller' = "waiting"
    /\ dbReachable' \in Findable
    /\ polled' = TRUE
    /\ UNCHANGED <<loopVars, dbUp, sinceChange, sinceTick, probeVars>>

PollerStops ==
    /\ stopping
    /\ poller = "waiting"
    /\ poller' = "stopped"
    /\ UNCHANGED <<loopVars, dbUp, sinceChange, dbReachable, sinceTick, polled, probeVars>>

Polling == DatabaseChanges \/ Second \/ StartPing \/ PingEnds \/ PollerStops

----------------------------------------------------------------------------
(* The handler. *)

\* The breakers that are not open now.
NotOpen == {ph \in Phase : breaker[ph].state # "open"}

\* The history of a request goes on while the handler is not idle.
Observe ==
    /\ wasClear' = IF handler = "idle" THEN {} ELSE wasClear \cup NotOpen'
    /\ wasOpen' = (handler # "idle" /\ (wasOpen \/ NotOpen' # Phase))

EngineStep ==
    /\ Next
    /\ UNCHANGED <<pollerVars, handler, reachable, listed, cleared, grounds>>
    /\ Observe

\* A request arrives; the handler reads the flag of the poller.
Request ==
    /\ handler = "idle"
    /\ handler' = "statuses"
    /\ reachable' = dbReachable
    /\ wasClear' = NotOpen
    /\ wasOpen' = (NotOpen # Phase)
    /\ grounds' = IF polled /\ ~stopping THEN {up \in BOOLEAN : Age(up) <= Staleness}
                                         ELSE BOOLEAN
    /\ UNCHANGED <<loopVars, pollerVars, listed, cleared>>

\* BreakerStatuses: the states for the body, in the order of the map.  The
\* answer is known after them if the database was not reachable.
ReadStatus(ph) ==
    /\ handler = "statuses"
    /\ ph \notin listed
    /\ listed' = listed \cup {ph}
    /\ handler' = IF listed' # Phase THEN "statuses" ELSE IF reachable THEN "any" ELSE "reply"
    /\ UNCHANGED <<loopVars, pollerVars, reachable, cleared, wasClear, wasOpen, grounds>>

\* AnyBreakerOpen takes every breaker that is not closed for open.
AnyBreakerOpen_NotClosed(ph) ==
    /\ handler = "any"
    /\ ph \notin cleared
    /\ cleared' = IF breaker[ph].state # "closed" THEN cleared ELSE cleared \cup {ph}
    /\ handler' = IF cleared' # cleared /\ cleared' # Phase THEN "any" ELSE "reply"
    /\ UNCHANGED <<loopVars, pollerVars, reachable, listed, wasClear, wasOpen, grounds>>

\* AnyBreakerOpen: the states once more; the first open one ends the search.
AnyBreakerOpen(ph) ==
    /\ handler = "any"
    /\ ph \notin cleared
    /\ cleared' = IF breaker[ph].state = "open" THEN cleared ELSE cleared \cup {ph}
    /\ handler' = IF cleared' # cleared /\ cleared' # Phase THEN "any" ELSE "reply"
    /\ UNCHANGED <<loopVars, pollerVars, reachable, listed, wasClear, wasOpen, grounds>>

\* 200 if the flag was set and no open breaker was met, 503 otherwise.
Ready == reachable /\ cleared = Phase

Reply ==
    /\ handler = "reply"
    /\ handler' = "idle"
    /\ reachable' = FALSE
    /\ listed' = {}
    /\ cleared' = {}
    /\ wasClear' = {}
    /\ wasOpen' = FALSE
    /\ grounds' = {}
    /\ UNCHANGED <<loopVars, pollerVars>>

ReadyNext ==
    \/ Polling
    \/ EngineStep
    \/ Request
    \/ \E ph \in Phase : ReadStatus(ph) \/ AnyBreakerOpen(ph)
    \/ Reply

ReadySpec == ReadyInit /\ [][ReadyNext]_readyVars

\* The engine runs as fairly as without the handler.
ReadyFairSpec == ReadySpec /\ Fairness

----------------------------------------------------------------------------

\* A 200 is never the answer about a breaker that was open during the whole
\* request, and the database answered at some time of the last Staleness
\* seconds before the request: the flag is at most one period and one timeout
\* old.  There is no promise before the first ping has ended, because the flag
\* starts TRUE, nor while the process stops, because the poller has left.
ReadyWasHealthy == (handler = "reply" /\ Ready) => wasClear = Phase /\ TRUE \in grounds

\* A 503 rests on a breaker that was open during the request, although body and
\* status come from different reads and a breaker that probes (half_open) does
\* not count as open, or on a database that did not answer at some time of the
\* last Staleness seconds before it.
NotReadyWasUnhealthy ==
    (handler = "reply" /\ ~Ready) => IF reachable THEN wasOpen ELSE FALSE \in grounds
=============================================================================
