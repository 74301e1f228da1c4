------------------------------- MODULE Startup -------------------------------
(****************************************************************************)
(* The life of a process: connection with retries (store/connect.go),       *)
(* migrations (store/migrate.go and store/migrations), the goroutines of    *)
(* engine.Run and the shutdown (engine/engine.go, cmd/ads/main.go).  The    *)
(* replicas of a deployment share one database.  Processes crash and are    *)
(* restarted, the database goes down and comes back, statements fail.       *)
(****************************************************************************)
EXTENDS Integers

CONSTANTS
    Replica,     \* replicas of the deployment
    Deployment,  \* what may be deployed: the database found, how often a release
                 \* without a tracker was started on it, the replicas started
    Attempts,    \* connectAttempts
    MaxBackoff,  \* connectMaxBackoff in seconds
    MaxFaults    \* crashes, outages, failed statements, signals: a bound for TLC

ASSUME StartupAssumption ==
    /\ Deployment \subseteq [database : {"fresh", "legacy6", "legacy7"},
                             replicas : SUBSET Replica,
                             starts   : Nat]
    /\ \A d \in Deployment : d.database = "fresh" <=> d.starts = 0
    /\ Attempts \in Nat \ {0}
    /\ MaxBackoff \in Nat \ {0}
    /\ MaxFaults \in Nat

VARIABLES
    dbUp,       \* the database answers
    schema,     \* tables, columns and functions of the database
    view,       \* the migration that created v_current_classifications, or 0
    stateRows,  \* number of rows of ads_pipeline_state
    recorded,   \* versions in schema_migrations
    faults,     \* number of faults so far
    pc,         \* pc[r]: what replica r does next
    attempt,    \* attempt[r]: number of the connection attempt
    backoff,    \* backoff[r]: seconds to sleep after the next failed attempt
    waited,     \* waited[r]: seconds that r has slept while it connects
    next,       \* next[r]: the migration that r looks at
    upTo,       \* upTo[r]: the last migration that r backfills
    term,       \* term[r]: r was told to terminate (ctx is cancelled)
    server,     \* server[r]: what the servers of r do, or what they returned
    loops       \* loops[r]: the loops of r that have not returned

dbVars == <<schema, view, stateRows, recorded>>
connectVars == <<attempt, backoff, waited>>
migrateVars == <<next, upTo>>
taskVars == <<server, loops>>
startupVars == <<dbUp, dbVars, faults, pc, connectVars, migrateVars, term, taskVars>>

Migration == 1 .. 8
Server == {"health", "bff"}
\* A Run returned the error of its listener, or a nil.
Returned == {"failed", "stopped"}
\* A listener that is broken has left its error in the channel of its Run.
ServerState == {"running", "broken"} \cup Returned
Loop == {"poller", "retention", "cycles"}

Migrating == {"count", "probe", "column", "backfill", "check", "apply"}
Serving == {"up", "waiting"}
Exited == {"done", "failed", "gaveUp", "crashed"}
Alive == {"connect", "wire", "readHealth", "readBff"} \cup Migrating \cup Serving
ProcessState == {"absent"} \cup Alive \cup Exited

Least(m, n) == IF m < n THEN m ELSE n

----------------------------------------------------------------------------
(* The migrations. *)

\* What a migration leaves behind for good.
Provides(m) ==
    CASE m = 1 -> {"services", "pipeline_state"}
      [] m = 2 -> {"discovered"}
      [] m = 3 -> {"managed"}
      [] m = 4 -> {"classifications"}
      [] m = 6 -> {"union"}
      [] m = 7 -> {"backend_path", "anchor"}
      [] m = 8 -> {"top_clients"}
      [] OTHER -> {}

\* The view that a migration leaves behind; a later one may replace it.
ViewOf(m) == IF m \in {5, 7, 8} THEN m ELSE 0

\* What a migration refers to: without it the transaction fails.  003 skips
\* the table if it exists, but not the index on service_identity; 005 skips
\* the view if it exists.
Needs(m) ==
    CASE m = 2 -> {"services"}
      [] m = 3 -> IF "managed" \in schema THEN {"identity"} ELSE {}
      [] m = 4 -> {"discovered"}
      [] m = 5 -> IF view = 0 THEN {"services", "discovered", "classifications"} ELSE {}
      [] m = 7 -> {"services", "discovered", "classifications", "managed"}
      [] m = 8 -> {"services", "discovered", "classifications", "anchor"}
      [] OTHER -> {}

\* The body of a migration.  007 drops service_identity; 001 seeds a row that
\* has no conflict key, each time it runs.
Body(m) ==
    /\ schema' = (schema \cup Provides(m) \cup (IF m = 3 THEN {"identity"} ELSE {}))
                    \ (IF m = 7 THEN {"identity"} ELSE {})
    /\ view' = IF (m = 5 /\ view # 0) \/ ViewOf(m) = 0 THEN view ELSE ViewOf(m)
    /\ stateRows' = IF m = 1 THEN stateRows + 1 ELSE stateRows

\* A database before schema_migrations was introduced: all migrations up to
\* 006, or up to 007, were run, and nothing is recorded.
LegacySchema(database) ==
    CASE database = "fresh"   -> {}
      [] database = "legacy6" -> (UNION {Provides(m) : m \in 1 .. 6}) \cup {"identity"}
      [] database = "legacy7" -> UNION {Provides(m) : m \in 1 .. 7}

LegacyView(database) ==
    CASE database = "fresh" -> 0 [] database = "legacy6" -> 5 [] database = "legacy7" -> 7

----------------------------------------------------------------------------
Objects == (UNION {Provides(m) : m \in Migration}) \cup {"identity"}

StartupTypeOK ==
    /\ dbUp \in BOOLEAN
    /\ schema \in SUBSET Objects
    /\ view \in {0, 5, 7, 8}
    /\ stateRows \in Nat
    /\ recorded \in SUBSET Migration
    /\ faults \in 0 .. MaxFaults
    /\ pc \in [Replica -> ProcessState]
    /\ attempt \in [Replica -> 1 .. Attempts]
    /\ backoff \in [Replica -> 1 .. MaxBackoff]
    /\ waited \in [Replica -> Nat]
    /\ next \in [Replica -> Migration]
    /\ upTo \in [Replica -> {6, 7}]
    /\ term \in [Replica -> BOOLEAN]
    /\ server \in [Replica -> [Server -> ServerState]]
    /\ loops \in [Replica -> SUBSET Loop]

NoServer == [s \in Server |-> "stopped"]

StartupInit ==
    \E d \in Deployment :
        /\ dbUp \in BOOLEAN
        /\ schema = LegacySchema(d.database)
        /\ view = LegacyView(d.database)
        /\ stateRows = d.starts
        /\ recorded = {}
        /\ faults = 0
        /\ pc = [r \in Replica |-> IF r \in d.replicas THEN "connect" ELSE "absent"]
        /\ attempt = [r \in Replica |-> 1]
        /\ backoff = [r \in Replica |-> 1]
        /\ waited = [r \in Replica |-> 0]
        /\ next = [r \in Replica |-> 1]
        /\ upTo = [r \in Replica |-> 6]
        /\ term = [r \in Replica |-> FALSE]
        /\ server = [r \in Replica |-> NoServer]
        /\ loops = [r \in Replica |-> {}]

Becomes(r, to) == pc' = [pc EXCEPT ![r] = to]

\* What the process keeps in memory, when it starts.
Fresh(r) ==
    /\ attempt' = [attempt EXCEPT ![r] = 1]
    /\ backoff' = [backoff EXCEPT ![r] = 1]
    /\ waited' = [waited EXCEPT ![r] = 0]
    /\ next' = [next EXCEPT ![r] = 1]
    /\ upTo' = [upTo EXCEPT ![r] = 6]
    /\ server' = [server EXCEPT ![r] = NoServer]
    /\ loops' = [loops EXCEPT ![r] = {}]

----------------------------------------------------------------------------
(* ConnectWithRetry. *)

\* The counters are local to ConnectWithRetry, which returns.
ConnectSucceeds(r) ==
    /\ pc[r] = "connect" /\ dbUp /\ ~term[r]
    /\ Becomes(r, "count")
    /\ attempt' = [attempt EXCEPT ![r] = 1]
    /\ backoff' = [backoff EXCEPT ![r] = 1]
    /\ waited' = [waited EXCEPT ![r] = 0]
    /\ UNCHANGED <<dbUp, dbVars, faults, migrateVars, term, taskVars>>

\* The backoff stays at one second.
ConnectFails_Constant(r) ==
    /\ pc[r] = "connect" /\ ~dbUp /\ ~term[r]
    /\ waited' = [waited EXCEPT ![r] = @ + backoff[r]]
    /\ IF attempt[r] < Attempts
       THEN /\ attempt' = [attempt EXCEPT ![r] = @ + 1]
            /\ UNCHANGED pc
       ELSE /\ Becomes(r, "gaveUp")
            /\ UNCHANGED attempt
    /\ UNCHANGED <<dbUp, dbVars, faults, backoff, migrateVars, term, taskVars>>

\* The process sleeps after the last attempt as well, then gives up.
ConnectFails(r) ==
    /\ pc[r] = "connect" /\ ~dbUp /\ ~term[r]
    /\ waited' = [waited EXCEPT ![r] = @ + backoff[r]]
    /\ backoff' = [backoff EXCEPT ![r] = Least(2 * @, MaxBackoff)]
    /\ IF attempt[r] < Attempts
       THEN /\ attempt' = [attempt EXCEPT ![r] = @ + 1]
            /\ UNCHANGED pc
       ELSE /\ Becomes(r, "gaveUp")
            /\ UNCHANGED attempt
    /\ UNCHANGED <<dbUp, dbVars, faults, migrateVars, term, taskVars>>

----------------------------------------------------------------------------
(* RunMigrations, one statement or transaction at a time. *)

\* The database answers the statement that r sends.
Statement(r, from) == pc[r] = from /\ dbUp /\ ~term[r]

KeepsData == UNCHANGED <<dbUp, dbVars, faults, connectVars, term, taskVars>>

\* The tracker is never taken for empty: no backfill.
CountRecorded_NoBackfill(r) ==
    /\ Statement(r, "count")
    /\ Becomes(r, "check")
    /\ next' = [next EXCEPT ![r] = 1]
    /\ UNCHANGED upTo /\ KeepsData

\* schema_migrations is created if it is missing, then counted.
CountRecorded(r) ==
    /\ Statement(r, "count")
    /\ Becomes(r, IF recorded = {} THEN "probe" ELSE "check")
    /\ next' = [next EXCEPT ![r] = 1]
    /\ UNCHANGED upTo /\ KeepsData

\* Does ads_managed_apis exist?  Then the database is taken for a legacy one.
ProbeManaged(r) ==
    /\ Statement(r, "probe")
    /\ Becomes(r, IF "managed" \in schema THEN "column" ELSE "check")
    /\ UNCHANGED migrateVars /\ KeepsData

\* The column is not probed.
ProbeColumn_Unprobed(r) ==
    /\ Statement(r, "column")
    /\ Becomes(r, "backfill")
    /\ upTo' = [upTo EXCEPT ![r] = 7]
    /\ UNCHANGED next /\ KeepsData

\* Does it have the column that 007 drops?
ProbeColumn(r) ==
    /\ Statement(r, "column")
    /\ Becomes(r, "backfill")
    /\ upTo' = [upTo EXCEPT ![r] = IF "identity" \in schema THEN 6 ELSE 7]
    /\ UNCHANGED next /\ KeepsData

\* INSERT ON CONFLICT DO NOTHING, each in a transaction of its own.  The list
\* goes out of scope at its end.
Backfill(r) ==
    /\ Statement(r, "backfill")
    /\ recorded' = recorded \cup {next[r]}
    /\ IF next[r] < upTo[r]
       THEN next' = [next EXCEPT ![r] = @ + 1] /\ UNCHANGED <<pc, upTo>>
       ELSE /\ next' = [next EXCEPT ![r] = 1]
            /\ upTo' = [upTo EXCEPT ![r] = 6]
            /\ Becomes(r, "check")
    /\ UNCHANGED <<dbUp, schema, view, stateRows, faults, connectVars, term, taskVars>>

\* On to the next migration, or to the rest of engine.Run.
Advance(r) ==
    IF next[r] < 8
    THEN next' = [next EXCEPT ![r] = @ + 1] /\ Becomes(r, "check")
    ELSE UNCHANGED next /\ Becomes(r, "wire")

\* The query for the record is missing: every migration is run.
CheckRecorded_Never(r) ==
    /\ Statement(r, "check")
    /\ Becomes(r, "apply") /\ UNCHANGED next
    /\ UNCHANGED upTo /\ KeepsData

CheckRecorded(r) ==
    /\ Statement(r, "check")
    /\ IF next[r] \in recorded THEN Advance(r) ELSE Becomes(r, "apply") /\ UNCHANGED next
    /\ UNCHANGED upTo /\ KeepsData

\* The record is inserted with ON CONFLICT DO NOTHING.
Apply_OnConflict(r) ==
    /\ Statement(r, "apply")
    /\ Needs(next[r]) \subseteq schema
    /\ Body(next[r])
    /\ recorded' = recorded \cup {next[r]}
    /\ Advance(r)
    /\ UNCHANGED <<dbUp, faults, connectVars, upTo, term, taskVars>>

\* The transaction of a migration: its body, and its record, whose primary key
\* is not in conflict.
Apply(r) ==
    /\ Statement(r, "apply")
    /\ Needs(next[r]) \subseteq schema
    /\ next[r] \notin recorded
    /\ Body(next[r])
    /\ recorded' = recorded \cup {next[r]}
    /\ Advance(r)
    /\ UNCHANGED <<dbUp, faults, connectVars, upTo, term, taskVars>>

\* The body refers to what is not there, or another replica has recorded the
\* migration meanwhile: the transaction is rolled back and the process exits.
ApplyFails(r) ==
    /\ Statement(r, "apply")
    /\ ~(Needs(next[r]) \subseteq schema) \/ next[r] \in recorded
    /\ Becomes(r, "failed") /\ Fresh(r)
    /\ UNCHANGED <<dbUp, dbVars, faults, term>>

\* A statement does not get an answer, or ctx is cancelled: RunMigrations and
\* ConnectWithRetry return the error.
GivesError(r) ==
    /\ \/ pc[r] \in Migrating /\ (~dbUp \/ term[r])
       \/ pc[r] = "connect" /\ term[r]
    /\ Becomes(r, "failed") /\ Fresh(r)
    /\ UNCHANGED <<dbUp, dbVars, faults, term>>

----------------------------------------------------------------------------
(* engine.Run: goroutines, wait, shutdown. *)

\* The clients are built, both servers, the poller, the retention loop and the
\* cycle loop start.  Without an introspection URL there is no BFF, and its
\* channel holds a nil from the start.  deepflow.New refuses an empty URL only,
\* which main has validated; other failures of the clients are not fatal.
Wire(r) ==
    /\ pc[r] = "wire"
    /\ Becomes(r, "up")
    /\ \E bff \in {"running", "stopped"} :
           server' = [server EXCEPT ![r] = [health |-> "running", bff |-> bff]]
    /\ loops' = [loops EXCEPT ![r] = Loop]
    /\ UNCHANGED <<dbUp, dbVars, faults, connectVars, migrateVars, term>>

\* A server cannot listen, or stops accepting.
ListenFails(r, s) ==
    /\ pc[r] \in Serving
    /\ server[r][s] = "running"
    /\ server' = [server EXCEPT ![r][s] = "broken"]
    /\ UNCHANGED <<dbUp, dbVars, faults, pc, connectVars, migrateVars, term, loops>>

\* The select of Run takes the error of the listener, be ctx done or not, and
\* returns it: it stays in the channel of engine.Run.
ServerReturns(r, s) ==
    /\ pc[r] \in Serving
    /\ server[r][s] = "broken"
    /\ server' = [server EXCEPT ![r][s] = "failed"]
    /\ UNCHANGED <<dbUp, dbVars, faults, pc, connectVars, migrateVars, term, loops>>

\* The channel of the server has no room for the result.
ServerStops_Unbuffered(r, s) ==
    /\ pc[r] = IF s = "health" THEN "readHealth" ELSE "readBff"
    /\ term[r]
    /\ server[r][s] \notin Returned
    /\ server' = [server EXCEPT ![r][s] = "stopped"]
    /\ UNCHANGED <<dbUp, dbVars, faults, pc, connectVars, migrateVars, term, loops>>

\* ctx is done: Shutdown, then Run drops what its listener returned, an error
\* too, and returns a nil, for which the channel of engine.Run has room.
ServerStops(r, s) ==
    /\ pc[r] \in Serving
    /\ term[r]
    /\ server[r][s] \notin Returned
    /\ server' = [server EXCEPT ![r][s] = "stopped"]
    /\ UNCHANGED <<dbUp, dbVars, faults, pc, connectVars, migrateVars, term, loops>>

LoopStops(r, l) ==
    /\ pc[r] \in Serving
    /\ term[r]
    /\ l \in loops[r]
    /\ loops' = [loops EXCEPT ![r] = @ \ {l}]
    /\ UNCHANGED <<dbUp, dbVars, faults, pc, connectVars, migrateVars, term, server>>

\* Run waits for ctx only, whatever happens to its goroutines.
Shutdown(r) ==
    /\ pc[r] = "up" /\ term[r]
    /\ Becomes(r, "waiting")
    /\ UNCHANGED migrateVars /\ KeepsData

\* wg.Wait
AllReturned(r) ==
    /\ pc[r] = "waiting"
    /\ loops[r] = {} /\ \A s \in Server : server[r][s] \in Returned
    /\ Becomes(r, "readHealth")
    /\ UNCHANGED migrateVars /\ KeepsData

ReadHealth(r) ==
    /\ pc[r] = "readHealth"
    /\ Becomes(r, IF server[r]["health"] = "failed" THEN "failed" ELSE "readBff")
    /\ UNCHANGED migrateVars /\ KeepsData

\* The result of the BFF is not looked at.
ReadBff_Ignored(r) ==
    /\ pc[r] = "readBff"
    /\ Becomes(r, "done")
    /\ UNCHANGED migrateVars /\ KeepsData

\* Exit code 0 if neither server returned an error, 1 otherwise.
ReadBff(r) ==
    /\ pc[r] = "readBff"
    /\ Becomes(r, IF server[r]["bff"] = "failed" THEN "failed" ELSE "done")
    /\ UNCHANGED migrateVars /\ KeepsData

----------------------------------------------------------------------------
(* The environment. *)

Fault == faults < MaxFaults /\ faults' = faults + 1

\* SIGTERM or SIGINT, once: main cancels ctx.  Nobody restarts the process.
Terminate(r) ==
    /\ pc[r] \in Alive /\ ~term[r]
    /\ Fault
    /\ term' = [term EXCEPT ![r] = TRUE]
    /\ UNCHANGED <<dbUp, dbVars, pc, connectVars, migrateVars, taskVars>>

Crash(r) ==
    /\ pc[r] \in Alive
    /\ Fault
    /\ Becomes(r, "crashed") /\ Fresh(r)
    /\ UNCHANGED <<dbUp, dbVars, term>>

\* A statement fails although the database is up: a deadlock, a lost
\* connection, a table created by another session at the same moment.
StatementFails(r) ==
    /\ pc[r] \in Migrating
    /\ Fault
    /\ Becomes(r, "failed") /\ Fresh(r)
    /\ UNCHANGED <<dbUp, dbVars, term>>

DatabaseFails ==
    /\ dbUp /\ Fault
    /\ dbUp' = FALSE
    /\ UNCHANGED <<dbVars, pc, connectVars, migrateVars, term, taskVars>>

DatabaseReturns ==
    /\ ~dbUp
    /\ dbUp' = TRUE
    /\ UNCHANGED <<dbVars, faults, pc, connectVars, migrateVars, term, taskVars>>

\* Kubernetes, Docker or systemd restarts a process that exited by itself.
Restart(r) ==
    /\ pc[r] \in Exited /\ ~term[r]
    /\ Becomes(r, "connect") /\ Fresh(r)
    /\ UNCHANGED <<dbUp, dbVars, faults, term>>

----------------------------------------------------------------------------
Migrate(r) ==
    \/ CountRecorded(r)
    \/ ProbeManaged(r)
    \/ ProbeColumn(r)
    \/ Backfill(r)
    \/ CheckRecorded(r)
    \/ Apply(r)
    \/ ApplyFails(r)

Run(r) ==
    \/ Wire(r)
    \/ \E s \in Server : ServerReturns(r, s) \/ ServerStops(r, s)
    \/ \E l \in Loop : LoopStops(r, l)
    \/ Shutdown(r)
    \/ AllReturned(r)
    \/ ReadHealth(r)
    \/ ReadBff(r)

Process(r) ==
    \/ ConnectSucceeds(r)
    \/ ConnectFails(r)
    \/ Migrate(r)
    \/ GivesError(r)
    \/ Run(r)
    \/ Restart(r)

Disturb(r) ==
    \/ \E s \in Server : ListenFails(r, s)
    \/ Terminate(r)
    \/ Crash(r)
    \/ StatementFails(r)

StartupNext ==
    \/ DatabaseFails
    \/ DatabaseReturns
    \/ \E r \in Replica : Process(r) \/ Disturb(r)

StartupSpec == StartupInit /\ [][StartupNext]_startupVars

\* A process goes on, its host restarts it, and an outage of the database ends.
StartupFairness ==
    /\ WF_startupVars(DatabaseReturns)
    /\ \A r \in Replica : WF_startupVars(Process(r))

StartupFairSpec == StartupSpec /\ StartupFairness

----------------------------------------------------------------------------
(* Properties. *)

\* What m leaves behind is there.
Applied(m) == Provides(m) \subseteq schema /\ ViewOf(m) <= view

\* "Applied filenames are recorded in schema_migrations" (migrate.go:21-23):
\* what a recorded migration creates is there, so that skipping it is right.
RecordedWasApplied == \A m \in recorded : Applied(m)

\* The statements of the phases and of the BFF find the tables, columns, the
\* function and the view they name, whatever other replicas migrate meanwhile.
UpMeansUsable ==
    \A r \in Replica : pc[r] \in Serving => \A m \in Migration : Applied(m)

\* The seed of ads_pipeline_state has no conflict key, and adds a row each time
\* 001 is run (001_init.sql:33-35): with the tracker it is not run again, by no
\* replica and after no fault, where it was run with or without the tracker.
SeedRunsOnce == [][ "pipeline_state" \in schema => stateRows' = stateRows ]_startupVars

\* A process that gives up on the database has slept for thirteen minutes
\* between its attempts and after the last one, no more and no less
\* (connect.go:15-17, 40-62).
PatientAtStart == \A r \in Replica : pc[r] = "gaveUp" => waited[r] = 781

\* Exit code 0 means that neither server ever returned an error to engine.Run,
\* however long before the shutdown.  A listener that broke is forgotten only
\* if its Run was told to stop before it had looked (ServerStops).
CleanExitMeansServed ==
    \A r \in Replica : pc[r] = "done" => \A s \in Server : server[r][s] = "stopped"

\* An interrupted backfill of a database with 007 applied: 003 is not recorded,
\* and can no longer be run.
Wedged == recorded # {} /\ 3 \notin recorded /\ ~(Needs(3) \subseteq schema)

\* Replicas that migrate a database at once may make each other fail, and still
\* all come up and stay up, unless a fault interrupted the backfill of a
\* database that had seen 007 (migrate.go:77-82).
EventuallyUp ==
    <>[](\A r \in Replica :
             pc[r] \in {"up", "absent"} \/ term[r] \/ (Wedged /\ faults > 0))

\* A process that is told to terminate ends, in whichever phase of its life,
\* with servers that run, have failed or never started, and stays ended.
TermLeadsToExit == <>[](\A r \in Replica : term[r] => pc[r] \in Exited)
=============================================================================
