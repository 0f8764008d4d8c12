-------------------------------- MODULE Process --------------------------------
(***************************************************************************)
(* A gateway process from start to end (main.rs): configuration, database, *)
(* clients, background services, servers, in the order of main.  Several   *)
(* replicas i \in Instances share one database; they run on one host or on *)
(* a host each.  An error that main passes on with `?` ends the process,   *)
(* with whatever jobs it has already started.                              *)
(***************************************************************************)
EXTENDS Configuration, FiniteSets

CONSTANTS
    Instances,      \* replicas of the gateway
    Deployments,    \* config.toml, environment and hosts they may be started with
    LastMigration,  \* number of files in migrations/, 9 in the code
    NoInstance,
    MaxStarts       \* bound: process starts, of all replicas together

ASSUME ProcessAssumption ==
    /\ LastMigration \in Nat
    /\ MaxStarts \in Nat
    /\ NoInstance \notin Instances
    /\ \A d \in Deployments : /\ d.file \in Config \cup {NoFile, Malformed, Unreadable}
                             /\ d.env \in Environment
                             /\ d.oneHost \in BOOLEAN

VARIABLES
    deployment,   \* the one the replicas are started with
    starts,       \* process starts so far
    stage,        \* where main is in each replica
    config,       \* its configuration
    jobs,         \* the background tasks it runs
    database,     \* external: exists, and the migrations applied to it
    migrating,    \* external: the replica that holds the migration lock
    rpcBound,     \* replicas that listen on the RPC port
    metricsBound  \* replicas that listen on the metrics port

processVars == <<deployment, starts, stage, config, jobs, database, migrating,
                 rpcBound, metricsBound>>

Stages == {"off", "config", "exists", "create", "connect", "lock", "migrate",
           "test", "clients", "polling", "poll_once", "submission", "metrics",
           "bind", "serving"}

Jobs == {"refresh", "poll", "cleanup", "submission", "updater", "metrics_server"}

\* Every replica is at a stage of main with a configuration and a set of tasks;
\* the database has at most the migrations there are.
ProcessTypeOK ==
    /\ deployment \in Deployments
    /\ starts \in Nat
    /\ stage \in [Instances -> Stages]
    /\ config \in [Instances -> Config \cup {NoConfig}]
    /\ jobs \in [Instances -> SUBSET Jobs]
    /\ database \in [exists : BOOLEAN, applied : 0 .. LastMigration]
    /\ migrating \in Instances \cup {NoInstance}
    /\ rpcBound \subseteq Instances
    /\ metricsBound \subseteq Instances

ProcessInit ==
    /\ deployment \in Deployments
    /\ starts = 0
    /\ stage = [i \in Instances |-> "off"]
    /\ config = [i \in Instances |-> NoConfig]
    /\ jobs = [i \in Instances |-> {}]
    /\ database = [exists |-> FALSE, applied |-> 0]
    /\ migrating = NoInstance
    /\ rpcBound = {}
    /\ metricsBound = {}

Goto(i, label) == stage' = [stage EXCEPT ![i] = label]

\* External: the process is gone.  Its connections are closed, which rolls its
\* transaction back and frees its advisory lock, and its ports are free.
End(i) ==
    /\ Goto(i, "off")
    /\ config' = [config EXCEPT ![i] = NoConfig]
    /\ jobs' = [jobs EXCEPT ![i] = {}]
    /\ migrating' = IF migrating = i THEN NoInstance ELSE migrating
    /\ rpcBound' = rpcBound \ {i}
    /\ metricsBound' = metricsBound \ {i}

\* External: no other replica on the same host is in bound.
PortFree(i, bound) == deployment.oneHost => bound \subseteq {i}
-----------------------------------------------------------------------------
Start(i) ==
    /\ stage[i] = "off"
    /\ starts < MaxStarts
    /\ starts' = starts + 1
    /\ Goto(i, "config")
    /\ UNCHANGED <<deployment, config, jobs, database, migrating, rpcBound, metricsBound>>

\* A traced method whose filter directive does not parse is an error; the filter
\* itself, from RUST_LOG or the file, is not checked.
setup_logging(c) == c.logging.directives_ok

LoadConfig(i) ==
    /\ stage[i] = "config"
    /\ LET c == Config_load(deployment.file, deployment.env) IN
       \/ /\ c # NoConfig
          /\ setup_logging(c)
          /\ config' = [config EXCEPT ![i] = c]
          /\ Goto(i, "exists")
          /\ UNCHANGED <<jobs, migrating, rpcBound, metricsBound>>
       \/ c = NoConfig /\ End(i)
       \/ c # NoConfig /\ ~setup_logging(c) /\ End(i)
    /\ UNCHANGED <<deployment, starts, database>>
-----------------------------------------------------------------------------
(* create_pool and test_connection.                                        *)

DatabaseExists(i) ==
    /\ stage[i] = "exists"
    /\ Goto(i, IF database.exists THEN "connect" ELSE "create")
    /\ UNCHANGED <<deployment, starts, config, jobs, database, migrating,
                   rpcBound, metricsBound>>

\* CREATE DATABASE is an error when another replica has created it since.
CreateDatabase(i) ==
    /\ stage[i] = "create"
    /\ IF database.exists
       THEN End(i) /\ UNCHANGED database
       ELSE /\ database' = [database EXCEPT !.exists = TRUE]
            /\ Goto(i, "connect")
            /\ UNCHANGED <<config, jobs, migrating, rpcBound, metricsBound>>
    /\ UNCHANGED <<deployment, starts>>

Connect(i) ==
    /\ stage[i] = "connect"
    /\ Goto(i, "lock")
    /\ UNCHANGED <<deployment, starts, config, jobs, database, migrating,
                   rpcBound, metricsBound>>

\* Mutant: who finds the lock taken leaves the migrations to its holder.
run_migrations_or_skip(i) ==
    /\ stage[i] = "lock"
    /\ IF migrating = NoInstance
       THEN migrating' = i /\ Goto(i, "migrate")
       ELSE Goto(i, "test") /\ UNCHANGED migrating
    /\ UNCHANGED <<deployment, starts, config, jobs, database, rpcBound, metricsBound>>

\* External: sqlx waits for an advisory lock before it looks at what is applied.
run_migrations(i) ==
    /\ stage[i] = "lock"
    /\ migrating = NoInstance
    /\ migrating' = i
    /\ Goto(i, "migrate")
    /\ UNCHANGED <<deployment, starts, config, jobs, database, rpcBound, metricsBound>>

\* External: the next migration not yet applied, in a transaction of its own.
ApplyMigration(i) ==
    /\ stage[i] = "migrate"
    /\ database.applied < LastMigration
    /\ database' = [database EXCEPT !.applied = @ + 1]
    /\ UNCHANGED <<deployment, starts, stage, config, jobs, migrating, rpcBound, metricsBound>>

\* Mutant: the lock is kept for as long as the process runs.
MigrationsDoneKeepsLock(i) ==
    /\ stage[i] = "migrate"
    /\ database.applied = LastMigration
    /\ Goto(i, "test")
    /\ UNCHANGED <<deployment, starts, config, jobs, database, migrating, rpcBound, metricsBound>>

MigrationsDone(i) ==
    /\ stage[i] = "migrate"
    /\ database.applied = LastMigration
    /\ migrating' = NoInstance
    /\ Goto(i, "test")
    /\ UNCHANGED <<deployment, starts, config, jobs, database, rpcBound, metricsBound>>

\* SELECT 1.
test_connection(i) ==
    /\ stage[i] = "test"
    /\ Goto(i, "clients")
    /\ UNCHANGED <<deployment, starts, config, jobs, database, migrating,
                   rpcBound, metricsBound>>

\* The database cannot be reached, or refuses or breaks off what it is asked.
DatabaseFails(i) ==
    /\ stage[i] \in {"exists", "create", "connect", "lock", "migrate", "test"}
    /\ End(i)
    /\ UNCHANGED <<deployment, starts, database>>
-----------------------------------------------------------------------------
(* Clients and services.                                                   *)

\* RethApiClient::new checks nothing.
BeaconApiClient_new(c) ==
    c.beacon_api.primary_endpoint # "empty" /\ c.beacon_api.request_timeout_secs # 0

ConstraintsApiClient_new(c) ==
    /\ c.constraints_api.relay_endpoint # "empty"
    /\ c.constraints_api.request_timeout_secs # 0
    /\ c.constraints_api.max_retries <= 10

BlsManager_new(c) == c.delegation.domain_ok

\* The refresh task of the fee engine asks for gas prices and logs them; there is
\* no cache yet for them to go to.
start_cache_refresh_service(i) == jobs' = [jobs EXCEPT ![i] = @ \cup {"refresh"}]

\* Between the fee engine and its task, and the services: the first client that
\* cannot be made ends the process.
CreateClients(i) ==
    /\ stage[i] = "clients"
    /\ IF /\ BeaconApiClient_new(config[i])
          /\ ConstraintsApiClient_new(config[i])
          /\ BlsManager_new(config[i])
       THEN /\ start_cache_refresh_service(i)
            /\ Goto(i, "polling")
            /\ UNCHANGED <<config, migrating, rpcBound, metricsBound>>
       ELSE End(i)
    /\ UNCHANGED <<deployment, starts, database>>

\* DelegationPollingService::start: the two cron jobs.
StartPolling(i) ==
    /\ stage[i] = "polling"
    /\ jobs' = [jobs EXCEPT ![i] = @ \cup {"poll", "cleanup"}]
    /\ Goto(i, "poll_once")
    /\ UNCHANGED <<deployment, starts, config, database, migrating, rpcBound, metricsBound>>

\* The poll at start-up ends, well or with an error that is only logged.
PollOnce(i) ==
    /\ stage[i] = "poll_once"
    /\ Goto(i, "submission")
    /\ UNCHANGED <<deployment, starts, config, jobs, database, migrating,
                   rpcBound, metricsBound>>

\* BlsManager and ConstraintSubmissionService::new and start.
StartSubmission(i) ==
    /\ stage[i] = "submission"
    /\ IF BlsManager_new(config[i])
       THEN /\ jobs' = [jobs EXCEPT ![i] = @ \cup {"submission"}]
            /\ Goto(i, "metrics")
            /\ UNCHANGED <<config, migrating, rpcBound, metricsBound>>
       ELSE End(i)
    /\ UNCHANGED <<deployment, starts, database>>

\* The registry, the updater task and the task of the metrics server.
StartMetrics(i) ==
    /\ stage[i] = "metrics"
    /\ jobs' = [jobs EXCEPT ![i] = @ \cup {"updater", "metrics_server"}]
    /\ Goto(i, "bind")
    /\ UNCHANGED <<deployment, starts, config, database, migrating, rpcBound, metricsBound>>

\* Server::bind panics when port 9090 is taken: the task ends, the process goes
\* on without metrics.
BindMetrics(i) ==
    /\ "metrics_server" \in jobs[i]
    /\ i \notin metricsBound
    /\ IF PortFree(i, metricsBound)
       THEN metricsBound' = metricsBound \cup {i} /\ UNCHANGED jobs
       ELSE /\ jobs' = [jobs EXCEPT ![i] = @ \ {"metrics_server"}]
            /\ UNCHANGED metricsBound
    /\ UNCHANGED <<deployment, starts, stage, config, database, migrating, rpcBound>>

\* run_server: an address that does not parse or a port that is taken ends the
\* process, whose jobs have been running for a while.
run_server(i) ==
    /\ stage[i] = "bind"
    /\ IF config[i].server.address_ok /\ PortFree(i, rpcBound)
       THEN /\ rpcBound' = rpcBound \cup {i}
            /\ Goto(i, "serving")
            /\ UNCHANGED <<config, jobs, migrating, metricsBound>>
       ELSE End(i)
    /\ UNCHANGED <<deployment, starts, database>>

\* External: the process is killed.  Nothing in the program stops the server, so
\* this is how it ends.
Kill(i) ==
    /\ stage[i] # "off"
    /\ End(i)
    /\ UNCHANGED <<deployment, starts, database>>

MainStep(i) ==
    \/ LoadConfig(i)
    \/ DatabaseExists(i) \/ CreateDatabase(i) \/ Connect(i) \/ run_migrations(i)
    \/ ApplyMigration(i) \/ MigrationsDone(i) \/ test_connection(i)
    \/ CreateClients(i) \/ StartPolling(i) \/ PollOnce(i) \/ StartSubmission(i)
    \/ StartMetrics(i) \/ run_server(i)

ProcessNext ==
    \E i \in Instances :
        Start(i) \/ MainStep(i) \/ DatabaseFails(i) \/ BindMetrics(i) \/ Kill(i)

ProcessSpec == ProcessInit /\ [][ProcessNext]_processVars

\* Every await of main ends, and a migration lock that is freed again and again is
\* granted.  Database errors and kills are not counted on to end a start.
MainFairness ==
    \A i \in Instances : WF_processVars(MainStep(i)) /\ SF_processVars(run_migrations(i))
-----------------------------------------------------------------------------
(* Properties.                                                             *)

\* A background job or the RPC server runs only over a database that exists and
\* has every migration, whatever replicas start, fail or are killed meanwhile.
JobsNeedSchema ==
    \A i \in Instances : jobs[i] # {} \/ stage[i] = "serving" =>
        database.exists /\ database.applied = LastMigration

\* A process with jobs signs with the very keys its environment names, never with
\* the development keys the program contains unless these are what it names; it
\* has somebody to accept slashing by; and its beacon, reth and relay endpoints
\* are URLs without the placeholder of their own variable.  Nothing is said of
\* the fallback beacon endpoints, nor of placeholders with other names.
RunsConfigured ==
    \A i \in Instances : jobs[i] # {} =>
        /\ config[i].signing.ecdsa_private_key = deployment.env.COMMITTER_PRIVATE_KEY
        /\ config[i].signing.bls_private_key = deployment.env.BLS_PRIVATE_KEY
        /\ config[i].validation.slasher_whitelist # {}
        /\ {config[i].beacon_api.primary_endpoint, config[i].reth.endpoint,
            config[i].constraints_api.relay_endpoint}
             \cap {"empty", "own_var", "replace_me", "no_scheme"} = {}

\* A process that is started gets to serve or ends: replicas that start together
\* do not wait for each other for ever.
StartEnds == \A i \in Instances : stage[i] = "config" ~> stage[i] \in {"serving", "off"}
================================================================================
