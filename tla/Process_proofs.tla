---------------------------- MODULE Process_proofs ----------------------------
(***************************************************************************)
(* Proofs about the start of the gateway's replicas, for any number of     *)
(* replicas, migrations, starts and deployments.                           *)
(***************************************************************************)
EXTENDS GatewayProcess, FiniteSetTheorems, TLAPS

\* Stages of main after the migrations.
Migrated == {"test", "clients", "polling", "poll_once", "submission", "metrics",
             "bind", "serving"}

StartType ==
    /\ stage \in [Instances -> Stages]
    /\ jobs \in [Instances -> SUBSET Jobs]
    /\ database \in [exists : BOOLEAN, applied : 0 .. LastMigration]

\* JobsNeedSchema is not inductive: what a replica has seen of the database at an
\* earlier stage must still hold when it starts its jobs.
StartInv ==
    /\ StartType
    /\ \A i \in Instances : stage[i] \in {"connect", "lock", "migrate"} \cup Migrated =>
           database.exists
    /\ \A i \in Instances : stage[i] \in Migrated => database.applied = LastMigration
    /\ \A i \in Instances : jobs[i] # {} => stage[i] \in Migrated

\* A replica that ends leaves the database alone, and has no jobs afterwards.
LEMMA EndKeepsInv ==
    ASSUME StartInv, NEW i \in Instances, End(i), UNCHANGED database
    PROVE  StartInv'
  BY DEF StartInv, StartType, End, Goto, Stages, Jobs, Migrated

\* A step of main to a later stage that starts no jobs and does not touch the
\* database, from a stage where what the later one needs is already known.
LEMMA GotoKeepsInv ==
    ASSUME StartInv, NEW i \in Instances, NEW to \in Stages, Goto(i, to),
           UNCHANGED <<jobs, database>>,
           stage[i] \in Migrated => to \in Migrated,
           to \in {"connect", "lock", "migrate"} \cup Migrated => database.exists,
           to \in Migrated => database.applied = LastMigration
    PROVE  StartInv'
  BY DEF StartInv, StartType, Goto, Stages, Jobs, Migrated

\* A step of main after the migrations that starts jobs.
LEMMA JobsKeepInv ==
    ASSUME StartInv, NEW i \in Instances, NEW to \in Migrated, Goto(i, to),
           NEW more \in SUBSET Jobs, jobs' = [jobs EXCEPT ![i] = @ \cup more],
           UNCHANGED database, stage[i] \in Migrated
    PROVE  StartInv'
  BY DEF StartInv, StartType, Goto, Stages, Jobs, Migrated

\* It holds before the first start.
LEMMA StartInvInit == ProcessInit => StartInv
  BY ProcessAssumption DEF ProcessInit, StartInv, StartType, Stages, Jobs, Migrated

\* One step per action of the process.
LEMMA StartInvStep ==
    ASSUME StartInv, NEW i \in Instances,
           Start(i) \/ MainStep(i) \/ DatabaseFails(i) \/ BindMetrics(i) \/ Kill(i)
    PROVE  StartInv'
<1>1. CASE Start(i)
  BY <1>1, GotoKeepsInv DEF Start, Stages, Migrated
<1>2. CASE LoadConfig(i)
  <2>1. CASE End(i)
    BY <1>2, <2>1, EndKeepsInv DEF LoadConfig
  <2>2. CASE Goto(i, "exists") /\ UNCHANGED jobs
    BY <1>2, <2>2, GotoKeepsInv DEF LoadConfig, Stages, Migrated
  <2> QED BY <1>2, <2>1, <2>2 DEF LoadConfig
<1>3. CASE DatabaseExists(i)
  BY <1>3, GotoKeepsInv DEF DatabaseExists, Stages, Migrated
<1>4. CASE CreateDatabase(i)
  <2>1. CASE database.exists
    BY <1>4, <2>1, EndKeepsInv DEF CreateDatabase
  <2>2. CASE ~database.exists
    BY <1>4, <2>2 DEF CreateDatabase, StartInv, StartType, Goto, Stages, Jobs, Migrated
  <2> QED BY <2>1, <2>2
<1>5. CASE Connect(i)
  BY <1>5, GotoKeepsInv DEF Connect, StartInv, Stages, Migrated
<1>6. CASE run_migrations(i)
  BY <1>6, GotoKeepsInv DEF run_migrations, StartInv, Stages, Migrated
<1>7. CASE ApplyMigration(i)
  \* No replica is past the migrations while one is left to apply.
  <2>1. ~ \E j \in Instances : stage[j] \in Migrated
    BY <1>7, ProcessAssumption DEF ApplyMigration, StartInv, StartType
  <2>2. database' \in [exists : BOOLEAN, applied : 0 .. LastMigration]
    BY <1>7, ProcessAssumption DEF ApplyMigration, StartInv, StartType
  <2>3. database'.exists = database.exists
    BY <1>7 DEF ApplyMigration, StartInv, StartType
  <2> QED BY <1>7, <2>1, <2>2, <2>3 DEF ApplyMigration, StartInv, StartType
<1>8. CASE MigrationsDone(i)
  BY <1>8, GotoKeepsInv DEF MigrationsDone, StartInv, Stages, Migrated
<1>9. CASE test_connection(i)
  BY <1>9, GotoKeepsInv DEF test_connection, StartInv, Stages, Migrated
<1>10. CASE CreateClients(i)
  <2>1. CASE End(i)
    BY <1>10, <2>1, EndKeepsInv DEF CreateClients
  <2>2. CASE start_cache_refresh_service(i) /\ Goto(i, "polling")
    BY <1>10, <2>2, JobsKeepInv DEF CreateClients, start_cache_refresh_service, Jobs, Migrated
  <2> QED BY <1>10, <2>1, <2>2 DEF CreateClients
<1>11. CASE StartPolling(i)
  BY <1>11, JobsKeepInv DEF StartPolling, Jobs, Migrated
<1>12. CASE PollOnce(i)
  BY <1>12, GotoKeepsInv DEF PollOnce, StartInv, Stages, Migrated
<1>13. CASE StartSubmission(i)
  <2>1. CASE End(i)
    BY <1>13, <2>1, EndKeepsInv DEF StartSubmission
  <2>2. CASE jobs' = [jobs EXCEPT ![i] = @ \cup {"submission"}] /\ Goto(i, "metrics")
    BY <1>13, <2>2, JobsKeepInv DEF StartSubmission, Jobs, Migrated
  <2> QED BY <1>13, <2>1, <2>2 DEF StartSubmission
<1>14. CASE StartMetrics(i)
  BY <1>14, JobsKeepInv DEF StartMetrics, Jobs, Migrated
<1>15. CASE run_server(i)
  <2>1. CASE End(i)
    BY <1>15, <2>1, EndKeepsInv DEF run_server
  <2>2. CASE Goto(i, "serving") /\ UNCHANGED jobs
    BY <1>15, <2>2, GotoKeepsInv DEF run_server, StartInv, Stages, Migrated
  <2> QED BY <1>15, <2>1, <2>2 DEF run_server
<1>16. CASE DatabaseFails(i)
  BY <1>16, EndKeepsInv DEF DatabaseFails
<1>17. CASE BindMetrics(i)
  BY <1>17 DEF BindMetrics, StartInv, StartType
<1>18. CASE Kill(i)
  BY <1>18, EndKeepsInv DEF Kill
<1> QED BY <1>1, <1>2, <1>3, <1>4, <1>5, <1>6, <1>7, <1>8, <1>9, <1>10, <1>11, <1>12,
           <1>13, <1>14, <1>15, <1>16, <1>17, <1>18 DEF MainStep

\* It is about the processes and the database only.
LEMMA StartInvStutter == StartInv /\ UNCHANGED processVars => StartInv'
  BY DEF StartInv, StartType, processVars

\* It is strong enough.
LEMMA StartInvImplies == StartInv => JobsNeedSchema
  BY DEF StartInv, JobsNeedSchema, Migrated

\* Requests, jobs and the updater leave the processes as they are.
LEMMA NextSplits == [Next]_allVars => ProcessStep \/ UNCHANGED processVars
  BY DEF Next, UpdaterStep, RequestStores, PollStores, CleanupDeactivates, allVars

\* No replica runs a job or serves over a database that lacks a migration, while
\* the jobs of all replicas write the tables and the gauges are refreshed
\* (create_pool before the services and the server in main.rs).
THEOREM JobsHaveSchema == Spec => []JobsNeedSchema
<1>1. Init => StartInv
  BY StartInvInit DEF Init
<1>2. StartInv /\ [Next]_allVars => StartInv'
  <2> SUFFICES ASSUME StartInv, [Next]_allVars PROVE StartInv'
    OBVIOUS
  <2>1. CASE ProcessStep
    BY <2>1, StartInvStep DEF ProcessStep, ProcessNext
  <2>2. CASE UNCHANGED processVars
    BY <2>2, StartInvStutter
  <2> QED BY <2>1, <2>2, NextSplits
<1> QED BY <1>1, <1>2, StartInvImplies, PTL DEF Spec
-----------------------------------------------------------------------------
(* Configuration.                                                          *)

\* What the checks of Config::load leave through has the keys of the environment,
\* a whitelist, and endpoints that are URLs without their own placeholder.
Checked(c, env) ==
    /\ c.signing.ecdsa_private_key = env.COMMITTER_PRIVATE_KEY
    /\ c.signing.bls_private_key = env.BLS_PRIVATE_KEY
    /\ c.validation.slasher_whitelist # {}
    /\ {c.beacon_api.primary_endpoint, c.reth.endpoint, c.constraints_api.relay_endpoint}
         \cap {"empty", "own_var", "replace_me", "no_scheme"} = {}

\* Config::load lets nothing else through.
LEMMA LoadIsChecked ==
    ASSUME NEW file \in Config \cup {NoFile, Malformed, Unreadable}, NEW env,
           Config_load(file, env) # NoConfig
    PROVE  Checked(Config_load(file, env), env)
<1> DEFINE raw == load_from_file(file)
           s == substitute_env_vars(raw, env)
           c == [s EXCEPT !.signing = signing_load(env)]
<1>1. Config_load(file, env) = c
  BY DEF Config_load
<1>2. /\ validate_beacon_endpoint(c.beacon_api.primary_endpoint)
      /\ validate_endpoint(c.reth.endpoint)
      /\ validate_endpoint(c.constraints_api.relay_endpoint)
      /\ validate_slasher_whitelist(c.validation)
  BY DEF Config_load
<1>3. raw # NoConfig /\ signing_load(env) # NoConfig
  BY DEF Config_load
<1>4. "signing" \in DOMAIN s
  <2>1. "signing" \in DOMAIN raw
    <3>1. CASE file = NoFile
      BY <3>1 DEF load_from_file, default_config
    <3>2. CASE file # NoFile
      BY <1>3, <3>2 DEF load_from_file, Config
    <3> QED BY <3>1, <3>2
  <2> QED BY <2>1 DEF substitute_env_vars
<1>5. c.signing = signing_load(env)
  BY <1>4
<1>6. /\ c.signing.ecdsa_private_key = env.COMMITTER_PRIVATE_KEY
      /\ c.signing.bls_private_key = env.BLS_PRIVATE_KEY
  BY <1>3, <1>5 DEF signing_load
<1> HIDE DEF c
<1> QED BY <1>1, <1>2, <1>6 DEF Checked, validate_beacon_endpoint, validate_endpoint,
           validate_slasher_whitelist

\* Past the loading a replica has what Config::load left through, and only then
\* does it have jobs.  config is a function on the replicas.
ConfigInv ==
    /\ deployment \in Deployments
    /\ stage \in [Instances -> Stages]
    /\ DOMAIN config = Instances /\ config = [i \in Instances |-> config[i]]
    /\ \A i \in Instances : stage[i] \notin {"off", "config"} => Checked(config[i], deployment.env)

\* No step of any process changes the configuration it has loaded.
LEMMA ConfigInvStep ==
    ASSUME ConfigInv, NEW i \in Instances,
           Start(i) \/ MainStep(i) \/ DatabaseFails(i) \/ BindMetrics(i) \/ Kill(i)
    PROVE  ConfigInv'
<1> USE DEF ConfigInv
<1>1. CASE End(i) /\ UNCHANGED deployment
  BY <1>1 DEF End, Goto, Stages
<1>2. CASE Start(i)
  BY <1>2 DEF Start, Goto, Stages
<1>3. CASE LoadConfig(i) /\ ~End(i)
  <2>1. /\ Config_load(deployment.file, deployment.env) # NoConfig
        /\ config' = [config EXCEPT ![i] = Config_load(deployment.file, deployment.env)]
        /\ Goto(i, "exists")
        /\ UNCHANGED deployment
    BY <1>3 DEF LoadConfig
  <2>2. Checked(Config_load(deployment.file, deployment.env), deployment.env)
    BY <2>1, LoadIsChecked, ProcessAssumption
  <2> QED BY <2>1, <2>2 DEF Goto, Stages
<1>4. CASE /\ stage[i] \notin {"off", "config"}
           /\ \E to \in Stages : Goto(i, to)
           /\ UNCHANGED <<deployment, config>>
  BY <1>4 DEF Goto
<1>5. CASE UNCHANGED <<deployment, config, stage>>
  BY <1>5
<1>6. (Start(i) \/ LoadConfig(i) \/ DatabaseFails(i) \/ BindMetrics(i) \/ Kill(i)) =>
         \/ Start(i) \/ (LoadConfig(i) /\ ~End(i)) \/ (End(i) /\ UNCHANGED deployment)
         \/ UNCHANGED <<deployment, config, stage>>
  BY DEF LoadConfig, DatabaseFails, BindMetrics, Kill
<1>7. (\/ DatabaseExists(i) \/ CreateDatabase(i) \/ Connect(i) \/ run_migrations(i)
       \/ ApplyMigration(i) \/ MigrationsDone(i) \/ test_connection(i)) =>
         \/ End(i) /\ UNCHANGED deployment
         \/ /\ stage[i] \notin {"off", "config"}
            /\ \E to \in Stages : Goto(i, to)
            /\ UNCHANGED <<deployment, config>>
         \/ UNCHANGED <<deployment, config, stage>>
  BY DEF DatabaseExists, CreateDatabase, Connect, run_migrations, ApplyMigration,
         MigrationsDone, test_connection, Stages
<1>8. (\/ CreateClients(i) \/ StartPolling(i) \/ PollOnce(i) \/ StartSubmission(i)
       \/ StartMetrics(i) \/ run_server(i)) =>
         \/ End(i) /\ UNCHANGED deployment
         \/ /\ stage[i] \notin {"off", "config"}
            /\ \E to \in Stages : Goto(i, to)
            /\ UNCHANGED <<deployment, config>>
  BY DEF CreateClients, StartPolling, PollOnce, StartSubmission, StartMetrics, run_server, Stages
<1> QED BY <1>1, <1>2, <1>3, <1>4, <1>5, <1>6, <1>7, <1>8 DEF MainStep

\* A process with jobs runs on the keys its environment names and on endpoints that
\* are URLs and not the placeholder of their variable (Config::load is the first
\* thing main does, and what it returns is never changed), for every file and
\* environment, those with unchecked fallbacks and placeholders included.
THEOREM RunsAreConfigured == Spec => []RunsConfigured
<1>1. Init => StartInv /\ ConfigInv
  BY StartInvInit DEF Init, ProcessInit, ConfigInv, Stages
<1>2. StartInv /\ ConfigInv /\ [Next]_allVars => (StartInv /\ ConfigInv)'
  <2> SUFFICES ASSUME StartInv, ConfigInv, [Next]_allVars PROVE (StartInv /\ ConfigInv)'
    OBVIOUS
  <2>1. CASE ProcessStep
    BY <2>1, StartInvStep, ConfigInvStep DEF ProcessStep, ProcessNext
  <2>2. CASE UNCHANGED processVars
    BY <2>2, StartInvStutter DEF ConfigInv, processVars
  <2> QED BY <2>1, <2>2, NextSplits
<1>3. StartInv /\ ConfigInv => RunsConfigured
  BY DEF StartInv, ConfigInv, RunsConfigured, Checked, Migrated
<1> QED BY <1>1, <1>2, <1>3, PTL DEF Spec
-----------------------------------------------------------------------------
(* Type correctness.                                                       *)

\* Config::load yields a configuration or an error, whatever the file and the
\* environment are.
LEMMA LoadType ==
    ASSUME NEW file \in Config \cup {NoFile, Malformed, Unreadable}, NEW env \in Environment
    PROVE  Config_load(file, env) \in Config \cup {NoConfig}
<1> DEFINE raw == load_from_file(file)
           s == substitute_env_vars(raw, env)
<1> SUFFICES ASSUME raw # NoConfig, signing_load(env) # NoConfig
             PROVE  [s EXCEPT !.signing = signing_load(env)] \in Config
  BY DEF Config_load
<1>1. raw \in Config
  <2>1. default_config \in Config
    BY DEF default_config, Config, default_server, default_logging, default_validation,
       default_beacon_api, default_constraints_api, default_delegation, default_reth,
       default_signing, ServerConfig, LoggingConfig, ValidationConfig, BeaconApiConfig,
       ConstraintsApiConfig, DelegationConfig, RethConfig, SigningConfig, SigningKeys,
       EndpointForms, WhitelistForms
  <2>2. ASSUME file \in Config
        PROVE  [file EXCEPT !.signing = default_signing] \in Config
    BY <2>2 DEF Config, default_signing, SigningConfig, SigningKeys
  <2> QED BY <2>1, <2>2 DEF load_from_file
<1>2. s \in Config
  <2>1. ASSUME NEW e \in EndpointForms, NEW v \in EndpointForms \cup {Unset}
        PROVE  Substituted(e, v) \in EndpointForms
    BY DEF Substituted
  <2>2. /\ Substituted(raw.beacon_api.primary_endpoint, env.BEACON_API_ENDPOINT) \in EndpointForms
        /\ Substituted(raw.reth.endpoint, env.RETH_ENDPOINT) \in EndpointForms
        /\ Substituted(raw.constraints_api.relay_endpoint, env.CONSTRAINTS_API_ENDPOINT)
             \in EndpointForms
    BY <1>1, <2>1 DEF Config, Environment, BeaconApiConfig, RethConfig, ConstraintsApiConfig
  <2> HIDE DEF raw
  <2> QED BY <1>1, <2>2 DEF substitute_env_vars, Config, BeaconApiConfig, RethConfig,
             ConstraintsApiConfig
<1>3. signing_load(env) \in SigningConfig
  BY DEF signing_load, parse_bls_key_ok, SigningConfig, SigningKeys
<1> HIDE DEF s
<1> QED BY <1>2, <1>3 DEF Config

\* The end of a replica keeps the types.
LEMMA EndType ==
    ASSUME ProcessTypeOK, NEW i \in Instances, End(i), UNCHANGED <<deployment, starts, database>>
    PROVE  ProcessTypeOK'
BY DEF ProcessTypeOK, End, Goto, Stages, Jobs

\* So does every step of every replica.
LEMMA ProcessTypeStep ==
    ASSUME ProcessTypeOK, NEW i \in Instances,
           Start(i) \/ MainStep(i) \/ DatabaseFails(i) \/ BindMetrics(i) \/ Kill(i)
    PROVE  ProcessTypeOK'
<1> USE DEF ProcessTypeOK, Goto, Stages, Jobs
<1>1. CASE End(i) /\ UNCHANGED <<deployment, starts, database>>
  BY <1>1, EndType
<1>2. CASE Start(i)
  BY <1>2 DEF Start
<1>3. CASE LoadConfig(i) /\ ~End(i)
  <2>1. Config_load(deployment.file, deployment.env) \in Config \cup {NoConfig}
    BY LoadType, ProcessAssumption
  <2> QED BY <1>3, <2>1 DEF LoadConfig
<1>4. CASE DatabaseExists(i) \/ Connect(i) \/ test_connection(i) \/ PollOnce(i)
  BY <1>4 DEF DatabaseExists, Connect, test_connection, PollOnce
<1>5. CASE CreateDatabase(i) /\ ~End(i)
  BY <1>5 DEF CreateDatabase
<1>6. CASE run_migrations(i) \/ MigrationsDone(i)
  BY <1>6 DEF run_migrations, MigrationsDone
<1>7. CASE ApplyMigration(i)
  <2>1. database' \in [exists : BOOLEAN, applied : 0 .. LastMigration]
    BY <1>7, ProcessAssumption DEF ApplyMigration
  <2> QED BY <1>7, <2>1 DEF ApplyMigration
<1>8. CASE (CreateClients(i) \/ StartSubmission(i)) /\ ~End(i)
  BY <1>8 DEF CreateClients, StartSubmission, start_cache_refresh_service
<1>9. CASE StartPolling(i) \/ StartMetrics(i)
  BY <1>9 DEF StartPolling, StartMetrics
<1>10. CASE run_server(i) /\ ~End(i)
  BY <1>10 DEF run_server
<1>11. CASE BindMetrics(i)
  BY <1>11 DEF BindMetrics
<1>12. (\/ LoadConfig(i) \/ CreateDatabase(i) \/ CreateClients(i) \/ StartSubmission(i)
        \/ run_server(i) \/ DatabaseFails(i) \/ Kill(i)) /\ End(i) =>
          UNCHANGED <<deployment, starts, database>>
  <2>1. ASSUME CreateDatabase(i), End(i) PROVE UNCHANGED database
    BY <2>1 DEF CreateDatabase, End, Goto
  <2> QED BY <2>1 DEF LoadConfig, CreateDatabase, CreateClients, StartSubmission, run_server,
             DatabaseFails, Kill
<1>13. DatabaseFails(i) \/ Kill(i) => End(i)
  BY DEF DatabaseFails, Kill
<1> QED BY <1>1, <1>2, <1>3, <1>4, <1>5, <1>6, <1>7, <1>8, <1>9, <1>10, <1>11, <1>12, <1>13
        DEF MainStep
-----------------------------------------------------------------------------
(* The gauges.                                                             *)

InclusionHashes == {h \in StoredHashes : commitments[h].ctype = 1}
ProposersSeen == {d.proposer : d \in delegations}

\* A table has finitely many rows.
FiniteTables == IsFiniteSet(StoredHashes) /\ IsFiniteSet(delegations)

\* What a gauge shows once the update under way has set it.
Final(g) == IF g \in DOMAIN pending THEN pending[g] ELSE gauges[g]

\* What a total shows, or is about to, is never more than what the table has: rows
\* are never deleted, so a total that was right once is a lower bound for ever.
TotalsBounded ==
    /\ Final("commitments_total") <= Cardinality(StoredHashes)
    /\ Final("commitments_by_type") <= Cardinality(InclusionHashes)
    /\ Final("delegations_total") <= Cardinality(delegations)
    /\ Final("unique_proposers") <= Cardinality(ProposersSeen)

\* What is still to be set was counted by one query, and totals have only grown
\* since; the slots are set last.
UpdateInv ==
    /\ Final("commitments_by_type") <= Final("commitments_total")
    /\ Final("delegations_active") <= Final("delegations_total")
    /\ Final("unique_proposers") <= Final("delegations_total")
    /\ Final("unique_delegates") <= Final("delegations_total")
    /\ Final("slots_covered") <= Final("delegations_active")
    /\ \A g \in {"commitments_total", "commitments_by_type", "delegations_total",
                "unique_proposers"} : gauges[g] <= Final(g)
    /\ "delegations_active" \in DOMAIN pending => "slots_covered" \in DOMAIN pending

MetricsInv ==
    /\ CommitmentsTypeOK
    /\ DelegationsTypeOK
    /\ GaugesTypeOK
    /\ FiniteTables
    /\ TotalsBounded
    /\ GaugesCoherent
    /\ UpdateInv

\* The number of distinct values of a column is at most the number of rows.
LEMMA Distinct ==
    ASSUME NEW S \in SUBSET Delegation, IsFiniteSet(S)
    PROVE  /\ IsFiniteSet({d.proposer : d \in S})
           /\ Cardinality({d.proposer : d \in S}) <= Cardinality(S)
           /\ Cardinality({d.delegate : d \in S}) \in Nat
           /\ Cardinality({d.delegate : d \in S}) <= Cardinality(S)
           /\ Cardinality({d.slot : d \in S}) \in Nat
           /\ Cardinality({d.slot : d \in S}) <= Cardinality(S)
<1>1. [d \in S |-> d.proposer] \in Surjection(S, {d.proposer : d \in S})
  BY DEF Surjection
<1>2. [d \in S |-> d.delegate] \in Surjection(S, {d.delegate : d \in S})
  BY DEF Surjection
<1>3. [d \in S |-> d.slot] \in Surjection(S, {d.slot : d \in S})
  BY DEF Surjection
<1>4. /\ IsFiniteSet({d.proposer : d \in S})
      /\ Cardinality({d.proposer : d \in S}) <= Cardinality(S)
  BY <1>1, FS_Surjection
<1>5. /\ IsFiniteSet({d.delegate : d \in S})
      /\ Cardinality({d.delegate : d \in S}) <= Cardinality(S)
  BY <1>2, FS_Surjection
<1>6. /\ IsFiniteSet({d.slot : d \in S})
      /\ Cardinality({d.slot : d \in S}) <= Cardinality(S)
  BY <1>3, FS_Surjection
<1> QED BY <1>4, <1>5, <1>6, FS_CardinalityType

\* What the queries count, in numbers.
LEMMA CountsType ==
    ASSUME MetricsInv
    PROVE  /\ Cardinality(StoredHashes) \in Nat
           /\ Cardinality(InclusionHashes) \in Nat
           /\ Cardinality(InclusionHashes) <= Cardinality(StoredHashes)
           /\ Cardinality(delegations) \in Nat
           /\ Cardinality(ActiveDelegations) \in Nat
           /\ Cardinality(ActiveDelegations) <= Cardinality(delegations)
           /\ Cardinality(ProposersSeen) \in Nat
           /\ Cardinality(ProposersSeen) <= Cardinality(delegations)
           /\ Cardinality({d.delegate : d \in delegations}) \in Nat
           /\ Cardinality({d.delegate : d \in delegations}) <= Cardinality(delegations)
           /\ Cardinality({d.slot : d \in ActiveDelegations}) \in Nat
           /\ Cardinality({d.slot : d \in ActiveDelegations}) <= Cardinality(ActiveDelegations)
<1>1. /\ delegations \in SUBSET Delegation
      /\ ActiveDelegations \in SUBSET delegations
      /\ ActiveDelegations \in SUBSET Delegation
      /\ InclusionHashes \in SUBSET StoredHashes
      /\ IsFiniteSet(StoredHashes)
      /\ IsFiniteSet(delegations)
  BY DEF MetricsInv, DelegationsTypeOK, FiniteTables, ActiveDelegations, InclusionHashes
<1>2. /\ IsFiniteSet(InclusionHashes)
      /\ Cardinality(InclusionHashes) <= Cardinality(StoredHashes)
  BY <1>1, FS_Subset
<1>3. /\ IsFiniteSet(ActiveDelegations)
      /\ Cardinality(ActiveDelegations) <= Cardinality(delegations)
  BY <1>1, FS_Subset
<1>4. /\ Cardinality(StoredHashes) \in Nat
      /\ Cardinality(InclusionHashes) \in Nat
      /\ Cardinality(delegations) \in Nat
      /\ Cardinality(ActiveDelegations) \in Nat
  BY <1>1, <1>2, <1>3, FS_CardinalityType
<1>5. /\ IsFiniteSet(ProposersSeen)
      /\ Cardinality(ProposersSeen) <= Cardinality(delegations)
  BY <1>1, Distinct DEF ProposersSeen
<1>6. Cardinality(ProposersSeen) \in Nat
  BY <1>5, FS_CardinalityType
<1>7. /\ Cardinality({d.delegate : d \in delegations}) \in Nat
      /\ Cardinality({d.delegate : d \in delegations}) <= Cardinality(delegations)
  BY <1>1, Distinct
<1>8. /\ Cardinality({d.slot : d \in ActiveDelegations}) \in Nat
      /\ Cardinality({d.slot : d \in ActiveDelegations}) <= Cardinality(ActiveDelegations)
  BY <1>1, <1>3, Distinct
<1> QED BY <1>2, <1>3, <1>4, <1>5, <1>6, <1>7, <1>8

\* No step of any job or process deletes a row, or gives it another type.
LEMMA TablesGrow ==
    ASSUME MetricsInv, [Next]_allVars
    PROVE  /\ CommitmentsTypeOK' /\ DelegationsTypeOK' /\ FiniteTables'
           /\ StoredHashes \subseteq StoredHashes'
           /\ InclusionHashes \subseteq InclusionHashes'
           /\ delegations \subseteq delegations'
<1>1. /\ CommitmentsTypeOK
      /\ DelegationsTypeOK
      /\ IsFiniteSet(StoredHashes)
      /\ IsFiniteSet(delegations)
  BY DEF MetricsInv, FiniteTables
<1>2. ASSUME UNCHANGED commitments
      PROVE  /\ CommitmentsTypeOK'
             /\ IsFiniteSet(StoredHashes)'
             /\ StoredHashes \subseteq StoredHashes'
             /\ InclusionHashes \subseteq InclusionHashes'
  <2>1. UNCHANGED <<StoredHashes, InclusionHashes>>
    BY <1>2 DEF StoredHashes, InclusionHashes, commitment_exists
  <2> QED BY <1>1, <1>2, <2>1 DEF CommitmentsTypeOK
<1>3. ASSUME UNCHANGED delegations, UNCHANGED deactivated \/ deactivated' \in SUBSET delegations
      PROVE  /\ DelegationsTypeOK'
             /\ IsFiniteSet(delegations)'
             /\ delegations \subseteq delegations'
  BY <1>1, <1>3 DEF DelegationsTypeOK
<1>4. ASSUME NEW c \in CommitmentInputs,
             save_commitment(c.hash, NewRow(c.ctype, c.slot, c.slasher))
      PROVE  /\ CommitmentsTypeOK'
             /\ IsFiniteSet(StoredHashes)'
             /\ StoredHashes \subseteq StoredHashes'
             /\ InclusionHashes \subseteq InclusionHashes'
  <2>1. CASE commitment_exists(c.hash)
    BY <1>2, <1>4, <2>1 DEF save_commitment
  <2>2. CASE ~commitment_exists(c.hash)
    <3> DEFINE row == NewRow(c.ctype, c.slot, c.slasher)
    <3>1. c.hash \in Hash /\ row \in Row
      BY ObservedAssumption DEF NewRow, Row
    <3>2. row # NoRow
      BY <3>1, StoreAssumption DEF Row
    <3>3. commitments' = [commitments EXCEPT ![c.hash] = row]
      BY <1>4, <2>2 DEF save_commitment
    <3> HIDE DEF row
    <3>4. StoredHashes' = StoredHashes \cup {c.hash}
      BY <1>1, <3>1, <3>2, <3>3 DEF StoredHashes, commitment_exists, CommitmentsTypeOK
    <3>5. IsFiniteSet(StoredHashes \cup {c.hash})
      BY <1>1, FS_AddElement
    <3>6. \A h \in StoredHashes : h \in Hash /\ commitments'[h] = commitments[h]
      BY <1>1, <2>2, <3>3 DEF StoredHashes, CommitmentsTypeOK
    <3>7. CommitmentsTypeOK'
      BY <1>1, <3>1, <3>3 DEF CommitmentsTypeOK
    <3> QED BY <3>4, <3>5, <3>6, <3>7 DEF InclusionHashes
  <2> QED BY <2>1, <2>2
<1>5. ASSUME NEW ds \in SUBSET DelegationInputs, save_delegations_batch(ds)
      PROVE  /\ DelegationsTypeOK'
             /\ IsFiniteSet(delegations)'
             /\ delegations \subseteq delegations'
  <2>1. ds \in SUBSET Delegation
    BY ObservedAssumption
  <2>2. DelegationsTypeOK' /\ delegations \subseteq delegations'
    BY <1>1, <1>5, <2>1 DEF DelegationsTypeOK, save_delegations_batch
  <2>3. PICK ins \in SUBSET DelegationInputs : delegations' = delegations \cup ins
    BY <1>5 DEF save_delegations_batch
  <2>4. IsFiniteSet(ins)
    BY ObservedAssumption, FS_Subset
  <2>5. IsFiniteSet(delegations \cup ins)
    BY <1>1, <2>4, FS_Union
  <2> QED BY <2>2, <2>3, <2>5
<1>6. CASE ProcessStep \/ UpdaterStep \/ UNCHANGED allVars
  <2>1. UNCHANGED <<commitments, delegations, deactivated>>
    BY <1>6 DEF ProcessStep, UpdaterStep, Update, UpdateCommitments, UpdateDelegations,
       UpdateOthers, UpdateFails, SetGauge, allVars, metricsVars, statsVars
  <2> QED BY <1>2, <1>3, <2>1 DEF FiniteTables
<1>7. CASE RequestStores
  <2>1. UNCHANGED <<delegations, deactivated>>
    BY <1>7 DEF RequestStores
  <2>2. \/ UNCHANGED commitments
        \/ \E c \in CommitmentInputs : save_commitment(c.hash, NewRow(c.ctype, c.slot, c.slasher))
    BY <1>7 DEF RequestStores
  <2> QED BY <1>2, <1>3, <1>4, <2>1, <2>2 DEF FiniteTables
<1>8. CASE PollStores
  <2>1. UNCHANGED commitments /\ \E ds \in SUBSET DelegationInputs : save_delegations_batch(ds)
    BY <1>8 DEF PollStores
  <2> QED BY <1>2, <1>5, <2>1 DEF FiniteTables
<1>9. CASE CleanupDeactivates
  <2>1. UNCHANGED <<commitments, delegations>> /\ deactivated' \in SUBSET delegations
    BY <1>1, <1>9 DEF CleanupDeactivates, deactivate, DelegationsTypeOK
  <2> QED BY <1>2, <1>3, <2>1 DEF FiniteTables
<1> QED BY <1>6, <1>7, <1>8, <1>9 DEF Next

\* So the counts never fall.
LEMMA CountsGrow ==
    ASSUME MetricsInv, [Next]_allVars
    PROVE  /\ Cardinality(StoredHashes) <= Cardinality(StoredHashes')
           /\ Cardinality(InclusionHashes) <= Cardinality(InclusionHashes')
           /\ Cardinality(delegations) <= Cardinality(delegations')
           /\ Cardinality(ProposersSeen) <= Cardinality(ProposersSeen')
           /\ Cardinality(StoredHashes') \in Nat
           /\ Cardinality(InclusionHashes') \in Nat
           /\ Cardinality(delegations') \in Nat
           /\ Cardinality(ProposersSeen') \in Nat
<1>1. /\ IsFiniteSet(StoredHashes')
      /\ IsFiniteSet(delegations')
      /\ delegations' \in SUBSET Delegation
      /\ StoredHashes \in SUBSET StoredHashes'
      /\ InclusionHashes \in SUBSET InclusionHashes'
      /\ InclusionHashes' \in SUBSET StoredHashes'
      /\ delegations \in SUBSET delegations'
      /\ ProposersSeen \in SUBSET ProposersSeen'
  BY TablesGrow DEF FiniteTables, DelegationsTypeOK, InclusionHashes, ProposersSeen
<1>2. IsFiniteSet(InclusionHashes')
  BY <1>1, FS_Subset
<1>3. IsFiniteSet(ProposersSeen')
  BY <1>1, Distinct DEF ProposersSeen
<1>4. /\ Cardinality(StoredHashes) <= Cardinality(StoredHashes')
      /\ Cardinality(InclusionHashes) <= Cardinality(InclusionHashes')
      /\ Cardinality(delegations) <= Cardinality(delegations')
      /\ Cardinality(ProposersSeen) <= Cardinality(ProposersSeen')
  BY <1>1, <1>2, <1>3, FS_Subset
<1> QED BY <1>1, <1>2, <1>3, <1>4, FS_CardinalityType

\* The process is replaced, the updater rests or asks for a group that yields
\* nothing, it has an answer to set gauges from, or it sets the next one.
LEMMA GaugeStep ==
    ASSUME MetricsInv, [Next]_allVars
    PROVE  \/ gauges' = no_gauges /\ pending' = nothing /\ stage'[Observed] = "off"
           \/ UNCHANGED <<gauges, pending>>
           \/ /\ UNCHANGED gauges
              /\ DOMAIN pending = {}
              /\ pending' = [commitments_total |-> Cardinality(StoredHashes),
                             commitments_by_type |-> Cardinality(InclusionHashes)]
           \/ /\ UNCHANGED gauges
              /\ DOMAIN pending = {}
              /\ pending' = [delegations_total |-> Cardinality(delegations),
                             delegations_active |-> Cardinality(ActiveDelegations),
                             unique_proposers |-> Cardinality(ProposersSeen),
                             unique_delegates |-> Cardinality({d.delegate : d \in delegations}),
                             slots_covered |-> Cardinality({d.slot : d \in ActiveDelegations})]
           \/ SetGauge
<1>1. CASE ProcessStep
  BY <1>1 DEF ProcessStep, updaterVars
<1>2. CASE UpdaterStep
  <2>1. CASE UpdateCommitments
    BY <2>1 DEF UpdateCommitments, Asks, update_commitment_stats, get_commitment_stats,
       InclusionHashes
  <2>2. CASE UpdateDelegations
    BY <2>2 DEF UpdateDelegations, Asks, update_delegation_stats, get_delegation_stats,
       ProposersSeen
  <2>3. CASE UpdateOthers \/ UpdateFails
    BY <2>3 DEF UpdateOthers, UpdateFails
  <2> QED BY <1>2, <2>1, <2>2, <2>3 DEF UpdaterStep, Update
<1>3. CASE RequestStores \/ PollStores \/ CleanupDeactivates \/ UNCHANGED allVars
  BY <1>3 DEF RequestStores, PollStores, CleanupDeactivates, allVars, metricsVars, updaterVars
<1> QED BY <1>1, <1>2, <1>3 DEF Next

\* The turn of the updater.
LEMMA UpdaterType ==
    ASSUME MetricsInv, [Next]_allVars
    PROVE  group' \in Groups
<1>1. group \in Groups
  BY DEF MetricsInv, GaugesTypeOK
<1>2. CASE UpdaterStep
  BY <1>1, <1>2 DEF UpdaterStep, Update, UpdateCommitments, UpdateDelegations, UpdateOthers,
     UpdateFails, SetGauge, Groups, statsVars
<1>3. CASE ~UpdaterStep
  BY <1>1, <1>3 DEF Next, ProcessStep, RequestStores, PollStores, CleanupDeactivates,
     allVars, metricsVars, updaterVars, statsVars, Groups
<1> QED BY <1>2, <1>3

\* Its values are numbers.
LEMMA FinalType ==
    ASSUME GaugesTypeOK
    PROVE  \A g \in Gauges : gauges[g] \in Nat /\ Final(g) \in Nat
BY DEF GaugesTypeOK, Final

\* One set() call: the gauge shows what it was to show, every other gauge is as it
\* was, and it is the first of its group that was left.
LEMMA SetOne ==
    ASSUME GaugesTypeOK, SetGauge
    PROVE  /\ gauges' \in [Gauges -> Nat]
           /\ \E gs \in SUBSET Gauges : pending' \in [gs -> Nat]
           /\ \A g \in Gauges : Final(g)' = Final(g)
           /\ \E g \in DOMAIN pending :
                /\ g \in Gauges
                /\ \A f \in DOMAIN pending : Place[g] <= Place[f]
                /\ DOMAIN pending' = DOMAIN pending \ {g}
                /\ gauges'[g] = Final(g)
                /\ \A f \in Gauges : f # g => gauges'[f] = gauges[f]
<1>1. PICK gs \in SUBSET Gauges : pending \in [gs -> Nat]
  BY DEF GaugesTypeOK
<1>2. PICK g \in DOMAIN pending :
        /\ \A f \in DOMAIN pending : Place[g] <= Place[f]
        /\ gauges' = [gauges EXCEPT ![g] = pending[g]]
        /\ pending' = [f \in DOMAIN pending \ {g} |-> pending[f]]
  BY DEF SetGauge
<1>3. gauges \in [Gauges -> Nat] /\ g \in Gauges /\ pending[g] \in Nat /\ DOMAIN pending = gs
  BY <1>1 DEF GaugesTypeOK
<1>4. gauges' \in [Gauges -> Nat]
  BY <1>2, <1>3
<1>5. pending' \in [gs \ {g} -> Nat]
  BY <1>1, <1>2, <1>3
<1>6. ASSUME NEW f \in Gauges PROVE Final(f)' = Final(f)
  <2>1. CASE f = g
    BY <1>2, <1>3, <2>1 DEF Final
  <2>2. CASE f # g
    BY <1>2, <1>3, <2>2 DEF Final
  <2> QED BY <2>1, <2>2
<1>7. /\ DOMAIN pending' = DOMAIN pending \ {g}
      /\ gauges'[g] = Final(g)
      /\ \A f \in Gauges : f # g => gauges'[f] = gauges[f]
  BY <1>2, <1>3 DEF Final
<1>8. gs \ {g} \in SUBSET Gauges
  OBVIOUS
<1> QED BY <1>2, <1>3, <1>4, <1>5, <1>6, <1>7, <1>8

\* Setting one gauge keeps what is known of all, and lowers no total: a total is
\* the first of its group, the slots are the last.
LEMMA SetKeeps ==
    ASSUME GaugesTypeOK, UpdateInv, GaugesCoherent, SetGauge
    PROVE  /\ UpdateInv' /\ GaugesCoherent'
           /\ \A g \in {"commitments_total", "commitments_by_type", "delegations_total",
                        "unique_proposers"} : gauges'[g] >= gauges[g]
<1> DEFINE Total == {"commitments_total", "commitments_by_type", "delegations_total",
                     "unique_proposers"}
<1>g. Gauges = {"commitments_total", "commitments_by_type", "delegations_total",
                "delegations_active", "unique_proposers", "unique_delegates", "slots_covered"}
  BY DEF Gauges, Place
<1>1. \A g \in Gauges : gauges[g] \in Nat /\ Final(g) \in Nat /\ Final(g)' = Final(g)
  BY FinalType, SetOne
<1>2. PICK g \in DOMAIN pending :
        /\ g \in Gauges
        /\ \A f \in DOMAIN pending : Place[g] <= Place[f]
        /\ DOMAIN pending' = DOMAIN pending \ {g}
        /\ gauges'[g] = Final(g)
        /\ \A f \in Gauges : f # g => gauges'[f] = gauges[f]
  BY SetOne
<1>3. \A f \in Total : gauges[f] <= Final(f)
  BY DEF UpdateInv
<1>4. \A f \in Total : gauges'[f] \in {gauges[f], Final(f)}
  BY <1>g, <1>2
<1>5. \A f \in Total : gauges'[f] >= gauges[f] /\ gauges'[f] <= Final(f)'
  BY <1>g, <1>1, <1>3, <1>4
<1>6. g # "commitments_total" => "commitments_total" \notin DOMAIN pending \/ g \notin {"commitments_by_type"}
  BY <1>2 DEF Place
<1>7. g \in {"delegations_active", "unique_proposers", "unique_delegates", "slots_covered"} =>
        "delegations_total" \notin DOMAIN pending
  BY <1>2 DEF Place
<1>8. g = "slots_covered" => "delegations_active" \notin DOMAIN pending
  BY <1>2 DEF Place
<1>9. UpdateInv'
  <2>1. /\ Final("commitments_by_type")' <= Final("commitments_total")'
        /\ Final("delegations_active")' <= Final("delegations_total")'
        /\ Final("unique_proposers")' <= Final("delegations_total")'
        /\ Final("unique_delegates")' <= Final("delegations_total")'
        /\ Final("slots_covered")' <= Final("delegations_active")'
    BY <1>g, <1>1 DEF UpdateInv
  <2>2. "delegations_active" \in DOMAIN pending' => "slots_covered" \in DOMAIN pending'
    BY <1>2, <1>8 DEF UpdateInv
  <2> QED BY <1>5, <2>1, <2>2 DEF UpdateInv
<1>10. GaugesCoherent'
  <2>1. gauges'.commitments_by_type <= gauges'.commitments_total
    <3>1. CASE g = "commitments_by_type"
      <4>1. Final("commitments_total") = gauges["commitments_total"]
        BY <1>6, <3>1 DEF Final
      <4> QED BY <1>g, <1>1, <1>2, <3>1, <4>1 DEF UpdateInv
    <3>2. CASE g # "commitments_by_type"
      BY <1>g, <1>1, <1>2, <1>5, <3>2 DEF GaugesCoherent
    <3> QED BY <3>1, <3>2
  <2>2. ASSUME NEW x \in {"delegations_active", "unique_proposers", "unique_delegates"}
        PROVE  gauges'[x] <= gauges'["delegations_total"]
    <3>0. /\ Final(x) <= Final("delegations_total")
          /\ gauges[x] <= gauges["delegations_total"]
          /\ x \in Gauges /\ x # "delegations_total"
      BY <1>g DEF UpdateInv, GaugesCoherent
    <3>1. CASE g = x
      <4>1. Final("delegations_total") = gauges["delegations_total"]
        BY <1>7, <3>1 DEF Final
      <4> QED BY <1>g, <1>1, <1>2, <3>0, <3>1, <4>1
    <3>2. CASE g # x
      <4>1. gauges'[x] = gauges[x]
        BY <1>2, <3>0, <3>2
      <4>2. gauges'["delegations_total"] >= gauges["delegations_total"]
        BY <1>5
      <4>3. gauges'["delegations_total"] \in Nat
        BY <1>g, SetOne
      <4> QED BY <1>g, <1>1, <3>0, <4>1, <4>2, <4>3
    <3> QED BY <3>1, <3>2
  <2>3. ASSUME "slots_covered" \notin DOMAIN pending'
        PROVE  gauges'.slots_covered <= gauges'.delegations_active
    <3>1. CASE "slots_covered" \in DOMAIN pending
      <4>1. g = "slots_covered"
        BY <1>2, <2>3, <3>1
      <4>2. Final("delegations_active") = gauges["delegations_active"]
        BY <1>8, <4>1 DEF Final
      <4> QED BY <1>g, <1>1, <1>2, <4>1, <4>2 DEF UpdateInv
    <3>2. CASE "slots_covered" \notin DOMAIN pending
      <4>1. g \notin {"slots_covered", "delegations_active"}
        BY <3>2 DEF UpdateInv
      <4> QED BY <1>g, <1>2, <3>2, <4>1 DEF GaugesCoherent
    <3> QED BY <3>1, <3>2
  <2> QED BY <2>1, <2>2, <2>3 DEF GaugesCoherent
<1> QED BY <1>5, <1>9, <1>10

\* An answer to set gauges from is coherent, and its totals are no lower than what
\* is shown.
LEMMA AskKeeps ==
    ASSUME MetricsInv, UNCHANGED gauges, DOMAIN pending = {},
           \/ pending' = [commitments_total |-> Cardinality(StoredHashes),
                          commitments_by_type |-> Cardinality(InclusionHashes)]
           \/ pending' = [delegations_total |-> Cardinality(delegations),
                          delegations_active |-> Cardinality(ActiveDelegations),
                          unique_proposers |-> Cardinality(ProposersSeen),
                          unique_delegates |-> Cardinality({d.delegate : d \in delegations}),
                          slots_covered |-> Cardinality({d.slot : d \in ActiveDelegations})]
    PROVE  /\ \E gs \in SUBSET Gauges : pending' \in [gs -> Nat]
           /\ UpdateInv' /\ GaugesCoherent'
           /\ Final("commitments_total")' <= Cardinality(StoredHashes)
           /\ Final("commitments_by_type")' <= Cardinality(InclusionHashes)
           /\ Final("delegations_total")' <= Cardinality(delegations)
           /\ Final("unique_proposers")' <= Cardinality(ProposersSeen)
<1> DEFINE stored == Cardinality(StoredHashes)
           type1 == Cardinality(InclusionHashes)
           total == Cardinality(delegations)
           proposers == Cardinality(ProposersSeen)
           active == Cardinality(ActiveDelegations)
           delegates == Cardinality({d.delegate : d \in delegations})
           slots == Cardinality({d.slot : d \in ActiveDelegations})
<1>g. Gauges = {"commitments_total", "commitments_by_type", "delegations_total",
                "delegations_active", "unique_proposers", "unique_delegates", "slots_covered"}
  BY DEF Gauges, Place
<1>1. /\ stored \in Nat /\ type1 \in Nat /\ total \in Nat /\ proposers \in Nat
      /\ active \in Nat /\ delegates \in Nat /\ slots \in Nat
      /\ type1 <= stored /\ active <= total /\ proposers <= total
      /\ delegates <= total /\ slots <= active
  BY CountsType
<1>2. \A g \in Gauges : gauges[g] \in Nat /\ Final(g) = gauges[g]
  BY FinalType DEF MetricsInv, Final
<1>3. /\ gauges["commitments_total"] <= stored
      /\ gauges["commitments_by_type"] <= type1
      /\ gauges["delegations_total"] <= total
      /\ gauges["unique_proposers"] <= proposers
  BY <1>g, <1>2 DEF MetricsInv, TotalsBounded
<1>4. UpdateInv /\ GaugesCoherent
  BY DEF MetricsInv
<1> SUFFICES /\ \E gs \in SUBSET Gauges : pending' \in [gs -> Nat]
             /\ UpdateInv' /\ GaugesCoherent'
             /\ Final("commitments_total")' <= stored
             /\ Final("commitments_by_type")' <= type1
             /\ Final("delegations_total")' <= total
             /\ Final("unique_proposers")' <= proposers
  OBVIOUS
<1> HIDE DEF stored, type1, total, proposers, active, delegates, slots
<1>5. CASE pending' = [commitments_total |-> stored, commitments_by_type |-> type1]
  <2>1. /\ DOMAIN pending' = {"commitments_total", "commitments_by_type"}
        /\ pending'["commitments_total"] = stored
        /\ pending'["commitments_by_type"] = type1
    BY <1>5
  <2>2. pending' \in [{"commitments_total", "commitments_by_type"} -> Nat]
    BY <1>1, <1>5
  <2>3. /\ Final("commitments_total")' = stored
        /\ Final("commitments_by_type")' = type1
        /\ \A g \in Gauges : g \notin {"commitments_total", "commitments_by_type"} =>
              Final(g)' = gauges[g]
    BY <2>1 DEF Final
  <2>4. UpdateInv'
    BY <1>g, <1>1, <1>2, <1>3, <1>4, <2>1, <2>3 DEF UpdateInv
  <2>5. GaugesCoherent'
    BY <1>4 DEF GaugesCoherent
  <2>6. {"commitments_total", "commitments_by_type"} \in SUBSET Gauges
    BY <1>g
  <2>7. \E gs \in SUBSET Gauges : pending' \in [gs -> Nat]
    BY ONLY <2>2, <2>6
  <2>8. /\ Final("commitments_total")' <= stored
        /\ Final("commitments_by_type")' <= type1
    BY <2>3, <1>1
  <2>9. /\ Final("delegations_total")' <= total
        /\ Final("unique_proposers")' <= proposers
    BY <1>g, <2>3, <1>3
  <2> QED BY <2>4, <2>5, <2>7, <2>8, <2>9
<1>6. CASE pending' = [delegations_total |-> total, delegations_active |-> active,
                       unique_proposers |-> proposers, unique_delegates |-> delegates,
                       slots_covered |-> slots]
  <2> DEFINE D == {"delegations_total", "delegations_active", "unique_proposers",
                   "unique_delegates", "slots_covered"}
  <2>1. /\ DOMAIN pending' = D
        /\ pending'["delegations_total"] = total
        /\ pending'["delegations_active"] = active
        /\ pending'["unique_proposers"] = proposers
        /\ pending'["unique_delegates"] = delegates
        /\ pending'["slots_covered"] = slots
    BY <1>6
  <2>2. pending' \in [D -> Nat]
    BY <1>1, <1>6
  <2>3. /\ Final("delegations_total")' = total
        /\ Final("delegations_active")' = active
        /\ Final("unique_proposers")' = proposers
        /\ Final("unique_delegates")' = delegates
        /\ Final("slots_covered")' = slots
        /\ Final("commitments_total")' = gauges["commitments_total"]
        /\ Final("commitments_by_type")' = gauges["commitments_by_type"]
    BY <2>1 DEF Final
  <2>4. UpdateInv'
    BY <1>g, <1>1, <1>2, <1>3, <1>4, <2>1, <2>3 DEF UpdateInv
  <2>5. GaugesCoherent'
    BY <1>4, <2>1 DEF GaugesCoherent
  <2>6. D \in SUBSET Gauges
    BY <1>g
  <2>7. \E gs \in SUBSET Gauges : pending' \in [gs -> Nat]
    BY ONLY <2>2, <2>6
  <2>8. /\ Final("commitments_total")' <= stored
        /\ Final("commitments_by_type")' <= type1
        /\ Final("delegations_total")' <= total
        /\ Final("unique_proposers")' <= proposers
    BY <1>1, <1>3, <2>3
  <2> QED BY <2>4, <2>5, <2>7, <2>8
<1> QED BY <1>5, <1>6 DEF stored, type1, total, proposers, active, delegates, slots

\* Every step keeps the invariant, and lowers no total of a process that lives.
LEMMA MetricsStep ==
    ASSUME MetricsInv, [Next]_allVars
    PROVE  /\ MetricsInv'
           /\ stage'[Observed] # "off" =>
                /\ gauges'.commitments_total >= gauges.commitments_total
                /\ gauges'.commitments_by_type >= gauges.commitments_by_type
                /\ gauges'.delegations_total >= gauges.delegations_total
                /\ gauges'.unique_proposers >= gauges.unique_proposers
<1> DEFINE Total == {"commitments_total", "commitments_by_type", "delegations_total",
                     "unique_proposers"}
           Bounded == /\ Final("commitments_total")' <= Cardinality(StoredHashes)
                      /\ Final("commitments_by_type")' <= Cardinality(InclusionHashes)
                      /\ Final("delegations_total")' <= Cardinality(delegations)
                      /\ Final("unique_proposers")' <= Cardinality(ProposersSeen)
           TypeNext == /\ gauges' \in [Gauges -> Nat]
                       /\ \E gs \in SUBSET Gauges : pending' \in [gs -> Nat]
           NoLess == \A g \in Total : gauges'[g] >= gauges[g]
<1>g. Gauges = {"commitments_total", "commitments_by_type", "delegations_total",
                "delegations_active", "unique_proposers", "unique_delegates", "slots_covered"}
  BY DEF Gauges, Place
<1>1. GaugesTypeOK /\ TotalsBounded /\ GaugesCoherent /\ UpdateInv
  BY DEF MetricsInv
<1>2. \A g \in Gauges : gauges[g] \in Nat /\ Final(g) \in Nat
  BY <1>1, FinalType
<1>3. TypeNext /\ Bounded /\ UpdateInv' /\ GaugesCoherent' /\ (stage'[Observed] # "off" => NoLess)
  <2>1. CASE gauges' = no_gauges /\ pending' = nothing /\ stage'[Observed] = "off"
    <3>1. /\ \A g \in Gauges : gauges'[g] = 0 /\ Final(g)' = 0
          /\ DOMAIN pending' = {}
      BY <2>1 DEF no_gauges, nothing, Final
    <3>2. TypeNext
      BY <2>1 DEF no_gauges, nothing
    <3>3. Bounded
      BY <1>g, <3>1, CountsType
    <3>4. UpdateInv' /\ GaugesCoherent'
      BY <1>g, <3>1 DEF UpdateInv, GaugesCoherent
    <3> QED BY <2>1, <3>2, <3>3, <3>4
  <2>2. CASE UNCHANGED <<gauges, pending>>
    <3>1. \A g : Final(g)' = Final(g)
      BY <2>2 DEF Final
    <3>2. TypeNext
      BY <1>1, <2>2 DEF GaugesTypeOK
    <3>3. Bounded
      BY <1>1, <3>1 DEF TotalsBounded
    <3>4. UpdateInv' /\ GaugesCoherent'
      BY <1>1, <2>2, <3>1 DEF UpdateInv, GaugesCoherent
    <3>5. NoLess
      BY <1>g, <1>2, <2>2
    <3> QED BY <3>2, <3>3, <3>4, <3>5
  <2>3. CASE /\ UNCHANGED gauges
             /\ DOMAIN pending = {}
             /\ \/ pending' = [commitments_total |-> Cardinality(StoredHashes),
                               commitments_by_type |-> Cardinality(InclusionHashes)]
                \/ pending' = [delegations_total |-> Cardinality(delegations),
                               delegations_active |-> Cardinality(ActiveDelegations),
                               unique_proposers |-> Cardinality(ProposersSeen),
                               unique_delegates |-> Cardinality({d.delegate : d \in delegations}),
                               slots_covered |-> Cardinality({d.slot : d \in ActiveDelegations})]
    <3>1. Bounded /\ UpdateInv' /\ GaugesCoherent'
          /\ \E gs \in SUBSET Gauges : pending' \in [gs -> Nat]
      BY <2>3, AskKeeps
    <3>2. gauges' \in [Gauges -> Nat]
      BY <1>1, <2>3 DEF GaugesTypeOK
    <3>3. NoLess
      BY <1>g, <1>2, <2>3
    <3> QED BY <3>1, <3>2, <3>3
  <2>4. CASE SetGauge
    <3>1. TypeNext
      BY <1>1, <2>4, SetOne
    <3>2. UpdateInv' /\ GaugesCoherent' /\ NoLess
      BY <1>1, <2>4, SetKeeps
    <3>3. \A g \in Gauges : Final(g)' = Final(g)
      BY <1>1, <2>4, SetOne
    <3>4. Bounded
      BY <1>g, <1>1, <3>3 DEF TotalsBounded
    <3> QED BY <3>1, <3>2, <3>4
  <2> HIDE DEF TypeNext, Bounded, NoLess
  <2> QED BY <2>1, <2>2, <2>3, <2>4, GaugeStep
<1>4. GaugesTypeOK'
  BY <1>3, UpdaterType DEF GaugesTypeOK
<1>5. TotalsBounded'
  <2>1. \A g \in Gauges : Final(g)' \in Nat
    BY <1>4, FinalType DEF GaugesTypeOK, Final
  <2>2. /\ Cardinality(StoredHashes) <= Cardinality(StoredHashes')
        /\ Cardinality(InclusionHashes) <= Cardinality(InclusionHashes')
        /\ Cardinality(delegations) <= Cardinality(delegations')
        /\ Cardinality(ProposersSeen) <= Cardinality(ProposersSeen')
        /\ Cardinality(StoredHashes') \in Nat
        /\ Cardinality(InclusionHashes') \in Nat
        /\ Cardinality(delegations') \in Nat
        /\ Cardinality(ProposersSeen') \in Nat
    BY CountsGrow
  <2>3. /\ Cardinality(StoredHashes) \in Nat
        /\ Cardinality(InclusionHashes) \in Nat
        /\ Cardinality(delegations) \in Nat
        /\ Cardinality(ProposersSeen) \in Nat
    BY CountsType
  <2> QED BY <1>g, <1>3, <2>1, <2>2, <2>3 DEF TotalsBounded
<1>6. MetricsInv'
  BY <1>3, <1>4, <1>5, TablesGrow DEF MetricsInv
<1> QED BY <1>3, <1>6

\* Empty tables and no gauges at the start.
LEMMA MetricsStart == Init => MetricsInv
<1> SUFFICES ASSUME Init PROVE MetricsInv
  OBVIOUS
<1>1. StoredHashes = {} /\ InclusionHashes = {} /\ delegations = {} /\ ProposersSeen = {}
  BY DEF Init, StoredHashes, InclusionHashes, ProposersSeen, commitment_exists
<1>2. IsFiniteSet({}) /\ Cardinality({}) = 0
  BY FS_EmptySet
<1>g. Gauges = {"commitments_total", "commitments_by_type", "delegations_total",
                "delegations_active", "unique_proposers", "unique_delegates", "slots_covered"}
  BY DEF Gauges, Place
<1>3. /\ gauges = no_gauges /\ pending = nothing /\ group = "commitments"
      /\ DOMAIN pending = {}
  BY DEF Init, nothing
<1>4. \A g \in Gauges : gauges[g] = 0 /\ Final(g) = 0
  BY <1>3 DEF no_gauges, Final
<1>5. FiniteTables /\ TotalsBounded
  BY <1>g, <1>1, <1>2, <1>4 DEF FiniteTables, TotalsBounded
<1>6. GaugesCoherent /\ UpdateInv
  BY <1>g, <1>3, <1>4 DEF GaugesCoherent, UpdateInv
<1>7. GaugesTypeOK
  <2>1. pending \in [{} -> Nat]
    BY <1>3 DEF nothing
  <2>2. gauges \in [Gauges -> Nat]
    BY <1>3 DEF no_gauges
  <2> QED BY <1>3, <2>1, <2>2 DEF GaugesTypeOK, Groups
<1>8. CommitmentsTypeOK /\ DelegationsTypeOK
  BY DEF Init, CommitmentsTypeOK, DelegationsTypeOK
<1> QED BY <1>5, <1>6, <1>7, <1>8 DEF MetricsInv

\* Processes, tables and gauges keep their types, the configuration Config::load
\* puts together from any file and environment included.
THEOREM ProcessTypeCorrect == Spec => []TypeOK
<1>1. Init => ProcessTypeOK /\ MetricsInv
  BY MetricsStart, ProcessAssumption DEF Init, ProcessInit, ProcessTypeOK, Stages, Jobs
<1>2. ProcessTypeOK /\ MetricsInv /\ [Next]_allVars => (ProcessTypeOK /\ MetricsInv)'
  <2> SUFFICES ASSUME ProcessTypeOK, MetricsInv, [Next]_allVars
               PROVE  ProcessTypeOK' /\ MetricsInv'
    OBVIOUS
  <2>1. CASE ProcessStep
    BY <2>1, ProcessTypeStep, MetricsStep DEF ProcessStep, ProcessNext
  <2>2. CASE UNCHANGED processVars
    BY <2>2, MetricsStep DEF ProcessTypeOK, processVars
  <2> QED BY <2>1, <2>2, NextSplits
<1>3. ProcessTypeOK /\ MetricsInv => TypeOK
  BY DEF MetricsInv, TypeOK
<1> QED BY <1>1, <1>2, <1>3, PTL DEF Spec

\* Although update_delegation_stats sets five gauges one after the other while jobs
\* of all replicas change the tables, at no moment are there more active
\* delegations, proposers or delegates than delegations, or more inclusion
\* commitments than commitments; and no more slots than active delegations unless
\* these two are just being set.
THEOREM GaugesAreCoherent == Spec => []GaugesCoherent
<1>1. MetricsInv /\ [Next]_allVars => MetricsInv'
  BY MetricsStep
<1>2. MetricsInv => GaugesCoherent
  BY DEF MetricsInv
<1> QED BY <1>1, <1>2, MetricsStart, PTL DEF Spec

\* The totals a living process exports never fall, however many replicas write the
\* tables it counts: save_commitment and the poller only add rows, the cleanup only
\* clears is_active.
THEOREM TotalsOnlyRise == Spec => TotalsNeverFall
<1>1. MetricsInv /\ [Next]_allVars => MetricsInv'
  BY MetricsStep
<1>2. MetricsInv /\ [Next]_allVars =>
        [stage'[Observed] # "off" =>
            /\ gauges'.commitments_total >= gauges.commitments_total
            /\ gauges'.commitments_by_type >= gauges.commitments_by_type
            /\ gauges'.delegations_total >= gauges.delegations_total
            /\ gauges'.unique_proposers >= gauges.unique_proposers]_allVars
  BY MetricsStep
<1> QED BY <1>1, <1>2, MetricsStart, PTL DEF Spec, TotalsNeverFall
================================================================================
