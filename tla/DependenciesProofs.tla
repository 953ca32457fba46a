--------------------------- MODULE DependenciesProofs ---------------------------
(***************************************************************************)
(* Theorems about module Dependencies, for any configured databases, any   *)
(* secrets and any number of edits.                                        *)
(***************************************************************************)
EXTENDS Dependencies, TLAPS

-----------------------------------------------------------------------------
(***************************************************************************)
(* What the exit code of the dependency check says.  The strengthening     *)
(* follows a check from service to service: whatever it called good was    *)
(* good when it asked, and it reports only when it has asked them all.     *)
(***************************************************************************)
Asked(n) == result[n] # "none"

Served ==
  /\ service \in [Names -> UNION {Conditions[n] : n \in Names}]
  /\ service["postgresql"] \in Conditions["postgresql"]

SoFar ==
  /\ result \in [Names -> Results] /\ met \subseteq Names
  /\ \A n \in Names : result[n] = "ok" => n \in met
  /\ step = "redis" => Asked("postgresql")
  /\ step = "blob" => Asked("postgresql") /\ Asked("redis")
  /\ step = "report" => \A n \in Names : Asked(n)
  /\ code # 9 => step = "done"

CheckInv == Served /\ SoFar /\ PassMeansServing

\* A probe keeps what the check knows, when it reports "ok" only of a good service.
LEMMA FoundKeeps ==
  ASSUME CheckInv, NEW n \in Names, NEW r \in Results \ {"none"}, NEW next, Found(n, r, next),
         r = "ok" => service[n] = "good",
         \/ n = "postgresql" /\ next = "redis"
         \/ n = "redis" /\ next = "blob"
         \/ n = "blob" /\ next = "report"
  PROVE  CheckInv'
<1>. USE DEF CheckInv
<1>1. /\ result' = [result EXCEPT ![n] = r]
      /\ met' = IF service[n] = "good" THEN met \cup {n} ELSE met
      /\ step = n /\ step' = next /\ code' = code /\ db' = db /\ service' = service
  BY DEF Found, worldVars
<1>2. code = 9
  BY <1>1 DEF SoFar, Names
<1>3. result' \in [Names -> Results] /\ met' \subseteq Names
  BY <1>1 DEF SoFar
<1>4. \A m \in Names : result'[m] = IF m = n THEN r ELSE result[m]
  BY <1>1 DEF SoFar
<1>5. \A m \in Names : result'[m] = "ok" => m \in met'
  BY <1>1, <1>4 DEF SoFar
<1>6. /\ step' = "redis" => result'["postgresql"] # "none"
      /\ step' = "blob" => result'["postgresql"] # "none" /\ result'["redis"] # "none"
      /\ step' = "report" => \A m \in Names : result'[m] # "none"
  BY <1>1, <1>4 DEF SoFar, Asked, Names
<1>7. SoFar'
  BY <1>1, <1>2, <1>3, <1>5, <1>6 DEF SoFar, Asked
<1>. QED
  BY <1>1, <1>2, <1>7 DEF PassMeansServing, Served

\* PostgreSQL is "ok" only if it was good and took the secret for a password.
LEMMA PostgresOk ==
  ASSUME Served, CheckPostgres, Postgres = "ok"
  PROVE  secret = password /\ service["postgresql"] = "good"
<1>1. /\ service["postgresql"] \notin {"down", "silent", "old", "bare"}
      /\ Resolve(secret) # Unset /\ secret = password
  BY DEF Postgres
<1>2. service["postgresql"] # "stalled"
  BY <1>1 DEF CheckPostgres, Resolve
<1>. QED
  BY <1>1, <1>2 DEF Served, Conditions

\* The strengthening is inductive.
LEMMA CheckInvariant == DependenciesSpec => []CheckInv
<1>1. DependenciesInit => CheckInv
  <2>. SUFFICES ASSUME DependenciesInit PROVE CheckInv
    OBVIOUS
  <2>1. Served
    BY DEF DependenciesInit, Served, Names, Conditions
  <2>. QED
    BY <2>1 DEF DependenciesInit, CheckInv, SoFar, PassMeansServing, Results
<1>2. CheckInv /\ [DependenciesNext]_dependencyVars => CheckInv'
  <2>. SUFFICES ASSUME CheckInv, [DependenciesNext]_dependencyVars PROVE CheckInv'
    OBVIOUS
  <2>1. ASSUME UNCHANGED <<checkVars, db>>, Served' PROVE CheckInv'
    BY <2>1 DEF checkVars, CheckInv, SoFar, Asked, PassMeansServing
  <2>2. ASSUME Rotate PROVE CheckInv'
    BY <2>1, <2>2 DEF Rotate, Edit, CheckInv, Served
  <2>3. ASSUME NEW n \in Names, ServiceChanges(n) PROVE CheckInv'
    <3>1. Served'
      <4>1. PICK c \in Conditions[n] : service' = [service EXCEPT ![n] = c]
        BY <2>3 DEF ServiceChanges
      <4>2. service' \in [Names -> UNION {Conditions[m] : m \in Names}]
        BY <4>1 DEF CheckInv, Served
      <4>3. service'["postgresql"] \in Conditions["postgresql"]
        BY <4>1 DEF CheckInv, Served, Names
      <4>. QED
        BY <4>2, <4>3 DEF Served
    <3>. QED
      BY <2>1, <2>3, <3>1 DEF ServiceChanges, Edit
  <2>4. ASSUME StartCheck PROVE CheckInv'
    <3>1. /\ result' = [n \in Names |-> "none"] /\ met' = {} /\ db' = db /\ service' = service
          /\ \/ step' = "postgresql" /\ code' = 9
             \/ step' = "done" /\ code' = 2
      BY <2>4 DEF StartCheck, worldVars
    <3>2. result' \in [Names -> Results] /\ \A n \in Names : result'[n] = "none"
      BY <3>1 DEF Results
    <3>. QED
      BY <3>1, <3>2 DEF CheckInv, Served, SoFar, PassMeansServing
  <2>5. ASSUME CheckPostgres PROVE CheckInv'
    <3>1. Postgres \in Results \ {"none"}
      BY DEF Postgres, Results
    <3>3. Found("postgresql", Postgres, "redis")
      BY <2>5 DEF CheckPostgres
    <3>4. Postgres = "ok" => service["postgresql"] = "good"
      BY <2>5, PostgresOk DEF CheckInv
    <3>. HIDE DEF Postgres
    <3>. QED
      BY <3>1, <3>3, <3>4, FoundKeeps DEF Names
  <2>6. ASSUME CheckRedis PROVE CheckInv'
    <3>1. PICK r \in Redis : Found("redis", r, "blob")
      BY <2>6 DEF CheckRedis
    <3>2. r \in Results \ {"none"} /\ (r = "ok" => service["redis"] = "good")
      BY <3>1 DEF Redis, Results
    <3>. QED
      BY <3>1, <3>2, FoundKeeps DEF Names
  <2>7. ASSUME CheckBlob PROVE CheckInv'
    <3>. DEFINE r == IF service["blob"] = "good" THEN "ok" ELSE "unreachable"
    <3>1. Found("blob", r, "report") /\ r \in Results \ {"none"}
          /\ (r = "ok" => service["blob"] = "good")
      BY <2>7 DEF CheckBlob, Results
    <3>. HIDE DEF r
    <3>. QED
      BY <3>1, FoundKeeps DEF Names
  <2>8. ASSUME CheckBlobRaises PROVE CheckInv'
    <3>1. step' = "done" /\ code' = 1 /\ ~db'.blob /\ result' = result /\ met' = met
          /\ service' = service
      BY <2>8 DEF CheckBlobRaises, worldVars
    <3>. QED
      BY <3>1 DEF CheckInv, Served, SoFar, Asked, PassMeansServing
  <2>9. ASSUME Report PROVE CheckInv'
    <3>1. /\ step = "report" /\ step' = "done" /\ code' = ExitCode
          /\ result' = result /\ met' = met /\ db' = db /\ service' = service
      BY <2>9 DEF Report, worldVars
    <3>2. ExitCode \in {0, 1}
      BY DEF ExitCode
    <3>3. ExitCode = 0 => met = Names
      BY DEF ExitCode, CheckInv, SoFar
    <3>4. ExitCode = 1 => \E n \in Names : result[n] \notin {"none", "ok"}
      BY <3>1 DEF ExitCode, CheckInv, SoFar, Asked
    <3>. QED
      BY <3>1, <3>2, <3>3, <3>4 DEF CheckInv, Served, SoFar, Asked, PassMeansServing
  <2>10. ASSUME \/ StartMigration \/ ConnectMigration
                \/ \E outcome \in {"applied", "failed"} : RunMigration(outcome)
         PROVE  CheckInv'
    BY <2>1, <2>10 DEF StartMigration, ConnectMigration, RunMigration, worldVars, CheckInv, Served
  <2>11. CASE UNCHANGED dependencyVars
    BY <2>1, <2>11 DEF dependencyVars, worldVars, CheckInv, Served
  <2>. QED
    BY <2>2, <2>3, <2>4, <2>5, <2>6, <2>7, <2>8, <2>9, <2>10, <2>11 DEF DependenciesNext
<1>. QED
  BY <1>1, <1>2, PTL DEF DependenciesSpec

\* A check that passes met every service good; one that fails names a service or
\* could not ask: for any databases, secrets, edits and partial replies.
THEOREM PassMeansServingHolds == DependenciesSpec => []PassMeansServing
<1>1. CheckInv => PassMeansServing
  BY DEF CheckInv
<1>. QED
  BY <1>1, CheckInvariant, PTL

-----------------------------------------------------------------------------
(***************************************************************************)
(* Type correctness, which holds of itself.                                *)
(***************************************************************************)
\* What a probe may find.
LEMMA ResultTypes ==
  /\ Postgres \in Results
  /\ Redis \subseteq Results
  BY DEF Postgres, Redis, Results

\* A step of the check keeps the types: it leaves a migration alone.
LEMMA CheckStepType ==
  ASSUME DependenciesTypeOK, StartCheck \/ CheckGoesOn
  PROVE  DependenciesTypeOK'
<1>. USE DEF DependenciesTypeOK, Running, Migrating
<1>1. CASE StartCheck
  <2>1. UNCHANGED <<worldVars, migrateVars>> /\ stale' = FALSE
    BY <1>1 DEF StartCheck
  <2>2. /\ result' \in [Names -> Results] /\ met' \subseteq Names
        /\ step' \in Names \cup {"idle", "report", "done"} /\ code' \in {0, 1, 2, 9}
    BY <1>1 DEF StartCheck, Results, Names
  <2>. QED
    BY <2>1, <2>2 DEF worldVars, migrateVars
<1>2. ASSUME NEW n \in Names, NEW r \in Results, NEW next \in {"redis", "blob", "report"},
             Found(n, r, next)
      PROVE  DependenciesTypeOK'
  <2>1. UNCHANGED <<worldVars, migrateVars, code, stale>>
    BY <1>2 DEF Found
  <2>2. result' \in [Names -> Results] /\ met' \subseteq Names
    BY <1>2 DEF Found
  <2>3. step' \in Names \cup {"idle", "report", "done"}
    BY <1>2 DEF Found, Names
  <2>. QED
    BY <2>1, <2>2, <2>3 DEF worldVars, migrateVars
<1>3. CASE CheckPostgres
  BY <1>2, <1>3, ResultTypes DEF CheckPostgres, Names
<1>4. CASE CheckRedis
  BY <1>2, <1>4, ResultTypes DEF CheckRedis, Names
<1>5. CASE CheckBlob
  <2>1. PICK r \in {"ok", "unreachable"} : Found("blob", r, "report")
    BY <1>5 DEF CheckBlob
  <2>2. r \in Results
    BY DEF Results
  <2>. QED
    BY <1>2, <2>1, <2>2 DEF Names
<1>6. CASE CheckBlobRaises \/ Report
  <2>1. UNCHANGED <<worldVars, migrateVars, result, met, stale>>
    BY <1>6 DEF CheckBlobRaises, Report
  <2>2. step' = "done" /\ code' \in {0, 1}
    BY <1>6 DEF CheckBlobRaises, Report, ExitCode
  <2>. QED
    BY <2>1, <2>2 DEF worldVars, migrateVars
<1>. QED
  BY <1>1, <1>3, <1>4, <1>5, <1>6 DEF CheckGoesOn

\* So does a step of a migration: every way out of it goes through the finally
\* clause.
LEMMA MigrationStepType ==
  ASSUME DependenciesTypeOK,
         \/ StartMigration \/ ConnectMigration
         \/ \E outcome \in {"applied", "failed"} : RunMigration(outcome)
  PROVE  DependenciesTypeOK'
<1>. USE DEF DependenciesTypeOK, Running, Migrating
<1>1. UNCHANGED <<worldVars, checkVars, stale>>
  BY DEF StartMigration, ConnectMigration, RunMigration
<1>2. \/ migration' \in {"connecting", "running"} /\ engine' = TRUE
      \/ migration' \in {"applied", "failed"} /\ engine' = FALSE
  <2>1. CASE StartMigration
    BY <2>1 DEF StartMigration, Ends
  <2>2. CASE ConnectMigration
    BY <2>2 DEF ConnectMigration, Ends
  <2>3. CASE \E outcome \in {"applied", "failed"} : RunMigration(outcome)
    BY <2>3 DEF RunMigration, Ends
  <2>. QED
    BY <2>1, <2>2, <2>3
<1>3. read' \subseteq Parts
  BY DEF StartMigration, ConnectMigration, RunMigration, ReadBack
<1>. QED
  BY <1>1, <1>2, <1>3 DEF worldVars, checkVars

\* Every variable keeps its type, and an engine exists exactly while a migration
\* needs it, whether or not a check runs beside it.
THEOREM DependenciesTypeCorrect == DependenciesSpec => []DependenciesTypeOK
<1>. USE DependenciesAssumption DEF DependenciesAssumption
<1>1. DependenciesInit => DependenciesTypeOK
  <2>. SUFFICES ASSUME DependenciesInit PROVE DependenciesTypeOK
    OBVIOUS
  <2>1. service \in [Names -> UNION {Conditions[n] : n \in Names}]
    <3>1. \A n \in Names : "good" \in Conditions[n]
      BY DEF Names, Conditions
    <3>. QED
      BY <3>1 DEF DependenciesInit
  <2>2. result \in [Names -> Results]
    BY DEF DependenciesInit, Results
  <2>3. ~Migrating /\ ~engine
    BY DEF DependenciesInit, Migrating
  <2>4. /\ db \in Databases /\ {secret, password} \subseteq Secrets \cup {Unset}
        /\ edits \in 0 .. MaxEdits
        /\ step \in Names \cup {"idle", "report", "done"}
        /\ migration \in {"idle", "connecting", "running", "applied", "failed"}
        /\ met \subseteq Names /\ code \in {0, 1, 2, 9} /\ read \subseteq Parts
    BY DEF DependenciesInit
  <2>5. stale \in BOOLEAN
    BY Zenon DEF DependenciesInit
  <2>. QED
    BY <2>1, <2>2, <2>3, <2>4, <2>5 DEF DependenciesTypeOK
<1>2. DependenciesTypeOK /\ [DependenciesNext]_dependencyVars => DependenciesTypeOK'
  <2>. SUFFICES ASSUME DependenciesTypeOK, [DependenciesNext]_dependencyVars
                PROVE  DependenciesTypeOK'
    OBVIOUS
  <2>1. ASSUME Edit, secret' \in Secrets \cup {Unset}, password' \in Secrets \cup {Unset},
               service' \in [Names -> UNION {Conditions[n] : n \in Names}]
        PROVE  DependenciesTypeOK'
    <3>1. edits' \in 0 .. MaxEdits
      BY <2>1 DEF Edit, DependenciesTypeOK
    <3>. QED
      BY <2>1, <3>1 DEF Edit, checkVars, migrateVars, DependenciesTypeOK, Running, Migrating
  <2>2. CASE Rotate
    BY <2>1, <2>2 DEF Rotate, DependenciesTypeOK
  <2>3. ASSUME NEW n \in Names, ServiceChanges(n) PROVE DependenciesTypeOK'
    <3>1. PICK c \in Conditions[n] : service' = [service EXCEPT ![n] = c]
      BY <2>3 DEF ServiceChanges
    <3>2. c \in UNION {Conditions[m] : m \in Names}
      OBVIOUS
    <3>3. service' \in [Names -> UNION {Conditions[m] : m \in Names}]
      BY <3>1, <3>2 DEF DependenciesTypeOK
    <3>. QED
      BY <2>1, <2>3, <3>3 DEF ServiceChanges, DependenciesTypeOK
  <2>4. CASE UNCHANGED dependencyVars
    BY <2>4 DEF dependencyVars, worldVars, checkVars, migrateVars, DependenciesTypeOK,
                Running, Migrating
  <2>. QED
    BY <2>2, <2>3, <2>4, CheckStepType, MigrationStepType DEF DependenciesNext, CheckGoesOn
<1>. QED
  BY <1>1, <1>2, PTL DEF DependenciesSpec

-----------------------------------------------------------------------------
(***************************************************************************)
(* The two programs agree on the database.  The texts of a section and of  *)
(* a secret do no harm when no reserved character stands where it changes  *)
(* what is read; a colon in the host does not matter either, for then no   *)
(* engine is made.                                                         *)
(***************************************************************************)
Harmless(d, s) == \A p, q \in Parts : <<q, Configured(d, s)[q].mark, p>> \notin Misreads

ReachInv == DependenciesTypeOK /\ ReachesConfigured

\* An engine has what was configured from the moment it is made.
LEMMA ReachInvariant ==
  ASSUME \A d \in Databases, s \in Secrets : Harmless(d, s) \/ d.host.mark = "colon"
  PROVE  DependenciesSpec => []ReachInv
<1>1. DependenciesInit => ReachesConfigured
  BY DEF DependenciesInit, ReachesConfigured
<1>2. DependenciesTypeOK /\ ReachesConfigured /\ [DependenciesNext]_dependencyVars
        => ReachesConfigured'
  <2>. SUFFICES ASSUME DependenciesTypeOK, ReachesConfigured,
                       [DependenciesNext]_dependencyVars, engine'
                PROVE  read' = Parts
    BY DEF ReachesConfigured
  <2>1. CASE StartMigration
    <3>1. /\ Resolve(secret) # Unset /\ db.host.mark # "colon"
          /\ read' = {p \in ReadBack(Url) : Url[p] = Configured(db, secret)[p]}
      BY <2>1 DEF StartMigration, Ends
    <3>2. db \in Databases /\ secret \in Secrets
      BY <3>1 DEF DependenciesTypeOK, Resolve
    <3>3. Harmless(db, secret)
      BY <3>1, <3>2
    <3>4. Url = Configured(db, secret)
      BY DEF Url, Dsn, Resolve
    <3>5. ReadBack(Url) = Parts
      BY <3>3, <3>4 DEF ReadBack, Harmless
    <3>. QED
      BY <3>1, <3>4, <3>5
  <2>2. CASE ConnectMigration \/ \E outcome \in {"applied", "failed"} : RunMigration(outcome)
    <3>1. read' = read /\ Migrating
      BY <2>2 DEF ConnectMigration, RunMigration, Migrating
    <3>. QED
      BY <3>1 DEF DependenciesTypeOK, ReachesConfigured
  <2>3. CASE UNCHANGED <<engine, read>>
    BY <2>3 DEF ReachesConfigured
  <2>. QED
    BY <2>1, <2>2, <2>3
    DEF DependenciesNext, dependencyVars, migrateVars, Rotate, ServiceChanges, Edit, StartCheck,
        CheckPostgres, CheckRedis, CheckBlob, CheckBlobRaises, Report, Found
<1>. QED
  BY <1>1, <1>2, DependenciesTypeCorrect, PTL DEF DependenciesSpec, ReachInv

\* "A migration that reached a different database from the application would be a
\* silent, expensive class of bug": none does, unless a reserved character stands
\* in a user, a password, a host or a name where the unquoted URL misreads it.
THEOREM ReachesConfiguredHolds ==
  ASSUME \A d \in Databases, s \in Secrets : Harmless(d, s) \/ d.host.mark = "colon"
  PROVE  DependenciesSpec => []ReachesConfigured
<1>1. ReachInv => ReachesConfigured
  BY DEF ReachInv
<1>. QED
  BY <1>1, ReachInvariant, PTL

\* What a passing check knows of PostgreSQL as long as nothing is edited.
Known ==
  /\ code = 0 => result["postgresql"] = "ok"
  /\ result["postgresql"] = "ok" /\ ~stale => secret = password /\ service["postgresql"] = "good"

\* An edit makes it stale, a new check forgets it, and nothing else takes it away.
LEMMA KnownInvariant == DependenciesSpec => []Known
<1>1. DependenciesInit => Known
  BY DEF DependenciesInit, Known, Names
<1>2. CheckInv /\ Known /\ [DependenciesNext]_dependencyVars => Known'
  <2>. SUFFICES ASSUME CheckInv, Known, [DependenciesNext]_dependencyVars PROVE Known'
    OBVIOUS
  <2>. USE DEF Known
  <2>1. ASSUME UNCHANGED <<code, result>>, stale' \/ UNCHANGED <<stale, secret, password, service>>
        PROVE  Known'
    BY <2>1
  <2>2. CASE Rotate \/ \E n \in Names : ServiceChanges(n)
    BY <2>1, <2>2 DEF Rotate, ServiceChanges, Edit, checkVars
  <2>3. CASE StartCheck
    BY <2>3 DEF StartCheck, Names
  <2>4. CASE CheckPostgres
    <3>1. /\ result' = [result EXCEPT !["postgresql"] = Postgres] /\ code' = code
          /\ UNCHANGED <<secret, password, service>> /\ step = "postgresql"
      BY <2>4 DEF CheckPostgres, Found, worldVars
    <3>2. result'["postgresql"] = Postgres
      BY <3>1 DEF CheckInv, SoFar, Names
    <3>3. code # 0
      BY <3>1 DEF CheckInv, SoFar
    <3>4. Postgres = "ok" => secret = password /\ service["postgresql"] = "good"
      BY <2>4, PostgresOk DEF CheckInv
    <3>. QED
      BY <3>1, <3>2, <3>3, <3>4
  <2>5. CASE CheckRedis \/ CheckBlob
    <3>1. /\ result'["postgresql"] = result["postgresql"]
          /\ UNCHANGED <<code, secret, password, service, stale>>
      BY <2>5 DEF CheckRedis, CheckBlob, Found, worldVars, CheckInv, SoFar, Names
    <3>. QED
      BY <3>1
  <2>6. CASE CheckBlobRaises
    BY <2>6 DEF CheckBlobRaises, worldVars
  <2>7. CASE Report
    BY <2>7 DEF Report, ExitCode, Names, worldVars
  <2>8. CASE \/ StartMigration \/ ConnectMigration
             \/ \E outcome \in {"applied", "failed"} : RunMigration(outcome)
             \/ UNCHANGED dependencyVars
    BY <2>1, <2>8 DEF StartMigration, ConnectMigration, RunMigration, dependencyVars,
                      checkVars, worldVars
  <2>. QED
    BY <2>2, <2>3, <2>4, <2>5, <2>6, <2>7, <2>8 DEF DependenciesNext
<1>. QED
  BY <1>1, <1>2, CheckInvariant, PTL DEF DependenciesSpec

\* What the check found with the single fields is what the migration meets with
\* the URL: with nothing edited since a passing check began a migration connects.
THEOREM CheckPredictsMigrationHolds ==
  ASSUME \A d \in Databases, s \in Secrets : Harmless(d, s) \/ d.host.mark = "colon"
  PROVE  DependenciesSpec => CheckPredictsMigration
<1>1. ReachInv /\ Known /\ [DependenciesNext]_dependencyVars =>
        [ConnectMigration /\ code = 0 /\ ~stale => migration' = "running"]_dependencyVars
  <2>. SUFFICES ASSUME ReachInv, Known, ConnectMigration, code = 0, ~stale
                PROVE  migration' = "running"
    OBVIOUS
  <2>1. read = Parts
    BY DEF ReachInv, ReachesConfigured, DependenciesTypeOK, Migrating, ConnectMigration
  <2>2. secret = password /\ service["postgresql"] = "good"
    BY DEF Known
  <2>3. RightServer /\ Authenticates
    BY <2>1, <2>2 DEF RightServer, Authenticates, Parts, Url, Dsn, Configured, Resolve
  <2>. QED
    BY <2>3 DEF ConnectMigration
<1>. QED
  BY <1>1, ReachInvariant, KnownInvariant, PTL DEF DependenciesSpec, CheckPredictsMigration
=============================================================================
