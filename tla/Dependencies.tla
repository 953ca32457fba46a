------------------------------ MODULE Dependencies ------------------------------
(***************************************************************************)
(* scripts/check_dependencies.py and migrations/env.py, run any number of  *)
(* times, one after the other or at once, in one working environment whose *)
(* services come and go and whose secret is rotated.  Both read the        *)
(* canonical settings and resolve the same reference; the check connects   *)
(* with the single fields, the migration with the URL composed from them.  *)
(***************************************************************************)
EXTENDS DatabaseUrl, Naturals

CONSTANTS Databases, \* the database sections the environment may configure
          Secrets,   \* the values the secret takes when it is rotated
          MaxEdits   \* bound: edits of the environment and the services

ASSUME DependenciesAssumption ==
  /\ MaxEdits \in Nat
  /\ Unset \notin Secrets /\ Secrets \subseteq Text
  /\ \A db \in Databases : db.ref \in RefForms /\ {db.user, db.host, db.name} \subseteq Text

\* What a service may be like.  Any but "good" fails the check: a silent one
\* accepts a connection and says nothing; PostgreSQL may be too old, without
\* pgvector, or stop answering after it has authenticated; Redis may ask for
\* credentials, answer an error, or something else; a dripping blob endpoint sends
\* a little of its answer at a time and does not come to the end of it.
Conditions ==
  [postgresql |-> {"good", "down", "silent", "old", "bare", "stalled"},
   redis |-> {"good", "down", "silent", "noauth", "error", "foreign"},
   blob |-> {"good", "down", "silent", "dripping"}]

VARIABLES
  db,       \* KNOWHUB_DATABASE__*, and whether the blob endpoint is a URL
  secret,   \* the environment variable the reference names, or Unset
  password, \* what the database server takes for the configured user
  service,  \* the condition of every service
  edits,    \* edits so far
  step,     \* of the check: idle, a service, done
  result,   \* of the check: what it found of a service, or "none"
  met,      \* the services that were good when the check asked
  code,     \* exit code of the last check, or 9
  stale,    \* the environment was edited since the last check began
  migration,\* idle, connecting, running, applied, failed
  engine,   \* the engine of the migration is not disposed of
  read      \* the parts the engine has as they were configured

worldVars  == <<db, secret, password, service, edits>>
checkVars  == <<step, result, met, code>>
migrateVars == <<migration, engine, read>>
dependencyVars == <<worldVars, checkVars, migrateVars, stale>>

Names   == {"postgresql", "redis", "blob"}
Results == {"none", "ok", "secret", "unreachable", "version", "vector", "noauth",
            "error", "unexpected"}

DependenciesInit ==
  /\ db \in Databases
  /\ secret \in Secrets \cup {Unset} /\ password \in Secrets
  /\ service = [n \in Names |-> "good"]
  /\ edits = 0 /\ stale = FALSE
  /\ step = "idle" /\ result = [n \in Names |-> "none"] /\ met = {} /\ code = 9
  /\ migration = "idle" /\ engine = FALSE /\ read = {}

Running   == step \notin {"idle", "done"}
Migrating == migration \in {"connecting", "running"}

-----------------------------------------------------------------------------
(***************************************************************************)
(* The world.  A process sees the environment it was started with; that is *)
(* edited, and the password with it, while neither program runs.  Services *)
(* change at any time.                                                     *)
(***************************************************************************)
Edit ==
  /\ edits < MaxEdits
  /\ edits' = edits + 1 /\ stale' = TRUE
  /\ UNCHANGED <<db, checkVars, migrateVars>>

Rotate ==
  /\ Edit /\ ~Running /\ ~Migrating
  /\ secret' \in Secrets \cup {Unset} /\ password' \in Secrets
  /\ UNCHANGED service

ServiceChanges(n) ==
  /\ Edit
  /\ \E c \in Conditions[n] : service' = [service EXCEPT ![n] = c]
  /\ UNCHANGED <<secret, password>>

-----------------------------------------------------------------------------
(***************************************************************************)
(* check_dependencies.py                                                   *)
(***************************************************************************)
LoadsSettings == Accepted(db.ref)

\* main, until the first probe.
StartCheck ==
  /\ ~Running
  /\ result' = [n \in Names |-> "none"] /\ met' = {} /\ stale' = FALSE
  /\ IF LoadsSettings THEN step' = "postgresql" /\ code' = 9
                      ELSE step' = "done" /\ code' = 2
  /\ UNCHANGED <<worldVars, migrateVars>>

Found(n, r, next) ==
  /\ step = n
  /\ result' = [result EXCEPT ![n] = r]
  /\ met' = IF service[n] = "good" THEN met \cup {n} ELSE met
  /\ step' = next
  /\ UNCHANGED <<worldVars, migrateVars, code, stale>>

\* Mutant: whoever lets the check in is good enough.
PostgresLenient ==
  IF Resolve(secret) = Unset THEN "secret"
  ELSE IF service["postgresql"] \in {"down", "silent"} \/ secret # password
  THEN "unreachable" ELSE "ok"

\* _check_postgres, with the single fields.
Postgres ==
  IF Resolve(secret) = Unset THEN "secret"
  ELSE IF service["postgresql"] \in {"down", "silent"} \/ secret # password
  THEN "unreachable"
  ELSE IF service["postgresql"] = "old" THEN "version"
  ELSE IF service["postgresql"] = "bare" THEN "vector" ELSE "ok"

\* connect_timeout bounds connecting; nothing bounds a query.
CheckPostgres ==
  /\ secret = Unset \/ secret # password \/ service["postgresql"] # "stalled"
  /\ Found("postgresql", Postgres, "redis")

\* _check_redis: one recv returns the reply or the beginning of it.
Redis ==
  CASE service["redis"] \in {"down", "silent"} -> {"unreachable"}
    [] service["redis"] = "good" -> {"ok", "unexpected"}
    [] service["redis"] = "noauth" -> {"noauth", "error"}
    [] service["redis"] = "error" -> {"error"}
    [] OTHER -> {"unexpected"}

\* Mutant: the socket has no timeout.
CheckRedisUntimed ==
  /\ service["redis"] # "silent"
  /\ \E r \in Redis : Found("redis", r, "blob")

CheckRedis == \E r \in Redis : Found("redis", r, "blob")

\* _check_blob: any answer will do.  The timeout is one of httpx, for every read.
CheckBlob ==
  /\ db.blob /\ service["blob"] # "dripping"
  /\ Found("blob", IF service["blob"] = "good" THEN "ok" ELSE "unreachable", "report")

\* An endpoint httpx cannot parse raises what is not an HTTPError: the process
\* ends with a traceback before anything is reported.
CheckBlobRaises ==
  /\ ~db.blob /\ step = "blob"
  /\ step' = "done" /\ code' = 1
  /\ UNCHANGED <<worldVars, migrateVars, result, met, stale>>

\* Mutant: the last result decides.
ExitCodeOfLast == IF result["blob"] = "ok" THEN 0 ELSE 1

ExitCode == IF \A n \in Names : result[n] = "ok" THEN 0 ELSE 1

Report ==
  /\ step = "report"
  /\ step' = "done" /\ code' = ExitCode
  /\ UNCHANGED <<worldVars, migrateVars, result, met, stale>>

-----------------------------------------------------------------------------
(***************************************************************************)
(* env.py, run by alembic                                                  *)
(***************************************************************************)
Url == Dsn(db, Resolve(secret))

\* Mutant: the engine is disposed of only when all went well.
EndsUndisposed(outcome) == migration' = outcome /\ engine' = (outcome = "failed")

\* The finally clause: the engine is disposed of either way.
Ends(outcome) == migration' = outcome /\ engine' = FALSE

\* run_migrations_online: _database_url and create_engine.  No engine is made
\* when the settings or the secret are missing, or the URL has no number for a port.
StartMigration ==
  /\ ~Migrating
  /\ IF LoadsSettings /\ Resolve(secret) # Unset /\ db.host.mark # "colon"
     THEN /\ migration' = "connecting" /\ engine' = TRUE
          /\ read' = {p \in ReadBack(Url) : Url[p] = Configured(db, secret)[p]}
     ELSE Ends("failed") /\ read' = {}
  /\ UNCHANGED <<worldVars, checkVars, stale>>

RightServer   == {"host", "name"} \subseteq read
Authenticates == /\ {"user", "password"} \subseteq read /\ Url["password"] = password
                 /\ service["postgresql"] \notin {"down", "silent"}

\* Where the URL leads elsewhere, somebody may or may not answer.
ConnectMigration ==
  /\ migration = "connecting"
  /\ \/ (RightServer => Authenticates) /\ migration' = "running" /\ UNCHANGED engine
     \/ ~(RightServer /\ Authenticates) /\ Ends("failed")
  /\ UNCHANGED <<worldVars, checkVars, stale, read>>

\* The revisions run in one transaction: they are committed, or none is.
RunMigration(outcome) ==
  /\ migration = "running"
  /\ outcome = "applied" => service["postgresql"] \notin {"down", "silent", "stalled"}
  /\ Ends(outcome)
  /\ UNCHANGED <<worldVars, checkVars, stale, read>>

DependenciesNext ==
  \/ Rotate
  \/ \E n \in Names : ServiceChanges(n)
  \/ StartCheck \/ CheckPostgres \/ CheckRedis \/ CheckBlob \/ CheckBlobRaises \/ Report
  \/ StartMigration \/ ConnectMigration
  \/ \E outcome \in {"applied", "failed"} : RunMigration(outcome)

\* A started check goes on: connecting, and every read of Redis and of the blob
\* endpoint, has a time-out.
CheckGoesOn == CheckPostgres \/ CheckRedis \/ CheckBlob \/ CheckBlobRaises \/ Report

DependenciesSpec == DependenciesInit /\ [][DependenciesNext]_dependencyVars
                    /\ WF_dependencyVars(CheckGoesOn)

-----------------------------------------------------------------------------
\* Every variable keeps its type, and an engine exists exactly while a migration
\* needs it, however the migration ends and whatever the check does meanwhile.
DependenciesTypeOK ==
  /\ db \in Databases /\ {secret, password} \subseteq Secrets \cup {Unset}
  /\ service \in [Names -> UNION {Conditions[n] : n \in Names}] /\ edits \in 0 .. MaxEdits
  /\ step \in Names \cup {"idle", "report", "done"}
  /\ result \in [Names -> Results] /\ met \subseteq Names /\ code \in {0, 1, 2, 9}
  /\ migration \in {"idle", "connecting", "running", "applied", "failed"}
  /\ read \subseteq Parts /\ stale \in BOOLEAN
  /\ engine <=> Migrating

\* "Availability is an observed condition, never an assumption": a check that
\* passes asked every service and found each one good, also when a reply came in
\* part; and a check that fails names a service, or could not ask.
PassMeansServing ==
  /\ code = 0 => met = Names
  /\ code = 1 => (\E n \in Names : result[n] \notin {"none", "ok"}) \/ ~db.blob
  /\ code = 2 => \A n \in Names : result[n] = "none"

\* What the check found is what the migration meets: with nothing edited since a
\* passing check began, a migration connects.
CheckPredictsMigration ==
  [][ConnectMigration /\ code = 0 /\ ~stale => migration' = "running"]_dependencyVars

\* "A migration that reached a different database from the application would be a
\* silent, expensive class of bug": an engine has the configured user, password,
\* host and database.
ReachesConfigured == engine => read = Parts

\* A check ends, whatever services do, unless PostgreSQL stops answering after it
\* has let the check in, or the blob endpoint's answer goes on and on.
CheckEnds ==
  Running ~> \/ ~Running
             \/ service["postgresql"] = "stalled" \/ service["blob"] = "dripping"
=============================================================================
