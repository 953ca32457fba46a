------------------------------- MODULE MCLogging -------------------------------
(* The levels of alembic.ini, for Logging. *)
EXTENDS Logging

MCIniLevel == [l \in Loggers |-> IF l = "sqlalchemy.engine" THEN "WARNING" ELSE "unset"]
=============================================================================
