SPECIFICATION LoggingSpec
CONSTANTS
  Loggers = {"knowhub", "vendor", "sqlalchemy.engine", "uvicorn"}
  ServerOwned = {"uvicorn"}
  IniLevel <- MCIniLevel
  Extras = {{}, {"stage"}, {"stage", "level"}, {"error"}, {"correlation_id"}, {"message"}, {"_private"}}
  Others = {"migrations", "server"}
INVARIANTS
  LoggingTypeOK
  JsonLinesHonest
  NothingSilenced
  EveryRecordStamped
