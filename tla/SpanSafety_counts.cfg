SPECIFICATION SpanSpec
CONSTANTS
  Spans = {s1}
  SafeKeys = {"exception.type", "exception.escaped"}
  RecordedKeys = {"exception.type", "exception.escaped", "exception.message", "exception.stacktrace"}
  CallerKeys = {"exception.type", "count"}
  SpanLimit = 2
  MaxRecorded = 3
INVARIANTS
  OnlyPayloadChanges
CHECK_DEADLOCK FALSE
