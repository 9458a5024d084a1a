SPECIFICATION FairSpec
CONSTANTS
  Processes = {p1, p2}
  Requests = {r1, r2}
  NoProcess = NoProcess
INVARIANTS AnswersDurable
PROPERTIES SignalsDrain SchemaKept SignalEnds
