CONSTANTS
  Turn = {r1, r2}
  OpenAI = {r2}
  MaxChunks <- OneChunk
  HistoryMax = 3
SPECIFICATION Spec
INVARIANTS RecordIsWhatWasShown HistoryFollowsRecords WaitIsAnswered
CHECK_DEADLOCK FALSE
