SPECIFICATION ScoreSpec
CONSTANTS
  Models = {m1, m2}
  Scorers = {s1, s2}
  MaxSeq = 3
INVARIANTS NoScoreFromTheFuture CleanMeansSaved
PROPERTY EventuallySaved
