SPECIFICATION AnswersSpec
CONSTANTS
  k1 = k1  k2 = k2
  Keys = {k1, k2}
  HKeys = {k1}
  SKeys = {k1, k2}
  ZKeys = {k1}
  KeyArgs <- MCKeyArgs
  Texts <- MCTexts
  IntArgs <- MCIntArgs
  SecArgs <- MCSecArgs
  MilliArgs <- MCMilliArgs
  PopArgs <- MCPopArgs
  OptArgs <- MCOptArgs
  PairArgs <- MCPairArgs
  MemberArgs <- MCMemberArgs
  ScoreArgs <- MCScoreArgs
  RangeArgs <- MCRangeArgs
  Scores <- MCScores
  MinInt <- Least
  MaxInt = 1
  NoExpiracy = 9
  MaxNow = 1
  THRESHOLD = 2
INVARIANT DocumentedAnswers
VIEW AnswersView
CHECK_DEADLOCK FALSE
