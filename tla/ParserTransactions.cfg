CONSTANTS
  Sentences <- MCSentences
  Unreadable <- MCUnreadable
  Changes <- MCChanges
  Fragments <- MCFragments
SPECIFICATION Spec
INVARIANTS
  TransactionsEndedApart
  FailedRulesStayApart
  ErrorsExplained
  NoCrashApart
  SentencesAcceptedApart
PROPERTIES StatementsAdvance
CHECK_DEADLOCK FALSE
