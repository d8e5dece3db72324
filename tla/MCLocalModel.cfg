SPECIFICATION LocalSpec
CONSTANTS
  Token = {1, 2, 3, 4, 5, 6, 7}
  WellFormed = {1, 2, 3, 4, 5, 7}
  ValueOf <- MCValueOf
  Unusable = {0}
  Refused = 99
  Junk = 9
  Guided = {"token"}
  Class = {"token", "key"}
  Question <- MCQuestion
  Entries <- MCEntries
  Number = {0, 2, 3, 9}
  Drafts <- MCDrafts
  MinTokens = 2
  MaxTokens = 3
  MaxTtl = 2
  DefaultTtl = 1
  MaxUses = 2
  MaxFloat = 8
  None = None
INVARIANTS AnswersAreTokens OnlyByTheWord
