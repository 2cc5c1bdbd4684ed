SPECIFICATION HttpSpec
CHECK_DEADLOCK FALSE
CONSTANTS
  NoCursor = NoCursor
  Program = Program
  NotANumber = NotANumber
  Prefixes <- Slashed
  Mounts <- SomeMounts
  OriginLists <- SomeOriginLists
  Consumers = {Program, "console", "elsewhere"}
  MaxSearchLimit = 2
  Cursors <- SomeCursors
  Tokens <- AllTokens
  MaxKeyLength = 2
  MaxTokenLength = 7
  MaxMillis = 2
  MaxPages = 3
INVARIANT HttpTypeOK
INVARIANT TokensAreCanonical
INVARIANT RefusedAsDocumented
INVARIANT LinkLeadsOn
INVARIANT BrowserSeesEveryPage
