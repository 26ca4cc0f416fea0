\* Two callers, whose keys share a folder, in a filespace with other users.
CONSTANTS
  None = None
  RootId = RootId
  Root = Root
  Requests = {r1, r2}
  Keys <- SomeKeys
  Paths <- SomePaths
  Names <- SomeNames
  Way <- SomeWays
  Above <- SomeAbove
  NameOf <- SomeNameOf
  Ids = {i1, i2, i3}
  MaxTries = 3
SPECIFICATION FairSpec
INVARIANTS
  TypeOK
  AnswersAreTrue
PROPERTIES
  CreatedInPlace
  EveryCallReturns
