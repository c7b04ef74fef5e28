SPECIFICATION CompletionSpec
CONSTANTS
  MaxLength = 4
  WordLetters = {"a", "b"}
  Letters <- MCLetters
  Names <- MCNames
  Before <- MCBefore
INVARIANTS
  CompletionTypeOK
  OffersWhatHasBegun
