\* One company and one notice, over seven instants, two a day.
SPECIFICATION Spec
CONSTANTS
  StopWords = {"de"}
  InheritedWords = {"constructor"}
  Texts <- MCTexts
  DivipolaCodes <- MCDivipolaCodes
  TwoYears = 3
  Day = 2
  Decay <- MCDecay
  Sectors <- MCSectors
  Profiles <- MCProfiles
  Contracts <- MCContracts
  History <- MCHistory
  Records <- MCRecords
  Uploads <- MCUploads
  Deadlines = {4}
  Catalogue <- MCCatalogue
  MaxTime = 6
INVARIANTS
  TypeOK
  FilterAgreesWithScore
  ScoreInBounds
  ObligationsInBounds
  SimilarityIsCosine
  WinnerIsStable
PROPERTIES
  DeadOnlyByRequest
  WaitingOnlyExpires
  SettlingNeverHurts
  SigningNeverUnblocks
  PostponingNeverHurts
  WideningNeverExcludes
