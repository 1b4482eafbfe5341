SPECIFICATION CallSpec
CONSTANTS
  Node <- MCNode  NoCode = NoCode  Parents <- MCParents
  MaxInt = 99  Models <- MCModels
  Bytes = 16  alphabetN = 5  length = 3
  Milli = 10  Skew = 60  Word = 131072  Now = 1000
  Answers <- MCAnswers  Entries <- MCEntries  Times <- MCTimes
  Loads = {"fails", "same", "rotated"}  BaseErrors <- MCBaseErrors
  Loopback = {"localhost"}  defaultCodexURL <- MCDefault
  Endpoints <- MCEndpoints  Requests <- MCRequests  Redirects <- MCRedirects
  Responses <- MCResponses  IDTokens <- MCIDTokens
INVARIANTS
  FirstCodeInOrder NewerStaysAllowed StatusForetells GrantIsUsed CatalogErrorsAreSafe
  BearerOnlyWhereAllowed ModelsRouteIsStable CatalogSortedStably
  AccountIdSurvivesPadding VerifierUniform
CHECK_DEADLOCK FALSE
