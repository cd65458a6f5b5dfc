CONSTANTS
  Scenes <- AllScenes
  Supported = {"chat", "mail"}
  ValidTokens <- Tokens
  ValidKeys = {"keyA"}
  Rejections <- SomeRejections
  ReadChunk = 12
  MaxRequest = 24
SPECIFICATION Spec
INVARIANTS AnswerFitsRequest HandlerSeesRequest StreamIsKept
PROPERTIES AnsweredOnce RequestIsAnswered
CHECK_DEADLOCK FALSE
