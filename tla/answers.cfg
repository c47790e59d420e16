\* Two threads, two requests; a vector of three floats from blocks of two.
SPECIFICATION FairSpec
CONSTANTS
  Worker = {w1, w2}
  RequestId = {r1, r2}
  None = None
  Character <- Characters
  Space = Space
  a = a
  b = b
  Echoing <- AnEcho
  EchoingLegacy <- ALegacyEcho
  Hello <- AHello
  ChunkLength = 2
  PromptLength = 2
  MaxItems = 2
  Dims = 3
  BlockWords = 2
  Chats <- SomeChats
  Inputs <- SomeInputs
  Prompts <- SomePrompts
  Batches <- SomeBatches
INVARIANTS
  TypeOK
  OneRowPerAnswer
  AnswersQuoteTheNewest
  EmbeddingsAreWhole
PROPERTIES
  AnswersKeepContract
  EachStepIsNearerTheEnd
  RequestsEnd
