SPECIFICATION Spec
CONSTANTS
  Cards <- Cards_
  MaxScpVariants = 4
  MaxKeysets = 3
  MaxKeysPerSet = 3
  CardIs <- CardIs_
  CardKvns = {48}
  Forced <- Forced_
  RequestedKvns = {0, 1}
  RequestedLevels <- Levels_
  AidLens = {5, 16}
  HashLens = {0, 32}
  ParamLens = {0, 164, 198, 250}
  ChunkLens = {1, 207, 208, 223}
  RawLens = {0, 16, 224, 239, 247, 255}
  AnswerLens = {0, 16, 240, 256}
  MaxCommands = 2
INVARIANTS
  FramingTypeOK
  DiscoveryTellsTheCard
  AgreedParameters
  CardReadsTheCommand
  AnswersAreRead
  LoadBlocksFit
