SPECIFICATION FrontEndSpec
CONSTANTS
  MaxLevels = 6
  MaxNesting = 2
  MaxItems = 6
  Pipelines <- OnePipeline
  DefinitionNames = {"d", "e"}
  LeftDelimiter = "{"
  RightDelimiter = "}"
  Letters <- MCLetters
  DigitValue <- MCDigitValue
  Unprintable = {"bell"}
  Keyword <- MCKeyword
  LoopFunctions = {}
  ByteLength <- MCByteLength
  MaxExpressionNesting = 2
  Escapes <- MCEscapes
  CharacterOf <- MCCharacterOf
  MinInteger <- MCMinInteger
  MaxInteger = 255
INVARIANT CompiledVerified NestingCounted VariablesResolve SourcesRead
PROPERTY DefinitionsFinal
