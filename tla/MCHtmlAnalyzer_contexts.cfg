SPECIFICATION FairSpec
CONSTANTS
  MaxLevels = 6
  Associations <- SmallAssociations
  RootName = "main"
  Texts <- AllTexts
  MaxRounds = 8
  MaxFrames = 3
CHECK_DEADLOCK FALSE
INVARIANT EscapersFit OutputReadable WorklistClosed
PROPERTY AnalysisEnds
