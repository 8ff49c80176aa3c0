SPECIFICATION ChainSpec
CONSTANTS
  Feature <- MCFeature
  Reach = 1
  None = None
  Undecodable = Undecodable
  Configs <- MCConfigs
  Size = 2
  MaxRounds = 2
  MaxAttempts = 2
  Projects <- MCProjects
  Off = Off
CHECK_DEADLOCK FALSE
INVARIANTS
  KeptIsKept
  VotesSound
  FrameProductsAgree
  RatingFair
  DeliveredWasReviewed
  FrameOwned
  GeneratedNovel
PROPERTY
  OverlayAgrees
