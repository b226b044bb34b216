SPECIFICATION FairSpec
CONSTANT
  OtherStatuses = {NA}
INVARIANTS
  TypeOK
  NetworkIsKnown
  TargetIsFollowed
PROPERTIES
  OnlyUserConnects
  AwayEnds
  TargetIsShown
