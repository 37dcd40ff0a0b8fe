CONSTANT
  StableAfter = 1
SPECIFICATION FairSpec
PROPERTY
  PublishesUnplug
