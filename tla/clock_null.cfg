CONSTANTS
  Readers = {r1}
  MaxPublications = 2
  Attaches = FALSE
SPECIFICATION FairSpec
PROPERTY
  ClockFollows
