SPECIFICATION FairSpec
CONSTANT GenMax = 3
INVARIANTS
  WhatRunsIsOwned
  WhatIsOfferedIsThere
  OutputsAreSafe
  D2BFollowsServer
PROPERTIES
  StoppingEnds
