CONSTANTS
  NumSockets = 2
  IdModulus = 16
  MaxLosses = 4
  MaxQueue = 2
  MaxAfterwards = 3
SPECIFICATION FairSpec
INVARIANTS TypeOK DescriptorsAgree OneConnection InSession
 
CONSTRAINT Afterwards
