CONSTANTS
  Threads = {h1, h2}
  Messages = {"valid", "bad", "big", "double"}
  Nobody = Nobody
SPECIFICATION FairSpec
INVARIANTS ReleasedWhenDone CompletedIsEvidence OneAnswer CancelStops
PROPERTIES ImplementsHandle WaitEnds CancelEnds
