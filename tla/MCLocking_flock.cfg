CONSTANTS
  Proc = {p1, p2, p3}
  Nobody = Nobody
  MaxCrashes = 2
SPECIFICATION FlockFairSpec
PROPERTIES ImplementsMutex 
