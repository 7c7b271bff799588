SPECIFICATION Spec
CONSTANTS
  MaxTags = 5
  MaxFaults = 2
  MaxBoots = 2
PROPERTIES
  
  
  ResponseSent
CHECK_DEADLOCK FALSE
