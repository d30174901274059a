SPECIFICATION Spec
CONSTANTS
  Chunks = 3
  Budget <- OneReboot
PROPERTIES
  KeptUnlessAsked
