SPECIFICATION Spec
CONSTANTS
  Chunks = 3
  Budget <- NoMishap
PROPERTIES
  AnnouncedReboots
