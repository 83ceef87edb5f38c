SPECIFICATION Spec
CONSTANTS
  Readers = {0}
  Slots = 2
  MaxHead = 3
PROPERTIES ResumesWhereItLeftOff
