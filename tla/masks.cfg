\* Mosaics of one, four and eight chips, any two operations and a failure; the bounds end it.
SPECIFICATION Spec
CONSTANTS
  W = 2
  Mosaics <- MCMosaics
  Orientations <- MCOrientations
  Boxes <- MCBoxes
  Discs <- MCDiscs
  Cal = Cal
  Mask = Mask
  Calibrations <- MCCalibrations
  Missing = Missing
  MaxOps = 2
  MaxFailures = 1
INVARIANTS
  TypeOK
  LayoutsAreRotations
  ShownIsAsked
  CodesAgreeWithDiff
  ExportIsMask
CHECK_DEADLOCK FALSE
