CONSTANTS
  Coords <- UpToThreeDigits
  MaxDanceMoves = 25
  NumberSize = 3
SPECIFICATION Spec
INVARIANTS ReadsCoordinates DecodeInv
