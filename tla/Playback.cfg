SPECIFICATION Spec
CONSTANTS M = 2  MaxSlots = 3  Region = 5  Margin = 1  Covers <- AllOrLast  Layouts <- FewLayouts
  None = None  MaxArms = 2  MaxTells = 1  MaxErrors = 1
INVARIANTS WhatPlaysIsWhole SetLastsItsTime StopIsQuiet
PROPERTY RotationGoesRound
CHECK_DEADLOCK FALSE
