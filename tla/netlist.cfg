SPECIFICATION Spec
CONSTANTS
  MaxEdits = 2
  MaxStops = 1
INVARIANTS NetlistSound PivotSurvivesEdits ArtifactsAgree TestVouches
PROPERTIES RevAUntouched
