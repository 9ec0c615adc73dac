SPECIFICATION Spec
CONSTANTS
  Amplitudes = {0, 256, 65535}
  Delays = {0, 16, 200, 4095}
  Limits <- MCLimits
  Coefficients <- MCCoefficients
INVARIANTS
  ClassFollowsRule
  QualityFollowsClass
