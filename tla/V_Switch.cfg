SPECIFICATION Spec
CONSTANTS
  NumSU = 1
  Levels = {"0D", "C8"}
  DEFAULT_THRESHOLD = "0D"
  TriggerChannels <- MCTriggerChannels
  ChannelTests <- MCChannelTests
INVARIANT SwitchesDisabled
