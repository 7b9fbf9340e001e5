\* Both threads, settings that are adjusted or refused, Serval and the detector coming and going.
SPECIFICATION FairSpec
CONSTANTS
  Settings <- MCSettings
  Tdcs = {0, 1}
  Default <- MCDefault
  Written <- MCWritten
  Sent <- MCSent
  Noted <- MCNoted
  Refused = {"clash"}
  Lagging = {"MPX3"}
  Unset = unset
  Poll = poll
  Port = port
INVARIANTS
  RefreshRestores
PROPERTIES
  StatusSettles
  SettingsConverge
