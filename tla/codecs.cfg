SPECIFICATION JobSpec
CONSTANTS
  Ids <- McIds
  IdTexts <- McIdTexts
  Texts <- McTexts
  Payloads <- McPayloads
  Configs <- McConfigs
  Commands <- McCommands
  Pins <- McPins
  Nonces <- McNonces
  Tokens <- McTokens
  Seconds <- McSeconds
  Announced <- McAnnounced
  Sources <- McSources
  Cuts = {0, 1, 2, 5, 16, 20, 32, 40}
  Device <- McDevice
  Token <- McToken
  Corr <- McCorr
INVARIANTS FramesIntact MessagesMeanTheSame
CHECK_DEADLOCK FALSE
