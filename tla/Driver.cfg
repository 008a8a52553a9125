SPECIFICATION Spec
CONSTANTS
  Running = Running
  Capacity = 1
  Volumes = {1, 2}
  MaxFaults = 2
  Numbers <- MCNumbers
  StrayFlags <- MCStrayFlags
  Registry <- MCRegistry
  Small <- MCSmall
  Unreadable <- MCUnreadable
  Refused <- MCRefused
  Different <- MCDifferent
  Lawful <- MCLawful
  Invalid <- MCInvalid
  Extension <- MCExtension
  Stem <- MCStem
  Commands <- MCCommands
  Files <- MCFiles
  Stale <- MCStale
  Environments <- MCEnvironments
  Cassettes <- MCCassettes
  Arns <- MCArns
  Targets <- MCTargets
INVARIANTS
  ExitTellsOutcome
  SubmitsWhatWasAsked
PROPERTIES
  CapturesAll
  Ends
CHECK_DEADLOCK FALSE
