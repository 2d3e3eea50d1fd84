\* A small clock, and two commands registered after the built-in ones.
SPECIFICATION ConsoleSpec
CONSTANTS
  TicksPerUpdate = 2
  DayLength = 3
  Noon = 1
  MaxTicks = 9
  Ordinary <- SomeOrdinary
  LowerCase <- SomeLowerCase
  Typings <- SomeTypings
  Labels <- SomeLabels
  Others <- SomeOthers
  Registrations <- SomeRegistrations
  MaxRegistered = 2
CHECK_DEADLOCK FALSE
INVARIANTS
  ConsoleTypeOK
  QuietShowsTime
  RunsWhatWasTyped
PROPERTIES
  RegisterKeepsLabels
