\* Registration by host and discovery, in every order, around two calls.
SPECIFICATION Spec
CONSTANTS
  Calls <- MCCalls
  Outcome <- MCOutcome
  HostChecks <- MCHostChecks
  Manifest <- MCManifest
INVARIANTS
  TypeOK
  ChainStable
  NoPluginLost
  FailClosed
PROPERTIES
  ImplementsPromise
