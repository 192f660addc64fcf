SPECIFICATION FairSpec
CONSTANTS
  Variants = {"deploy", "dataRetrieval", "scanRepair", "staticUploader"}
  Types = {"development", "staging"}
  NoType = NoType
  NoCount = NoCount
  MaxVms = 2
  MaxUploaders = 2
  EmptyStateReadable = FALSE
INVARIANTS TypeOK CalmCommandSucceeds OkMeansServed
PROPERTIES ImplementsEnvironment SteadyDeployKeepsVms StrandedUntilMisread CleaningFreesVms
