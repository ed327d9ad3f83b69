SPECIFICATION FairSpec
CONSTANTS
  Profiles = {"Modern", "Custom", "Broken"}
  Customs <- SomeCustoms
  Memories = {"128MB", "lots"}
  Namespaces = {"mce"}
  MaxEvents = 2
INVARIANT TypeOK
PROPERTIES CustomKept HashedIsStored Settles TrafficFlows
