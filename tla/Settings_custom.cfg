SPECIFICATION FairSpec
CONSTANTS
  Profiles = {"Modern"}
  Customs <- TwoSettings
  Memories = {"128MB"}
  Namespaces = {}
  MaxEvents = 1
PROPERTY CustomPreserved
