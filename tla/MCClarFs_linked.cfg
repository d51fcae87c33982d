\* A link, and a directory with a link and a file in it, copied by sendfile.
SPECIFICATION Spec
CONSTANTS
  Names <- AllNames
  Fixture <- TheFixture
  Sandbox <- TheSandbox
  Trees <- OnlyLinks
  LinkTargets = {}
  Builds = {"sendfile"}
  Faults = {}
  RetryCount = 5
  EditNames = {}
  MaxEdits = 0
  MaxIntrusions = 0
  MaxCalls = 1
PROPERTIES
  LinksAreFollowed
