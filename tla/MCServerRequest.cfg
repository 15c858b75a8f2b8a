SPECIFICATION Spec
CONSTANTS
  r1 = r1
  Requests = {r1}
  Controllers <- MCControllers
  Repository <- MCRepository
  Configs <- MCConfigs
  Uploads <- MCUploads
  Tokens = {"", "token"}
  Authentications <- MCAuthentications
  Results <- MCResults
INVARIANTS
  PerformedOnlyIfPermitted
  PayloadAsDeclared
  ToldTheOutcome
