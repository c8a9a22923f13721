SPECIFICATION Spec
CONSTANTS
  eng1 = eng1  eng2 = eng2  wrap1 = wrap1  levelErrors = levelErrors  levelTrace = levelTrace
  guidA = guidA  guidB = guidB  badPath = badPath  goodPath = goodPath
  NoUser = NoUser  NoHost = NoHost  NoPath = NoPath  NoLevel = NoLevel
  Engines = {eng1}
  Wrappers = {wrap1}
  Methods = {guidA, guidB}
  Levels = {levelErrors, levelTrace}
  Errors = levelErrors
  Platform = {"debug", "event", "file", "host"}
  Paths = {badPath, goodPath}
  Openable = {goodPath}
  EnvLevel = {levelTrace}
  EnvFileLevel = {}
  EnvFilePath = goodPath
  EnvMethodLevel <- OneUnset
  Unprefixed = {}
  FileLevels = {{}, {levelErrors}}
  EventMayFail = FALSE
  CountModulus = 8
  MaxCalls = 1
PROPERTIES WrapperLogs
CHECK_DEADLOCK FALSE
