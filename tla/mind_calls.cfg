\* Two requests to cortexd, two threads that commit facts, and crashes of both.
SPECIFICATION FairSpec
CONSTANTS
  r1 = r1  r2 = r2
  Requests = {r1, r2}
  QueueDepth = 1  MaxOptions = 1  MaxBacklog = 2  MaxRestarts = 1
  Texts <- MCTexts
  NoJson = NoJson  BadList = BadList  Raised = Raised  NoText = NoText  NoReply = NoReply
  Abandoned = Abandoned  Nothing = Nothing
  Threads = {"mqtt", "main"}
  Statements = {"tea", "chai"}
  Near <- MCNear
  MaxFacts = 3  MaxDeaths = 1
  NoFact = NoFact  NoStatement = NoStatement
INVARIANTS InflightIsHonest ThoughtIsExecutable MirrorAgrees DuplicatesBounded OnlyLostUpsertsMissing
PROPERTY RequestAnswered
CONSTRAINT OneAtATime
