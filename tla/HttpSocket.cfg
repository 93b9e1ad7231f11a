SPECIFICATION Spec
CONSTANTS
  Texts <- MCTexts
  Kinds <- MCKinds
  Requests <- MCRequests
  Phrase <- MCPhrase
  Bodies <- MCBodies
  MaxSent = 2
  MaxCalls = 4
  MaxReads = 2
INVARIANTS ParseResumes CutAsSent
CHECK_DEADLOCK FALSE
