CONSTANTS
  Calls <- MCCalls
  Answers <- MCAnswers
  HeadSize = 2
  Torn = "torn"
SPECIFICATION Spec
INVARIANTS DeliveredAsSent StatusSurvives
