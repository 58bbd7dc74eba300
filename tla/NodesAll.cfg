CONSTANTS
  Flow <- MCFlow
  Question <- MCQuestion
  Form <- MCForm
  NoBranch = NoBranch
SPECIFICATION Spec
INVARIANTS AnswerIsOfALastNode DefaultAnswers NegationsDecide
