SPECIFICATION Spec
INVARIANTS
  TypeOK
  RecordsAgree
  OnlyAdmittedHandled
  RecordsTraceable
  PanicReported
  AnswerSurvivesDeadline
