CONSTANT MaxInt = 99999
CONSTANT MaxId = 99999
CONSTANT Octets = 2
CONSTANT OctetBits = 2
CONSTANT BannerLimit = 4
CONSTANT MaxWaits = 2
CONSTANT Lines <- MCLines
CONSTANT Suites <- MCSuites
SPECIFICATION FairSpec
INVARIANT StopActsWhereMeant
INVARIANT AnswersHold
INVARIANT AuditObjectsReleased
INVARIANT AuditReportHolds
PROPERTY LinesUnderstood
PROPERTY OperationsReturn
