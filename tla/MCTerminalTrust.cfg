CONSTANT MaxInt = 99999
CONSTANT MaxId = 99999
CONSTANT Octets = 2
CONSTANT OctetBits = 2
CONSTANT BannerLimit = 4
CONSTANT MaxWaits = 2
CONSTANT Lines <- MCLines
CONSTANT Suites <- MCSuites
SPECIFICATION Spec
INVARIANT TrustProblemsIdentified
