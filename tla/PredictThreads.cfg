SPECIFICATION ThreadsSpec
CONSTANTS
  t1 = t1
  t2 = t2
  t3 = t3
  Threads = {t1, t2, t3}
  RateLimit = 2
  RateWindow = 2
SYMMETRY MCSymmetry
INVARIANTS AdmissionsBounded RefusalsJustified ReportWhole PublishesItsOwn
