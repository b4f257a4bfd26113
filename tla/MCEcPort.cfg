\* Two threads, three models, a fan that crosses multiples of 256 rpm.
SPECIFICATION FairSpec
CONSTANTS
  t1 = t1
  t2 = t2
  Threads = {t1, t2}
  None = None
  Offsets <- MCOffsets
  Reg <- MCReg
  Contents <- MCContents
  Confs <- MCConfs
  Rpms <- MCRpms
  Jobs <- MCJobs
INVARIANTS
  TypeOK
  ReadingSound
PROPERTIES
  AtomicAccess
  JobsEnd
