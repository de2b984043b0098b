\* Suspensions and resumes with a firmware that crashes.
SPECIFICATION PmoSpec
INVARIANTS
  SuspendFlagsTrue
