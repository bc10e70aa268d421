\* Two workers and two claims, with retries of rows whose worker is gone or
\* still runs.
CONSTANTS
  w1 = w1
  w2 = w2
  f1 = f1
  f2 = f2
  Worker = {w1, w2}
  NoWorker = NoWorker
  File = {f1, f2}
  MaxAttempts = 2
SPECIFICATION FairSpec
INVARIANT RewriteInv
PROPERTIES StageMovesForward ClaimSettles
