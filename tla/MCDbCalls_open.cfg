\* Each property is refuted; TLC stops at the first, so check them one by one.
SPECIFICATION Spec
CONSTANTS
  main = main
  worker = worker
  fine = fine
  coarse = coarse
  odd = odd
  short = short
  Threads = {main, worker}
  Main = main
  Types = {"kv", "ts"}
  Calls = {"kv_set", "tsl_append", "tsl_iter"}
  CallbackCalls = {}
  Early = {"tsl_iter"}
  Again = {"kv"}
  NotFormat = {"ts"}
  Parts = {fine, coarse, odd, short}
  NoPart = NoPart
  NoThread = NoThread
  Blk <- MCBlk
  PartLen <- MCPartLen
  SecSizes = {2, 3, 4}
INVARIANT LockGivenBack
INVARIANT UsesHaveGeometry
INVARIANT Exclusive
CHECK_DEADLOCK FALSE
