SPECIFICATION Spec
CONSTANTS
  main = main
  worker = worker
  fine = fine
  coarse = coarse
  odd = odd
  short = short
  Threads = {main, worker}
  Main = main
  Types = {"kv", "ts"}
  Calls = {"kv_set", "kv_get", "kv_set_default", "tsl_append", "tsl_iter", "tsl_count", "tsl_clean"}
  CallbackCalls = {"tsl_set_status"}
  Early = {"kv_set", "kv_get", "tsl_append", "tsl_count"}
  Again = {"ts"}
  NotFormat = {"kv"}
  Parts = {fine, coarse, odd, short}
  NoPart = NoPart
  NoThread = NoThread
  Blk <- MCBlk
  PartLen <- MCPartLen
  SecSizes = {2, 3, 4}
INVARIANT GeometryOk
INVARIANT Exclusive
PROPERTY NotFormatKept
PROPERTY CallsReturn
CHECK_DEADLOCK FALSE
