\* The same process trees over the builds whose check compares getpid()
\* with myPid (other Unix platforms, Solaris without pthread_atfork).
\* A process tree stops when every process has exited.
CONSTANTS
  Procs = {1, 2, 3}
  Pids = {1, 2}
  Builds <- PidBuilds
  NoCall = NoCall
SPECIFICATION Spec
INVARIANT ForkDetectedExactly
CHECK_DEADLOCK FALSE
