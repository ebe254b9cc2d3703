\* Four processes and three pids, so that a pid is reused after an exit
\* while other pids are still free and a third generation is forked,
\* over the builds whose check uses the pthread_atfork flag (Linux,
\* Solaris with pthread_atfork) or is compiled out.  A process tree stops
\* when every process has exited.
CONSTANTS
  Procs = {1, 2, 3, 4}
  Pids = {1, 2, 3}
  Builds <- AtforkBuilds
  NoCall = NoCall
SPECIFICATION Spec
INVARIANT ForkDetectedExactly
CHECK_DEADLOCK FALSE
