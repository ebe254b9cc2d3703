---------------------------- MODULE MCForkCheck ----------------------------
(***************************************************************************)
(* The fork checks of ForkCheck in a tree of Unix processes.  The         *)
(* environment of the macros is modelled, not translated: who sets the    *)
(* globals is pkcs11.c, which is not in this tree.  C_Initialize runs      *)
(* ENABLE_FORK_CHECK(), records getpid() in myPid, clears forked and,     *)
(* with CHECK_FORK_PTHREAD or MIXED with pthread_atfork, registers a      *)
(* child handler that sets forked.  fork() copies the caller's memory     *)
(* image into a child with a fresh pid, running that handler; exit() ends *)
(* a process, and the kernel may hand its pid to a later child.  Every    *)
(* other PKCS #11 function starts with CHECK_FORK().                      *)
(*                                                                         *)
(* A process is [state, pid, mem, rv]: "unborn", "alive" or "dead"; mem   *)
(* its image of the library globals plus initProc, the process that ran   *)
(* C_Initialize for that image (0 before); rv the result of its last      *)
(* checked call.                                                          *)
(***************************************************************************)
EXTENDS ForkCheck, Naturals, FiniteSets

CONSTANTS
  Procs,    \* process identities 1..n, in order of creation
  Pids,     \* the pids the kernel hands out, fewer than Procs so one is reused
  Builds,   \* the builds and settings checked
  NoCall    \* model value: no checked call made yet

VARIABLES build, procs
vars == <<build, procs>>

\* builds over the given platforms and Solaris run-time choice, with and
\* without NO_FORK_CHECK and DEBUG, for every kind of NSS_STRICT_NOFORK
BuildsOf(platforms, atfork) ==
  [platform : platforms, noForkCheck : BOOLEAN, debug : BOOLEAN,
   usePthreadAtfork : atfork, strictNoFork : {NotSet, "1", "0", "DISABLED"}]

\* the builds whose check rests on the pthread_atfork flag (or is absent)
AtforkBuilds == BuildsOf({"LINUX", "NonUnix"}, {FALSE}) \cup BuildsOf({"SOLARIS"}, {TRUE})

\* the builds whose check compares pids
PidBuilds == BuildsOf({"OtherUnix"}, {FALSE}) \cup BuildsOf({"SOLARIS"}, {FALSE})

Uninitialized == [initialized |-> FALSE, myPid |-> 0, forked |-> FALSE,
                  atforkRegistered |-> FALSE, sftkForkCheckDisabled |-> FALSE,
                  initProc |-> 0]

Alive == {i \in Procs : procs[i].state = "alive"}

Init ==
  /\ build \in Builds
  /\ procs = [i \in Procs |->
                [state |-> IF i = 1 THEN "alive" ELSE "unborn",
                 pid |-> IF i = 1 THEN 1 ELSE 0,
                 mem |-> Uninitialized, rv |-> NoCall]]

\* C_Initialize in process i.
Initialize(i) ==
  LET m == procs[i].mem
      method == ForkCheckMethod(build)
  IN /\ i \in Alive
     /\ ~m.initialized
     /\ procs' = [procs EXCEPT ![i].mem =
                    EnableForkCheck(build,
                      [m EXCEPT !.initialized = TRUE, !.myPid = procs[i].pid,
                                !.forked = FALSE, !.initProc = i,
                                !.atforkRegistered =
                                  \/ method = "Pthread"
                                  \/ method = "Mixed" /\ build.usePthreadAtfork])]
     /\ UNCHANGED build

\* fork() in process i creates the next process, with a pid no live
\* process holds; the child handler runs in the child.
Fork(i, q) ==
  LET j == CHOOSE k \in Procs : procs[k].state = "unborn" /\
                                \A l \in Procs : procs[l].state = "unborn" => k <= l
      m == procs[i].mem
  IN /\ i \in Alive
     /\ \E k \in Procs : procs[k].state = "unborn"
     /\ \A l \in Alive : procs[l].pid # q
     /\ procs' = [procs EXCEPT ![j] =
                    [state |-> "alive", pid |-> q, rv |-> NoCall,
                     mem |-> IF m.atforkRegistered THEN [m EXCEPT !.forked = TRUE]
                             ELSE m]]
     /\ UNCHANGED build

Exit(i) ==
  /\ i \in Alive
  /\ procs' = [procs EXCEPT ![i].state = "dead"]
  /\ UNCHANGED build

\* A PKCS #11 call in process i after C_Initialize; an assertion failure
\* ends the process.
Call(i) ==
  LET r == CheckFork(build, procs[i].mem, procs[i].pid)
  IN /\ i \in Alive
     /\ procs[i].mem.initialized
     /\ procs[i].rv = NoCall
     /\ procs' = [procs EXCEPT ![i].rv = r,
                               ![i].state = IF r = Abort THEN "dead" ELSE "alive"]
     /\ UNCHANGED build

Next ==
  \E i \in Procs :
    \/ Initialize(i)
    \/ \E q \in Pids : Fork(i, q)
    \/ Exit(i)
    \/ Call(i)

Spec == Init /\ [][Next]_vars

\* the build checks for forks at all and NSS_STRICT_NOFORK does not turn
\* the check off
CheckEnabled(b) == ForkCheckMethod(b) # "None" /\ b.strictNoFork # "DISABLED"

(***************************************************************************)
(* CHECK_FORK tells the process that ran C_Initialize from every process *)
(* forked off it, directly or through other children, whatever pids the  *)
(* kernel reused: with the check enabled, a checked call goes on exactly  *)
(* in the initializing process, and a call in a forked child fails        *)
(* (CKR_DEVICE_ERROR, or an assertion failure in a debug build).          *)
(***************************************************************************)
ForkDetectedExactly ==
  \A i \in Procs :
    procs[i].rv # NoCall /\ CheckEnabled(build) =>
      (procs[i].rv = Proceed <=> procs[i].mem.initProc = i)

=============================================================================
