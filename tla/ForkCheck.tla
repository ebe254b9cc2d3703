------------------------------ MODULE ForkCheck ------------------------------
(***************************************************************************)
(* The fork checks of the softoken (softoken.h, "macros to check for      *)
(* forked child process after C_Initialize").  A build is a record of the *)
(* preprocessor symbols and run-time settings the macros depend on:       *)
(*   platform          XP_UNIX with SOLARIS, LINUX or another Unix, or    *)
(*                     "NonUnix"                                          *)
(*   noForkCheck       NO_FORK_CHECK defined                              *)
(*   debug             DEBUG defined                                      *)
(*   usePthreadAtfork  the Solaris run-time choice (CHECK_FORK_MIXED)     *)
(*   strictNoFork      getenv("NSS_STRICT_NOFORK"): NotSet for NULL       *)
(* The library globals the macros read (myPid, forked,                    *)
(* sftkForkCheckDisabled) are the fields of a memory image mem, which a   *)
(* forked child inherits.                                                 *)
(***************************************************************************)
EXTENDS Naturals

\* getenv returned NULL
NotSet == "NotSet"

\* The results of a call whose first statement is CHECK_FORK(): it goes on,
\* returns CKR_DEVICE_ERROR, or PORT_Assert(0) aborts the process.
Proceed == "Proceed"
CKR_DEVICE_ERROR == "CKR_DEVICE_ERROR"
Abort == "Abort"

\* #if defined(XP_UNIX) && !defined(NO_FORK_CHECK), and the automatic choice
\* of CHECK_FORK_MIXED, CHECK_FORK_PTHREAD or CHECK_FORK_GETPID.
ForkCheckMethod(build) ==
  IF build.platform = "NonUnix" \/ build.noForkCheck THEN "None"
  ELSE IF build.platform = "SOLARIS" THEN "Mixed"
  ELSE IF build.platform = "LINUX" THEN "Pthread"
  ELSE "Getpid"

\* FORK_ASSERT(): in a DEBUG build, PORT_Assert(0) unless NSS_STRICT_NOFORK
\* is set to something other than "1".
ForkAssertFires(build) ==
  build.debug /\ build.strictNoFork \in {NotSet, "1"}

\* (mutant) the two branches of the CHECK_FORK_MIXED PARENT_FORKED swapped
ParentForkedMixedSwapped(build, mem, pid) ==
  LET pidChanged == mem.myPid # 0 /\ mem.myPid # pid
  IN CASE ForkCheckMethod(build) = "Mixed" ->
            IF build.usePthreadAtfork THEN pidChanged ELSE mem.forked
       [] ForkCheckMethod(build) = "Pthread" -> mem.forked
       [] ForkCheckMethod(build) = "Getpid" -> pidChanged
       [] OTHER -> FALSE

\* PARENT_FORKED() of a process whose getpid() is pid: the flag the
\* pthread_atfork child handler sets, or myPid set and unequal to getpid().
ParentForked(build, mem, pid) ==
  LET pidChanged == mem.myPid # 0 /\ mem.myPid # pid
  IN CASE ForkCheckMethod(build) = "Mixed" ->
            IF build.usePthreadAtfork THEN mem.forked ELSE pidChanged
       [] ForkCheckMethod(build) = "Pthread" -> mem.forked
       [] ForkCheckMethod(build) = "Getpid" -> pidChanged
       [] OTHER -> FALSE

\* CHECK_FORK(): empty without fork checks; otherwise, unless the check
\* was disabled, a forked child fails with CKR_DEVICE_ERROR after
\* FORK_ASSERT().
CheckFork(build, mem, pid) ==
  IF \/ ForkCheckMethod(build) = "None"
     \/ mem.sftkForkCheckDisabled
     \/ ~ParentForked(build, mem, pid)
  THEN Proceed
  ELSE IF ForkAssertFires(build) THEN Abort
  ELSE CKR_DEVICE_ERROR

\* ENABLE_FORK_CHECK(): NSS_STRICT_NOFORK=DISABLED turns the checks off;
\* empty without fork checks.
EnableForkCheck(build, mem) ==
  IF ForkCheckMethod(build) # "None" /\ build.strictNoFork = "DISABLED"
  THEN [mem EXCEPT !.sftkForkCheckDisabled = TRUE]
  ELSE mem

=============================================================================
