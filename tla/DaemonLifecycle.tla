--------------------------- MODULE DaemonLifecycle ---------------------------
(***************************************************************************)
(* How daemons come and go: `connect' invocations and the daemons they     *)
(* spawn, which find out about each other only through three files, the    *)
(* socket, the lock file and the error file (src/daemon.rs).               *)
(*                                                                         *)
(* The checks of the files, and each removal and write, are separate       *)
(* steps, so a check and what is done because of it interleave with other  *)
(* processes; only the two exists() calls are one step.                    *)
(*                                                                         *)
(* A daemon may crash anywhere (SIGKILL, or SIGTERM before its handlers    *)
(* are installed); its files then stay behind.  What a serving daemon does *)
(* is in module Daemon; here it serves, then stops.                        *)
(***************************************************************************)
EXTENDS Naturals, FiniteSets

CONSTANTS
    Starts,         \* `connect' invocations; each spawns at most one daemon
    MaxCrashes,     \* bound: how many daemons crash
    Absent

ASSUME StartsAssumption == Absent \notin Starts

ASSUME CrashesAssumption == MaxCrashes \in Nat

VARIABLES
    launcher,       \* launcher[i]: where invocation i is in spawn_daemon
    daemon,         \* daemon[i]: where its daemon is in run_daemon
    seen,           \* seen[r][i]: what cleanup_stale_daemon_artifacts has found out
    why,            \* why[i]: what made daemon i give up its startup
    fd,             \* fd[i]: the lock file daemon i has open for writing
    sock,           \* SOCKET_PATH: the daemon whose listener it leads to, or Absent
    lock,           \* LOCK_PATH: which file it is and the pid in it, or Absent
    error,          \* ERROR_PATH: the daemon whose message it holds, or Absent
    crashes

lifecycleVars == <<launcher, daemon, seen, why, fd, sock, lock, error, crashes>>

Unspawned == {"unborn"}

Ended == {"dead", "crashed"}

(* The process exists: kill(pid, 0) succeeds. *)
pid_is_alive(i) == daemon[i] \notin Unspawned \cup Ended

(* The labels between bind and the drop of the listener, which is declared    *)
(* before the cleanup guard and so dropped after it.                          *)
Bound == {"chmod", "connecting", "init", "write_error", "lock_create", "lock_write",
          "serving", "clean_sock", "clean_error", "clean_lock", "write_error_again",
          "guard_sock", "guard_error", "guard_lock"}

(* connect() to the path reaches a listener. *)
is_socket_alive == sock # Absent /\ daemon[sock] \in Bound

Checking == {"exists", "probe_sock", "probe_lock", "rm_sock", "rm_lock", "rm_error"}

Nothing == [socket_exists |-> FALSE, lock_exists |-> FALSE, socket_alive |-> FALSE]

LifecycleInit ==
    /\ launcher = [i \in Starts |-> "ready"]
    /\ daemon = [i \in Starts |-> "unborn"]
    /\ seen = [r \in {"cli", "daemon"} |-> [i \in Starts |-> Nothing]]
    /\ why = [i \in Starts |-> "none"]
    /\ fd = [i \in Starts |-> Absent]
    /\ sock = Absent
    /\ lock = Absent
    /\ error = Absent
    /\ crashes = 0

-----------------------------------------------------------------------------
(* cleanup_stale_daemon_artifacts, run by the invocation and again by the     *)
(* daemon.  At(r, i) is where the one in role r is, Go moves it.              *)

At(r, i) == IF r = "cli" THEN launcher[i] ELSE daemon[i]

Go(r, i, l) ==
    IF r = "cli"
    THEN launcher' = [launcher EXCEPT ![i] = l] /\ UNCHANGED daemon
    ELSE daemon' = [daemon EXCEPT ![i] = l] /\ UNCHANGED launcher

(* Where each caller goes on when the check passes, and when it bails. *)
Passed(r) == IF r = "cli" THEN "spawn" ELSE "bind"

Bailed(r) == IF r = "cli" THEN "refused" ELSE "dead"

CheckExists(r, i) ==
    /\ At(r, i) = "exists"
    /\ seen' = [seen EXCEPT ![r][i] = [socket_exists |-> sock # Absent,
                                      lock_exists |-> lock # Absent,
                                      socket_alive |-> FALSE]]
    /\ Go(r, i, IF sock = Absent /\ lock = Absent THEN "rm_error" ELSE "probe_sock")
    /\ UNCHANGED <<why, fd, sock, lock, error, crashes>>

ProbeSocket(r, i) ==
    /\ At(r, i) = "probe_sock"
    /\ seen' = [seen EXCEPT ![r][i].socket_alive = seen[r][i].socket_exists /\ is_socket_alive]
    /\ Go(r, i, "probe_lock")
    /\ UNCHANGED <<why, fd, sock, lock, error, crashes>>

(* A missing, empty or unparsable lock file counts as dead. *)
MutantAnyLockIsAlive == lock # Absent
LockAlive == lock # Absent /\ lock.pid # Absent /\ pid_is_alive(lock.pid)

ProbeLock(r, i) ==
    /\ At(r, i) = "probe_lock"
    /\ Go(r, i, IF seen[r][i].socket_alive \/ (seen[r][i].lock_exists /\ LockAlive)
                THEN Bailed(r) ELSE "rm_sock")
    /\ UNCHANGED <<seen, why, fd, sock, lock, error, crashes>>

RemoveStaleSocket(r, i) ==
    /\ At(r, i) = "rm_sock"
    /\ sock' = Absent
    /\ Go(r, i, "rm_lock")
    /\ UNCHANGED <<seen, why, fd, lock, error, crashes>>

RemoveStaleLock(r, i) ==
    /\ At(r, i) = "rm_lock"
    /\ lock' = Absent
    /\ Go(r, i, "rm_error")
    /\ UNCHANGED <<seen, why, fd, sock, error, crashes>>

RemoveStaleError(r, i) ==
    /\ At(r, i) = "rm_error"
    /\ error' = Absent
    /\ seen' = [seen EXCEPT ![r][i] = Nothing]
    /\ Go(r, i, Passed(r))
    /\ UNCHANGED <<why, fd, sock, lock, crashes>>

CleanupStale(r, i) ==
    \/ CheckExists(r, i)
    \/ ProbeSocket(r, i)
    \/ ProbeLock(r, i)
    \/ RemoveStaleSocket(r, i)
    \/ RemoveStaleLock(r, i)
    \/ RemoveStaleError(r, i)

-----------------------------------------------------------------------------
(* spawn_daemon. *)

StartConnect(i) ==
    /\ launcher[i] = "ready"
    /\ launcher' = [launcher EXCEPT ![i] = "exists"]
    /\ UNCHANGED <<daemon, seen, why, fd, sock, lock, error, crashes>>

Spawn(i) ==
    /\ launcher[i] = "spawn"
    /\ launcher' = [launcher EXCEPT ![i] = "wait"]
    /\ daemon' = [daemon EXCEPT ![i] = "exists"]
    /\ UNCHANGED <<seen, why, fd, sock, lock, error, crashes>>

(* One of the 100 ms polls finds a lock file, whoever wrote it. *)
SeeLock(i) ==
    /\ launcher[i] = "wait"
    /\ lock # Absent
    /\ launcher' = [launcher EXCEPT ![i] = "connected"]
    /\ UNCHANGED <<daemon, seen, why, fd, sock, lock, error, crashes>>

(* The polls are used up: the daemon's message if there is one, else that no  *)
(* lock file appeared.                                                        *)
WaitEnds(i) ==
    /\ launcher[i] = "wait"
    /\ launcher' = [launcher EXCEPT ![i] = IF error # Absent THEN "told_error" ELSE "told_no_lock"]
    /\ error' = Absent
    /\ UNCHANGED <<daemon, seen, why, fd, sock, lock, crashes>>

-----------------------------------------------------------------------------
(* run_daemon. *)

(* EADDRINUSE ends the daemon before its cleanup guard exists. *)
Bind(i) ==
    /\ daemon[i] = "bind"
    /\ IF sock = Absent
       THEN sock' = i /\ daemon' = [daemon EXCEPT ![i] = "chmod"]
       ELSE daemon' = [daemon EXCEPT ![i] = "dead"] /\ UNCHANGED sock
    /\ UNCHANGED <<launcher, seen, why, fd, lock, error, crashes>>

(* set_permissions(SOCKET_PATH) fails when the file has been removed. *)
MutantLockWithSocket(i) ==
    /\ daemon[i] = "chmod"
    /\ daemon' = [daemon EXCEPT ![i] = IF sock = Absent THEN "guard_sock" ELSE "connecting"]
    /\ lock' = [file |-> i, pid |-> i]
    /\ UNCHANGED <<launcher, seen, why, fd, sock, error, crashes>>
Chmod(i) ==
    /\ daemon[i] = "chmod"
    /\ daemon' = [daemon EXCEPT ![i] = IF sock = Absent THEN "guard_sock" ELSE "connecting"]
    /\ UNCHANGED <<launcher, seen, why, fd, sock, lock, error, crashes>>

(* connect_with_timeout and initialize_stream_for_mode. *)
ConnectSucceeds(i) ==
    /\ daemon[i] = "connecting"
    /\ daemon' = [daemon EXCEPT ![i] = "init"]
    /\ UNCHANGED <<launcher, seen, why, fd, sock, lock, error, crashes>>

InitSucceeds(i) ==
    /\ daemon[i] = "init"
    /\ daemon' = [daemon EXCEPT ![i] = "lock_create"]
    /\ UNCHANGED <<launcher, seen, why, fd, sock, lock, error, crashes>>

StartupFails(i) ==
    /\ daemon[i] \in {"connecting", "init"}
    /\ why' = [why EXCEPT ![i] = daemon[i]]
    /\ daemon' = [daemon EXCEPT ![i] = "write_error"]
    /\ UNCHANGED <<launcher, seen, fd, sock, lock, error, crashes>>

(* write_startup_error, before cleanup() and, when connecting failed, after. *)
WriteStartupError(i) ==
    /\ daemon[i] \in {"write_error", "write_error_again"}
    /\ error' = i
    /\ daemon' = [daemon EXCEPT ![i] = IF @ = "write_error" THEN "clean_sock" ELSE "guard_sock"]
    /\ UNCHANGED <<launcher, seen, why, fd, sock, lock, crashes>>

(* LockFile::write: fs::write creates or truncates the file, then fills it    *)
(* through the descriptor; set_permissions fails when it has been removed.    *)
LockCreate(i) ==
    /\ daemon[i] = "lock_create"
    /\ lock' = IF lock = Absent THEN [file |-> i, pid |-> Absent] ELSE [lock EXCEPT !.pid = Absent]
    /\ fd' = [fd EXCEPT ![i] = lock'.file]
    /\ daemon' = [daemon EXCEPT ![i] = "lock_write"]
    /\ UNCHANGED <<launcher, seen, why, sock, error, crashes>>

LockWrite(i) ==
    /\ daemon[i] = "lock_write"
    /\ lock' = IF lock # Absent /\ lock.file = fd[i] THEN [lock EXCEPT !.pid = i] ELSE lock
    /\ fd' = [fd EXCEPT ![i] = Absent]
    /\ daemon' = [daemon EXCEPT ![i] = IF lock = Absent THEN "guard_sock" ELSE "serving"]
    /\ UNCHANGED <<launcher, seen, why, sock, error, crashes>>

(* The event loop ends: graceful_shutdown reaches its cleanup(), or closing   *)
(* the transport fails and only the guard cleans up.                          *)
Stop(i) ==
    /\ daemon[i] = "serving"
    /\ \E l \in {"clean_sock", "guard_sock"} : daemon' = [daemon EXCEPT ![i] = l]
    /\ UNCHANGED <<launcher, seen, why, fd, sock, lock, error, crashes>>

(* cleanup(), called by the code and again by the drop of the guard. *)
MutantGuardLeavesSocket(i) ==
    /\ daemon[i] \in {"clean_sock", "guard_sock"}
    /\ sock' = IF daemon[i] = "guard_sock" THEN sock ELSE Absent
    /\ daemon' = [daemon EXCEPT ![i] = IF @ = "clean_sock" THEN "clean_error" ELSE "guard_error"]
    /\ UNCHANGED <<launcher, seen, why, fd, lock, error, crashes>>
CleanupSocket(i) ==
    /\ daemon[i] \in {"clean_sock", "guard_sock"}
    /\ sock' = Absent
    /\ daemon' = [daemon EXCEPT ![i] = IF @ = "clean_sock" THEN "clean_error" ELSE "guard_error"]
    /\ UNCHANGED <<launcher, seen, why, fd, lock, error, crashes>>

CleanupError(i) ==
    /\ daemon[i] \in {"clean_error", "guard_error"}
    /\ error' = Absent
    /\ daemon' = [daemon EXCEPT ![i] = IF @ = "clean_error" THEN "clean_lock" ELSE "guard_lock"]
    /\ UNCHANGED <<launcher, seen, why, fd, sock, lock, crashes>>

MutantGuardLeavesLock(i) ==
    /\ daemon[i] \in {"clean_lock", "guard_lock"}
    /\ lock' = IF daemon[i] = "guard_lock" THEN lock ELSE Absent
    /\ daemon' = [daemon EXCEPT ![i] = IF @ = "guard_lock" THEN "dead" ELSE "guard_sock"]
    /\ UNCHANGED <<launcher, seen, why, fd, sock, error, crashes>>
CleanupLock(i) ==
    /\ daemon[i] \in {"clean_lock", "guard_lock"}
    /\ lock' = Absent
    /\ daemon' = [daemon EXCEPT ![i] = CASE @ = "guard_lock" -> "dead"
                                         [] @ = "clean_lock" /\ why[i] = "connecting" -> "write_error_again"
                                         [] OTHER -> "guard_sock"]
    /\ UNCHANGED <<launcher, seen, why, fd, sock, error, crashes>>

Crash(i) ==
    /\ crashes < MaxCrashes
    /\ pid_is_alive(i)
    /\ daemon' = [daemon EXCEPT ![i] = "crashed"]
    /\ seen' = [seen EXCEPT !["daemon"][i] = Nothing]
    /\ fd' = [fd EXCEPT ![i] = Absent]
    /\ crashes' = crashes + 1
    /\ UNCHANGED <<launcher, why, sock, lock, error>>

-----------------------------------------------------------------------------
Roles == {"cli", "daemon"}

(* What invocation i does once started, and what its daemon does by itself. *)
CliStep(i) == CleanupStale("cli", i) \/ Spawn(i) \/ SeeLock(i) \/ WaitEnds(i)

DaemonStep(i) ==
    \/ CleanupStale("daemon", i)
    \/ Bind(i)
    \/ Chmod(i)
    \/ ConnectSucceeds(i)
    \/ InitSucceeds(i)
    \/ StartupFails(i)
    \/ WriteStartupError(i)
    \/ LockCreate(i)
    \/ LockWrite(i)
    \/ CleanupSocket(i)
    \/ CleanupError(i)
    \/ CleanupLock(i)

LifecycleNext == \E i \in Starts : StartConnect(i) \/ CliStep(i) \/ DaemonStep(i) \/ Stop(i) \/ Crash(i)

LifecycleSpec == LifecycleInit /\ [][LifecycleNext]_lifecycleVars

(* Processes are scheduled, and connect_with_timeout bounds the connection. *)
LifecycleLiveSpec ==
    LifecycleSpec /\ \A i \in Starts : WF_lifecycleVars(CliStep(i)) /\ WF_lifecycleVars(DaemonStep(i))

-----------------------------------------------------------------------------
(* Properties. *)

CliLabels == Checking \cup {"ready", "spawn", "wait", "refused", "connected",
                            "told_error", "told_no_lock"}

DaemonLabels == Checking \cup Unspawned \cup Ended \cup Bound \cup {"bind"}

LockFiles == [file : Starts, pid : Starts \cup {Absent}]

(* The variables have their types. *)
LifecycleTypeOK ==
    /\ launcher \in [Starts -> CliLabels]
    /\ daemon \in [Starts -> DaemonLabels]
    /\ seen \in [Roles -> [Starts -> [socket_exists : BOOLEAN, lock_exists : BOOLEAN,
                                      socket_alive : BOOLEAN]]]
    /\ why \in [Starts -> {"none", "connecting", "init"}]
    /\ fd \in [Starts -> Starts \cup {Absent}]
    /\ sock \in Starts \cup {Absent}
    /\ lock \in LockFiles \cup {Absent}
    /\ error \in Starts \cup {Absent}
    /\ crashes \in 0 .. MaxCrashes

(* A daemon that ended by itself has left nothing behind that leads to it,    *)
(* whichever way it ended and whatever others did to the files meanwhile      *)
(* (cleanup, DaemonCleanupGuard, and the exits before the guard exists).      *)
ExitLeavesNothing ==
    \A i \in Starts : daemon[i] = "dead" => sock # i /\ (lock = Absent \/ lock.pid # i)

(* The labels of a daemon whose connection is up and initialised, or was.     *)
Ready == {"lock_write", "serving", "clean_sock", "clean_error", "clean_lock",
          "guard_sock", "guard_error", "guard_lock", "dead", "crashed"}

(* "Lock file signals readiness only after the post-auth stream is usable"    *)
(* (run_daemon): a lock file was created, and is filled, only by a daemon     *)
(* whose startup succeeded, although starters remove and recreate the file.   *)
LockSignalsReadiness ==
    lock # Absent => \A i \in {lock.file, lock.pid} \ {Absent} : daemon[i] \in Ready /\ why[i] = "none"

(* No other invocation is between its check and its spawn, and no other       *)
(* daemon is alive.                                                           *)
Alone(i) ==
    \A j \in Starts \ {i} : launcher[j] \notin Checking \cup {"spawn"} /\ ~pid_is_alive(j)

(* Wherever earlier daemons crashed, the files they left do not lock the next *)
(* connect out: started alone, its daemon gets to own the socket, unless it   *)
(* crashes itself or is no longer alone.                                      *)
CrashesDoNotLockOut ==
    \A i \in Starts :
        (launcher[i] = "exists" /\ Alone(i)) ~> (sock = i \/ ~Alone(i) \/ daemon[i] = "crashed")

(* "daemon startup failure during `connect`" is a CLI-visible error           *)
(* (DESIGN_ERROR_HANDLING.md, 2.4): an invocation that gives up after its     *)
(* daemon wrote a startup error and ended reports that error.  It does not    *)
(* hold: the daemon's guard removes the error first.                          *)
StartupErrorReported ==
    [][\A i \in Starts :
          WaitEnds(i) /\ daemon[i] = "dead" /\ why[i] # "none" => launcher'[i] = "told_error"]_lifecycleVars

(* "CLI reads lock file -> connects to UDS" (SPEC.md, Session Lifecycle): the *)
(* socket path leads to the serving daemon the lock file names.  It does not  *)
(* hold: an ending daemon removes its successor's socket.                     *)
LockedDaemonReachable ==
    \A i \in Starts : daemon[i] = "serving" /\ lock # Absent /\ lock.pid = i => sock = i

-----------------------------------------------------------------------------
(* The inductive invariant behind ExitLeavesNothing and LockSignalsReadiness. *)

MayOwnSocket == {"chmod", "connecting", "init", "write_error", "lock_create", "lock_write",
                 "serving", "clean_sock", "guard_sock", "crashed"}

MayBeInLock == Ready \ {"lock_write", "dead"}

NotFailed == Unspawned \cup Checking
             \cup {"bind", "chmod", "connecting", "init", "lock_create", "lock_write", "serving"}

(* Who may own the socket and the lock file: the daemon the socket leads to   *)
(* has not yet removed it, the daemons behind the lock file came through      *)
(* their startup, and only a failed startup has a reason to have failed.  A   *)
(* daemon is spawned once.                                                    *)
OwnershipInv ==
    /\ launcher \in [Starts -> CliLabels]
    /\ daemon \in [Starts -> DaemonLabels]
    /\ why \in [Starts -> {"none", "connecting", "init"}]
    /\ lock \in LockFiles \cup {Absent}
    /\ sock # Absent => sock \in Starts /\ daemon[sock] \in MayOwnSocket
    /\ lock # Absent => /\ daemon[lock.file] \in Ready /\ why[lock.file] = "none"
                        /\ lock.pid # Absent => /\ daemon[lock.pid] \in MayBeInLock
                                                /\ why[lock.pid] = "none"
    /\ \A i \in Starts : daemon[i] \in NotFailed => why[i] = "none"
    /\ \A i \in Starts : launcher[i] \in Checking \cup {"ready", "spawn"} => daemon[i] = "unborn"
=============================================================================
