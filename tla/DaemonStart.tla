---------------------------- MODULE DaemonStart ----------------------------
(***************************************************************************)
(* How a daemon process becomes the only one of its home directory:        *)
(* packages/daemon/src/daemon-singleton.ts and the start and stop commands *)
(* of packages/daemon/src/index.ts.                                        *)
(*                                                                         *)
(* Processes share three things: a pid file, a lock directory that holds   *)
(* its owner's pid, and signals.  Each call to the file system that        *)
(* another process can come in front of is a step; a read of a pid, the    *)
(* liveness test and the signal that follow it are one.  Pids are not      *)
(* reused.  A process is started once.  A start in the background is two   *)
(* processes: the command, which stops the others, and the detached child  *)
(* that it spawns and that becomes the daemon without looking at ps again. *)
(***************************************************************************)
EXTENDS Naturals, FiniteSets

CONSTANTS
    Procs,        \* the processes ever started
    Child,        \* the process that a start in the background spawns
    Worlds,       \* the circumstances looked at, see world
    MaxMishaps    \* bound on crashes, failed starts and stop commands

\* How a process is started; "none": not at all.
Modes == {"foreground", "background", "child", "cloud", "none"}

NoPid == "no pid"     \* an empty or missing owner.pid, no pid file
NoLock == "no lock"   \* the lock directory does not exist

ASSUME DaemonStartAssumption ==
    /\ NoPid \notin Procs /\ NoLock \notin Procs
    /\ Worlds \subseteq [mode : [Procs -> Modes], overlapping : BOOLEAN,
                       psFails : BOOLEAN, stuck : BOOLEAN]
    /\ \A w \in Worlds, p \in Procs :
         w.mode[p] = "background" => Child[p] \in Procs /\ w.mode[Child[p]] = "child"
    /\ MaxMishaps \in Nat

VARIABLES
    world,     \* how each process is started, whether a start may overlap
               \* another one, whether ps, or a HOME, may be unreadable, and
               \* whether a process may outlive SIGKILL by two seconds
    pc,        \* where a process is
    sig,       \* the signal on its way to a process
    list,      \* the processes a starter found with ps and has still to stop
    victim,    \* the process it has signalled and waits for
    lock,      \* NoLock, or what the lock directory says of its owner
    pidFile,   \* the process the pid file names
    mishaps

startVars == <<world, pc, sig, list, victim, lock, pidFile, mishaps>>

(***************************************************************************)
(* "pid", "ps", "kill": stop whoever the pid file or ps knows of.          *)
(* "spawn", "poll": the command of a background start; "check": its child  *)
(* gives way to a daemon.  "mkdir" .. "rm": acquireDaemonSingletonLock.    *)
(* "waitPid", "waitPs", "waitLock": a victim was signalled.  "boot":       *)
(* startDaemon, before signal handlers are installed.                      *)
(***************************************************************************)
Waiting == {"waitPid", "waitPs", "waitLock"}
Starting == {"pid", "ps", "kill", "spawn", "check", "mkdir", "owner", "read", "reread", "rm", "retry", "write"}
                \cup Waiting
Serving == {"boot", "up", "stopping"}
Gone == {"off", "dead", "crashed"}

Mode(p) == world.mode[p]

\* A process that SIGKILL is on its way to executes nothing any more, even
\* while the system call it hangs in keeps it from ending.
Runs(p) == sig[p] # "kill"

\* Mutant of Alive: a process that is shutting down counts as gone.
AliveUnlessStopping(p) == pc[p] \notin Gone \cup {"stopping"}

\* pidAlive
Alive(p) == pc[p] \notin Gone

StartTypeOK ==
    /\ world \in Worlds
    /\ pc \in [Procs -> Starting \cup {"poll"} \cup Serving \cup Gone]
    /\ sig \in [Procs -> {"none", "term", "kill"}]
    /\ list \in [Procs -> SUBSET Procs]
    /\ \A p \in Procs : victim[p] \in (Procs \ {p}) \cup {NoPid}   \* never itself
    /\ lock \in Procs \cup {NoPid, NoLock}
    /\ pidFile \in Procs \cup {NoPid}
    /\ mishaps \in 0..MaxMishaps

StartInit ==
    /\ world \in Worlds
    /\ pc = [p \in Procs |-> "off"]
    /\ sig = [p \in Procs |-> "none"]
    /\ list = [p \in Procs |-> {}]
    /\ victim = [p \in Procs |-> NoPid]
    /\ lock = NoLock
    /\ pidFile = NoPid
    /\ mishaps = 0

Mishap == mishaps < MaxMishaps /\ mishaps' = mishaps + 1
Go(p, l) == pc' = [pc EXCEPT ![p] = l]
Goto(p, l) == Go(p, l) /\ UNCHANGED <<world, sig, list, victim, lock, pidFile, mishaps>>
Term(q) == sig' = [sig EXCEPT ![q] = IF @ = "kill" THEN @ ELSE "term"]

\* cmdStart stops the others and takes the lock, cmdStartCloud the other way
\* round.
AfterPs(p) == IF Mode(p) = "cloud" THEN "write"
              ELSE IF Mode(p) = "background" THEN "spawn" ELSE "mkdir"
AfterLock(p) == IF Mode(p) = "cloud" THEN "pid" ELSE "write"

-----------------------------------------------------------------------------
(* Stopping the others *)

Start(p) ==
    /\ pc[p] = "off" /\ Mode(p) \in {"foreground", "background", "cloud"}
    /\ world.overlapping \/ \A q \in Procs : pc[q] \in Gone \cup {"up", "stopping"}
    /\ Goto(p, IF Mode(p) = "cloud" THEN "mkdir" ELSE "pid")

\* SIGTERM to q, whose end p then waits for.
Signal(p, q, wait) ==
    /\ Term(q)
    /\ victim' = [victim EXCEPT ![p] = q]
    /\ Go(p, wait)
    /\ UNCHANGED <<world, list, lock, pidFile, mishaps>>

\* stopDaemonFromPidFileForRestart
StopFromPidFile(p) ==
    /\ pc[p] = "pid"
    /\ IF pidFile \in Procs \ {p} /\ Alive(pidFile)
       THEN Signal(p, pidFile, "waitPid")
       ELSE Goto(p, "ps")

\* stopOtherDaemonProcessesForRestart: findOtherDaemonProcesses runs ps, and
\* leaves out what it cannot read ...
ListOthers(p) ==
    /\ pc[p] = "ps"
    /\ LET found == {q \in Procs \ {p} : Alive(q)} IN
       \E S \in SUBSET found :
           (S = found \/ world.psFails) /\ list' = [list EXCEPT ![p] = S]
    /\ Go(p, "kill")
    /\ UNCHANGED <<world, sig, victim, lock, pidFile, mishaps>>

\* ... and what it found is stopped one by one; the dead are skipped.
StopOther(p) ==
    /\ pc[p] = "kill"
    /\ LET left == {q \in list[p] : Alive(q)} IN
       IF left = {} THEN Goto(p, AfterPs(p))
       ELSE \E q \in left : Signal(p, q, "waitPs")

\* It goes on after its victim; stopExistingDaemonForRestart then removes the
\* pid file, whoever's it is by now.
GoOn(p) ==
    /\ victim' = [victim EXCEPT ![p] = NoPid]
    /\ list' = [list EXCEPT ![p] = @ \ {victim[p]}]
    /\ pidFile' = IF pc[p] = "waitPs" THEN pidFile ELSE NoPid
    /\ Go(p, [waitPid |-> "ps", waitPs |-> "kill", waitLock |-> "reread"][pc[p]])
    /\ UNCHANGED <<world, sig, lock, mishaps>>

\* waitForPidExit saw the end of it.
Stopped(p) ==
    /\ pc[p] \in Waiting
    /\ ~Alive(victim[p])
    /\ GoOn(p)

\* Two seconds after SIGKILL it goes on without.
WaitedOut(p) ==
    /\ world.stuck
    /\ pc[p] \in Waiting
    /\ Alive(victim[p]) /\ sig[victim[p]] = "kill"
    /\ GoOn(p)

\* The five seconds after SIGTERM are over: SIGKILL.
Escalate(p) ==
    /\ pc[p] \in Waiting
    /\ Alive(victim[p])
    /\ sig' = [sig EXCEPT ![victim[p]] = "kill"]
    /\ UNCHANGED <<pc, world, list, victim, lock, pidFile, mishaps>>

\* The command of a background start has stopped the others and spawns the
\* daemon, ...
Spawn(p) ==
    /\ pc[p] = "spawn"
    /\ pc[Child[p]] = "off"
    /\ pc' = [pc EXCEPT ![p] = "poll", ![Child[p]] = "check"]
    /\ UNCHANGED <<world, sig, list, victim, lock, pidFile, mishaps>>

\* ... and ends when it has read a pid that lives, or five seconds later.
Polled(p) == pc[p] = "poll" /\ Goto(p, "dead")

\* ensureNoOtherDaemonFromPidFile, in the child: it exits when there is a
\* daemon.
CheckNoOther(p) ==
    /\ pc[p] = "check"
    /\ Goto(p, IF pidFile \in Procs \ {p} /\ Alive(pidFile) THEN "dead" ELSE "mkdir")

-----------------------------------------------------------------------------
(* acquireDaemonSingletonLock *)

MakeLock(p) ==
    /\ pc[p] = "mkdir"
    /\ IF lock = NoLock
       THEN lock' = NoPid /\ Go(p, "owner")
       ELSE Go(p, "read") /\ UNCHANGED lock
    /\ UNCHANGED <<world, sig, list, victim, pidFile, mishaps>>

\* owner.pid is written; if the directory is gone that throws ENOENT.
WriteOwner(p) ==
    /\ pc[p] = "owner"
    /\ IF lock = NoLock
       THEN Go(p, "dead") /\ UNCHANGED lock
       ELSE lock' = p /\ Go(p, AfterLock(p))
    /\ UNCHANGED <<world, sig, list, victim, pidFile, mishaps>>

ReadOwner(p) ==
    /\ pc[p] = "read"
    /\ IF lock = p THEN Goto(p, AfterLock(p))
       ELSE IF lock \in Procs /\ Alive(lock) THEN Signal(p, lock, "waitLock")
       ELSE Goto(p, "reread")

\* Mutant of RereadOwner: a lock without an owner counts as taken.
RereadOwnerTrustsEmpty(p) ==
    /\ pc[p] = "reread"
    /\ Goto(p, IF lock = NoPid \/ (lock \in Procs /\ Alive(lock)) THEN "retry" ELSE "rm")

\* refreshedOwner: one that is alive is left alone for this round.
RereadOwner(p) ==
    /\ pc[p] = "reread"
    /\ Goto(p, IF lock \in Procs /\ Alive(lock) THEN "retry" ELSE "rm")

\* rmSync, of whatever is there by now.
RemoveStale(p) ==
    /\ pc[p] = "rm"
    /\ lock' = NoLock
    /\ Go(p, "retry")
    /\ UNCHANGED <<world, sig, list, victim, pidFile, mishaps>>

Retry(p) == pc[p] = "retry" /\ Goto(p, "mkdir")

\* Fifteen seconds are over.  It takes a second starter or a stuck owner to
\* use them up: else the loop of a lone one comes to its end after one victim.
AcquireTimeout(p) ==
    /\ world.overlapping \/ world.stuck
    /\ Mishap
    /\ pc[p] = "retry"
    /\ Go(p, "dead")
    /\ UNCHANGED <<world, sig, list, victim, lock, pidFile>>

-----------------------------------------------------------------------------
(* The daemon *)

WritePid(p) ==
    /\ pc[p] = "write"
    /\ pidFile' = p
    /\ Go(p, "boot")
    /\ UNCHANGED <<world, sig, list, victim, lock, mishaps>>

\* startDaemon resolves, and the signal handlers are installed.
Up(p) == pc[p] = "boot" /\ Goto(p, "up")

\* removePidFile and release.
Exit(p) ==
    /\ pidFile' = NoPid
    /\ lock' = IF lock \in Procs \ {p} THEN lock ELSE NoLock
    /\ Go(p, "dead")
    /\ UNCHANGED <<world, sig, list, victim>>

BootFails(p) == pc[p] = "boot" /\ Mishap /\ Exit(p)

\* shutdown, after handle.stop.
Shutdown(p) == pc[p] = "stopping" /\ Exit(p) /\ UNCHANGED mishaps

\* Only a daemon that is up has handlers; it may be busy with an earlier
\* signal.
Deliver(p) ==
    /\ sig[p] # "none" /\ Alive(p)
    /\ Go(p, IF sig[p] = "term" /\ pc[p] \in {"up", "stopping"} THEN "stopping" ELSE "dead")
    /\ sig' = [sig EXCEPT ![p] = "none"]
    /\ UNCHANGED <<world, list, victim, lock, pidFile, mishaps>>

Killed(p) ==
    /\ Mishap
    /\ Alive(p)
    /\ Go(p, "crashed")
    /\ UNCHANGED <<world, sig, list, victim, lock, pidFile>>

\* cmdStop.
StopCommand ==
    /\ Mishap
    /\ pidFile \in Procs
    /\ world.overlapping \/ \A p \in Procs : pc[p] \in Gone \cup {"poll", "up"}
    /\ IF Alive(pidFile) THEN Term(pidFile) /\ UNCHANGED pidFile
                         ELSE pidFile' = NoPid /\ UNCHANGED sig
    /\ UNCHANGED <<pc, world, list, victim, lock>>

StartStep(p) ==
    /\ Runs(p)
    /\ \/ StopFromPidFile(p) \/ ListOthers(p) \/ StopOther(p) \/ Stopped(p)
       \/ Spawn(p) \/ Polled(p) \/ CheckNoOther(p)
       \/ MakeLock(p) \/ WriteOwner(p) \/ ReadOwner(p)
       \/ RereadOwner(p) \/ RemoveStale(p) \/ Retry(p) \/ WritePid(p) \/ Up(p) \/ Shutdown(p)

\* What a process does that no one can count on.
Setback(p) ==
    /\ Runs(p)
    /\ WaitedOut(p) \/ AcquireTimeout(p) \/ BootFails(p)

StartNext ==
    \/ \E p \in Procs :
        \/ Start(p) \/ StartStep(p) \/ (Runs(p) /\ Escalate(p)) \/ Setback(p)
        \/ Deliver(p) \/ Killed(p)
    \/ StopCommand

(***************************************************************************)
(* A process that is not waiting runs, signals arrive, and one who waits   *)
(* in vain escalates.                                                      *)
(***************************************************************************)
StartFairness == \A p \in Procs :
    WF_startVars(StartStep(p)) /\ WF_startVars(Deliver(p)) /\ WF_startVars(Runs(p) /\ Escalate(p))

StartSpec == StartInit /\ [][StartNext]_startVars
StartFairSpec == StartSpec /\ StartFairness

-----------------------------------------------------------------------------
(* Properties *)

\* The processes that serve the home directory.
Daemons == {p \in Procs : pc[p] \in Serving /\ Runs(p)}

\* "holds an atomic singleton lock until release"
\* (daemon-singleton.test.ts:84): two processes never serve the home directory
\* at once.  The lock does not see to it: a starter that finds it without an
\* owner removes it while its maker is between mkdirSync and writeFileSync, and
\* then both have it.  What the others do is swept away by ps, which the
\* detached child of a background start does not look at.
AtMostOneDaemon == \A p, q \in Daemons : p = q

\* What is true: whoever crashes, is slow to stop or is killed, two daemons
\* serve at once only when their starts overlap, and ps was unreadable or one of
\* the two is the detached child of a background start.
OneDaemonIfSwept ==
    \A p, q \in Daemons : p # q =>
        world.overlapping /\ (world.psFails \/ "child" \in {Mode(p), Mode(q)})

\* The daemon that runs can be found: when nobody is starting or stopping,
\* the pid file and the lock name it, so that stop, status and the next start
\* reach it.  Starts do not overlap here.
DaemonIsOnRecord ==
    ~world.overlapping /\ (\A p \in Procs : pc[p] \in Gone \cup {"poll", "up"} /\ sig[p] = "none")
        => \A p \in Procs : pc[p] = "up" => pidFile = p /\ lock = p

\* One daemon serves, and it can be found, over crashes between any two calls
\* to the file system, hung predecessors and late releases
\* (acquireDaemonSingletonLock, stopExistingDaemonForRestart, writeCurrentPid).
SingletonHolds == StartTypeOK /\ OneDaemonIfSwept /\ DaemonIsOnRecord

\* A start succeeds over stale files and over a daemon that hangs: whatever
\* state a crash left the lock and the pid file in, the next process, or the
\* child it spawns, comes up.  Starts do not overlap here, two of them may
\* signal each other, and SIGKILL ends its victim in time.
StartSucceeds ==
    \A p \in Procs : pc[p] \in Starting /\ ~world.overlapping /\ ~world.stuck ~>
        \/ pc[p] \in Serving \cup {"crashed"}
        \/ Mode(p) = "background" /\ pc[Child[p]] \in Serving \cup {"crashed"}
=============================================================================
