--------------------------- MODULE LocalDockerRun ---------------------------
(***************************************************************************)
(* One run of the command line: runLocalDockerAgent                        *)
(* (src/composition/local-docker-run.ts) inside scripts/agent.ts, with the *)
(* local environment it starts and destroys, and the SIGINT handler, which *)
(* runs the same cleanup.  "main" and "handler" are two callers of one     *)
(* environment; the process is a single thread, so SIGINT arrives at an    *)
(* await.  What the agent does between the start and the end of its run is *)
(* module AgentRuntime; here it acts in the sandbox or it does not.        *)
(***************************************************************************)
EXTENDS LocalLinuxEnvironment, Integers

CONSTANTS
  InterruptPoints,  \* where SIGINT may arrive, of MainPoint
  MaxActions        \* bound: the actions of the agent, RunLimits.maxToolCalls

\* Where main is suspended: "acting" in the sandbox, "running" elsewhere in
\* agent.run() (the model, the evaluator, the store).  "done" is the end of agent.ts without an exit,
\* which leaves the exit to the handler.
MainPoint == {"preflight", "starting", "running", "acting",
              "destroying", "done"}

ASSUME InterruptAssumption ==
  InterruptPoints \subseteq MainPoint \ {"done"} /\ MaxActions \in Nat

ASSUME CallersAssumption == Callers = {"main", "handler"}

VARIABLES
  main,           \* the await main is suspended at
  hasCleanup,     \* registerCleanup has been called
  hasEnvironment, \* the local environment of runLocalDockerAgent is set
  cleaned,        \* the flag of cleanup
  store,          \* the SQLite store: "unopened", "open", "closed"
  actions,        \* the actions the agent has taken
  stopRequested,  \* SIGINT has arrived
  exitCode,       \* the process is alive (Alive), or its exit code; Killed without one
  reliable        \* history: no docker run or docker rm has failed so far

Alive == -1
Killed == -2

control == << main, hasCleanup, hasEnvironment, cleaned, store,
              actions, stopRequested, exitCode >>
runVars == << vars, control, reliable >>

RunInit ==
  /\ Init
  /\ main = "preflight"
  /\ hasCleanup = FALSE
  /\ hasEnvironment = FALSE
  /\ cleaned = FALSE
  /\ store = "unopened"
  /\ actions = 0
  /\ stopRequested = FALSE
  /\ exitCode = Alive
  /\ reliable = TRUE

\* Mutant: the handler is not waited for.
MainReturns_Exits(code) ==
  /\ main' = "done"
  /\ exitCode' = code

\* runLocalDockerAgent returns or throws: agent.ts exits with the given code
\* unless the handler is going to.
MainReturns(code) ==
  /\ main' = "done"
  /\ exitCode' = IF stopRequested THEN exitCode ELSE code

(***************************************************************************)
(* cleanup, called in the finally block of main and by the handler.        *)
(***************************************************************************)

\* Mutant: the store is closed while the sandbox is being destroyed.
CleanupDestroys_ClosesFirst(c) ==
  /\ ~ cleaned
  /\ hasEnvironment
  /\ cleaned' = TRUE
  /\ Destroy(c)
  /\ store' = "closed"

\* cleanup starts: the environment is destroyed first.
CleanupDestroys(c) ==
  /\ ~ cleaned
  /\ hasEnvironment
  /\ cleaned' = TRUE
  /\ Destroy(c)
  /\ UNCHANGED store

\* cleanup ends at once: there is no environment, or cleanup ran before.
CleanupReturns ==
  /\ \/ cleaned
     \/ ~ hasEnvironment
  /\ cleaned' = TRUE
  /\ store' = IF cleaned THEN store ELSE "closed"
  /\ UNCHANGED vars

\* destroy() has settled, its error swallowed: index and store are closed.
CleanupFinishes(c) ==
  /\ \/ Destroyed(c)
     \/ calls[c].method = "destroy" /\ StopOrDestroyFails(c)
  /\ store' = "closed"
  /\ UNCHANGED cleaned

(***************************************************************************)
(* main                                                                    *)
(***************************************************************************)

\* Docker is not ready, or the store does not open: nothing to clean up.
PreflightFails ==
  /\ main = "preflight"
  /\ MainReturns(1)
  /\ UNCHANGED << vars, hasCleanup, hasEnvironment, cleaned, store,
                  actions, stopRequested >>

\* The store is open, cleanup is registered, and the container is started.
StartSandbox ==
  /\ main = "preflight"
  /\ main' = "starting"
  /\ hasCleanup' = TRUE
  /\ store' = "open"
  /\ StartContainer("main")
  /\ UNCHANGED << hasEnvironment, cleaned, actions, stopRequested, exitCode >>

\* The index does not open: cleanup runs in the finally block.
IndexFails ==
  /\ main = "preflight"
  /\ hasCleanup' = TRUE
  /\ cleaned' = TRUE
  /\ store' = "closed"
  /\ MainReturns(1)
  /\ UNCHANGED << vars, hasEnvironment, actions, stopRequested >>

ImageFound ==
  /\ main = "starting"
  /\ CreateContainer("main")
  /\ UNCHANGED control

\* Mutant: the environment is not assigned.
SandboxStarted_Unassigned ==
  /\ main = "starting"
  /\ ContainerStarted("main")
  /\ main' = "running"
  /\ UNCHANGED << hasCleanup, hasEnvironment, cleaned, store, actions,
                  stopRequested, exitCode >>

SandboxStarted ==
  /\ main = "starting"
  /\ ContainerStarted("main")
  /\ hasEnvironment' = TRUE
  /\ main' = "running"
  /\ UNCHANGED << hasCleanup, cleaned, store, actions, stopRequested, exitCode >>

\* start throws before the environment is assigned: cleanup has nothing to
\* destroy.
SandboxNotStarted ==
  /\ main = "starting"
  /\ StartFails("main")
  /\ cleaned' = TRUE
  /\ store' = "closed"
  /\ MainReturns(1)
  /\ UNCHANGED << hasCleanup, hasEnvironment, actions, stopRequested >>

\* Mutant: the limit is not looked at.
Act_Unlimited ==
  /\ main = "running"
  /\ actions' = actions + 1
  /\ IF phase = "running"
     THEN RunCommand("main") /\ main' = "acting"
     ELSE UNCHANGED << vars, main >>
  /\ UNCHANGED << hasCleanup, hasEnvironment, cleaned, store, stopRequested,
                  exitCode >>

\* A tool runs a command in the sandbox; once the sandbox is destroyed exec
\* throws, which the tool turns into a failed result.
Act ==
  /\ main = "running"
  /\ actions < MaxActions
  /\ actions' = actions + 1
  /\ IF phase = "running"
     THEN RunCommand("main") /\ main' = "acting"
     ELSE UNCHANGED << vars, main >>
  /\ UNCHANGED << hasCleanup, hasEnvironment, cleaned, store, stopRequested,
                  exitCode >>

Observe ==
  /\ main = "acting"
  /\ CommandReturns("main")
  /\ main' = "running"
  /\ UNCHANGED << hasCleanup, hasEnvironment, cleaned, store, actions,
                  stopRequested, exitCode >>

\* What main ends with: the goal completed, an error thrown (by agent.run(), or
\* before it by createAutonomousRun), the goal not completed.
MainCodes == {0, 1, 2}

\* agent.run() has returned or thrown: the finally block runs cleanup.
RunEnds ==
  /\ main = "running"
  /\ \/ /\ CleanupDestroys("main")
        /\ main' = "destroying"
        /\ UNCHANGED exitCode
     \/ /\ CleanupReturns
        /\ \E code \in MainCodes : MainReturns(code)
  /\ UNCHANGED << hasCleanup, hasEnvironment, actions, stopRequested >>

SandboxDestroyed ==
  /\ main = "destroying"
  /\ CleanupFinishes("main")
  /\ \E code \in MainCodes : MainReturns(code)
  /\ UNCHANGED << hasCleanup, hasEnvironment, actions, stopRequested >>

(***************************************************************************)
(* The SIGINT handler                                                      *)
(***************************************************************************)
Interrupt ==
  /\ ~ stopRequested
  /\ main \in InterruptPoints
  /\ stopRequested' = TRUE
  /\ \/ /\ hasCleanup
        /\ CleanupDestroys("handler")
        /\ UNCHANGED exitCode
     \/ /\ hasCleanup
        /\ CleanupReturns
        /\ exitCode' = 130
     \/ /\ ~ hasCleanup
        /\ exitCode' = 130
        /\ UNCHANGED << vars, cleaned, store >>
  /\ UNCHANGED << main, hasCleanup, hasEnvironment, actions >>

\* Mutant: the handler leaves the exit to a main that has returned.
HandlerExits_NotAfterMain ==
  /\ CleanupFinishes("handler")
  /\ exitCode' = IF main = "done" THEN exitCode ELSE 130
  /\ UNCHANGED << main, hasCleanup, hasEnvironment, actions, stopRequested >>

HandlerExits ==
  /\ CleanupFinishes("handler")
  /\ exitCode' = 130
  /\ UNCHANGED << main, hasCleanup, hasEnvironment, actions, stopRequested >>

\* The handler is there once: the next SIGINT ends the process where it is.
KilledBySignal ==
  /\ stopRequested
  /\ exitCode' = Killed
  /\ UNCHANGED << vars, main, hasCleanup, hasEnvironment, cleaned, store,
                  actions, stopRequested >>

(***************************************************************************)
(* A request that is under way when the process exits may still reach the  *)
(* engine, or not.                                                         *)
(***************************************************************************)
EngineWorks ==
  /\ \E c \in Callers :
       /\ EngineAnswers(c)
       /\ reliable' = (reliable /\ ~ (/\ calls[c].request \in {"create", "remove"}
                                      /\ calls'[c].answer = "failed"))
  /\ UNCHANGED control

EngineChanges ==
  /\ Moves
  /\ UNCHANGED << control, reliable >>

MainStep ==
  \/ PreflightFails \/ StartSandbox \/ IndexFails
  \/ ImageFound \/ SandboxStarted \/ SandboxNotStarted
  \/ Act \/ Observe \/ RunEnds \/ SandboxDestroyed

RunNext ==
  \/ /\ exitCode = Alive
     /\ MainStep \/ Interrupt \/ HandlerExits \/ KilledBySignal
     /\ UNCHANGED reliable
  \/ EngineWorks
  \/ EngineChanges

RunSpec == RunInit /\ [][RunNext]_runVars

\* Every await of the process is answered; SIGINT need not arrive, and after
\* the exit nothing is owed.
FairRunSpec ==
  /\ RunSpec
  /\ WF_<< vars, control >>(exitCode = Alive /\ (MainStep \/ HandlerExits))
  /\ WF_<< vars, control >>(exitCode = Alive /\ EngineWorks)

(***************************************************************************)
(* Properties                                                              *)
(***************************************************************************)

\* The variables have their types.
RunTypeOK ==
  /\ main \in MainPoint
  /\ {hasCleanup, hasEnvironment, cleaned, stopRequested} \subseteq BOOLEAN
  /\ store \in {"unopened", "open", "closed"}
  /\ exitCode \in {Alive, Killed, 0, 1, 2, 130}
  /\ actions \in 0 .. MaxActions
  /\ reliable \in BOOLEAN

\* "The sandbox is destroyed on success, failure, and a second cleanup call"
\* (local-docker-run.ts line 60): when the process has exited and the engine has
\* done what it was still asked to do, no container of the run is left, unless
\* the engine failed to create or to remove it, or SIGINT came while it was
\* being started, when cleanup does not know the environment yet.
NoSandboxLeft ==
  /\ exitCode # Alive
  /\ \A c \in Callers : calls[c].request = "none" \/ calls[c].answer # "none"
  /\ reliable
  /\ main # "starting"
  => container = "absent"

\* main and the handler clean up between them once: the sandbox is destroyed by
\* one of them only, while the store is still open, and the store is open for as
\* long as the agent runs in a sandbox nobody has begun to destroy (cleanup).
OneOrderlyCleanup ==
  LET destroying == {c \in Callers : calls[c].method = "destroy"}
  IN /\ destroying # {} => cleaned /\ store = "open"
     /\ destroying # Callers
     /\ main \in {"running", "acting"} /\ ~ cleaned =>
          phase = "running" /\ store = "open"

\* A process that was interrupted exits with 130 and with its cleanup behind it,
\* also when main returns or fails first (agent.ts lines 110 and 117), unless a
\* second signal kills it.
InterruptedExit ==
  stopRequested /\ exitCode \notin {Alive, Killed} =>
    /\ exitCode = 130
    /\ hasCleanup /\ main # "destroying" => store = "closed"

\* However main and the handler overlap, the process cleans up once, in order,
\* and exits with the code of what happened (cleanup, main).
OrderlyExit == RunTypeOK /\ OneOrderlyCleanup /\ InterruptedExit

\* The process exits, without a second signal too: main and the handler never
\* leave the exit to each other.
ProcessExits == <>(exitCode # Alive)
=============================================================================
