--------------------------- MODULE SotoportegoCLI ---------------------------
(***************************************************************************)
(* sotoportego_cli: one command, run to its exit code.                     *)
(*                                                                         *)
(* _Finish sets the code and posts B_QUIT_REQUESTED to the program's own   *)
(* queue, so what was queued before it is still handled, and may set the   *)
(* code again.                                                             *)
(***************************************************************************)
EXTENDS DaemonClient

Commands == {"list", "status", "peers", "connect", "disconnect", "watch", "exit-node"}

VARIABLES
    fCmd,           \* the command
    fArg,           \* the profile connect names
    running,        \* the application has not quit
    started,        \* ReadyToRun has run
    fExitCode,
    fDeadline,      \* the deadline's runner has yet to fire
    fWatchTimer     \* the watch window's runner has yet to fire

cliVars == <<daemonVars, fCmd, fArg, running, started, fExitCode, fDeadline, fWatchTimer>>

CLIInit ==
    /\ DaemonInit
    /\ fCmd \in Commands
    /\ fArg \in ProfileNames
    /\ running = TRUE
    /\ started = FALSE
    /\ fExitCode = 0
    /\ fDeadline = FALSE
    /\ fWatchTimer = FALSE

-----------------------------------------------------------------------------
Quit == [what |-> "quit"]

SetsOnlyTheCode(queue, code) ==
    /\ fExitCode' = code
    /\ toClient' = queue

\* _Finish, from a handler that left queue behind.
Finish(queue, code) ==
    /\ fExitCode' = code
    /\ toClient' = Append(queue, Quit)

Ask(whats) == toDaemon' = toDaemon \o whats

\* What ReadyToRun sends for each command.
Opening ==
    LET subscribe == [what |-> "subscribe"]
        getStatus == [what |-> "getStatus"]
    IN CASE fCmd \in {"list", "connect"}                -> <<subscribe>>
         [] fCmd \in {"status", "peers", "exit-node"}   -> <<getStatus>>
         [] fCmd = "disconnect" -> <<subscribe, [what |-> "disconnect"]>>
         [] fCmd = "watch"      -> <<subscribe, getStatus>>

\* ReadyToRun: an unreachable daemon is exit code 1; otherwise the deadline is
\* armed before anything is asked.
ReadyToRun ==
    /\ running /\ ~started
    /\ started' = TRUE
    /\ \E reachable \in BOOLEAN :
         IF reachable
         THEN /\ fDeadline' = TRUE
              /\ fWatchTimer' = (fCmd = "watch")
              /\ Ask(Opening)
              /\ UNCHANGED <<fExitCode, toClient>>
         ELSE /\ Finish(toClient, 1)
              /\ UNCHANGED <<fDeadline, fWatchTimer, toDaemon>>
    /\ UNCHANGED <<session, reports, saved, subscribed, fCmd, fArg, running>>

\* _ConnectByName, on every profile list that comes.
ConnectByName(queue, names) ==
    IF \E i \in DOMAIN names : names[i] = fArg
    THEN /\ Ask(<<[what |-> "subscribe"],
                  [what |-> "connect", name |-> fArg]>>)
         /\ toClient' = queue
         /\ UNCHANGED fExitCode
    ELSE Finish(queue, 1) /\ UNCHANGED toDaemon

\* _ResolveAndSetExitNode: the peer is unknown, no exit node, or the request
\* goes out.
ResolveAndSetExitNode(queue) ==
    \/ Finish(queue, 1) /\ UNCHANGED toDaemon
    \/ Finish(queue, 0) /\ Ask(<<[what |-> "setExitNode"]>>)

\* A status, by the command that waits for it.
TakesStatus(queue, state) ==
    CASE fCmd \in {"status", "peers"} -> Finish(queue, 0) /\ UNCHANGED toDaemon
      [] fCmd = "exit-node"           -> ResolveAndSetExitNode(queue)
      [] fCmd = "connect" /\ state = "CONNECTED" -> Finish(queue, 0) /\ UNCHANGED toDaemon
      [] fCmd = "connect" /\ state = "ERROR"     -> Finish(queue, 1) /\ UNCHANGED toDaemon
      [] fCmd = "disconnect" /\ state = "DISCONNECTED" ->
           Finish(queue, 0) /\ UNCHANGED toDaemon
      [] OTHER -> toClient' = queue /\ UNCHANGED <<fExitCode, toDaemon>>

\* MessageReceived.  The timers' messages carry their own meaning.
CLIHandles ==
    /\ running /\ started /\ toClient # <<>>
    /\ LET m == Head(toClient)
           queue == Tail(toClient)
       IN CASE m.what = "profiles" ->
                 IF fCmd = "connect" THEN ConnectByName(queue, m.names)
                 ELSE Finish(queue, 0) /\ UNCHANGED toDaemon
            [] m.what = "status"    -> TakesStatus(queue, m.state)
            [] m.what = "watchDone" -> Finish(queue, 0) /\ UNCHANGED toDaemon
            [] m.what = "deadline"  -> Finish(queue, 1) /\ UNCHANGED toDaemon
            [] m.what = "quit"      -> toClient' = queue /\ UNCHANGED <<fExitCode, toDaemon>>
    /\ running' = (Head(toClient).what # "quit")
    /\ UNCHANGED <<session, reports, saved, subscribed, fCmd, fArg, started, fDeadline,
                   fWatchTimer>>

DeadlineFires ==
    /\ running /\ fDeadline
    /\ fDeadline' = FALSE
    /\ Answer([what |-> "deadline"])
    /\ UNCHANGED <<session, reports, saved, subscribed, toDaemon, fCmd, fArg, running,
                   started, fExitCode, fWatchTimer>>

WatchEnds ==
    /\ running /\ fWatchTimer
    /\ fWatchTimer' = FALSE
    /\ Answer([what |-> "watchDone"])
    /\ UNCHANGED <<session, reports, saved, subscribed, toDaemon, fCmd, fArg, running,
                   started, fExitCode, fDeadline>>

\* Another client changed the store: every subscriber is told.  To bound the
\* requests in flight it does so only while this client's are handled.
StoreChanges ==
    /\ subscribed /\ toDaemon = <<>> /\ Len(toClient) < QueueCap
    /\ \E n \in ProfileNames, ok \in SaveOutcomes : StoreBecomes(<<n>>, ok)
    /\ UNCHANGED toDaemon

CLINext ==
    \/ ReadyToRun \/ CLIHandles \/ DeadlineFires \/ WatchEnds
    \/ /\ running
       /\ DaemonNext \/ StoreChanges
       /\ UNCHANGED <<fCmd, fArg, running, started, fExitCode, fDeadline, fWatchTimer>>

\* The looper takes its messages in turn, and a runner fires.
CLIFairness ==
    /\ WF_cliVars(ReadyToRun) /\ WF_cliVars(CLIHandles)
    /\ WF_cliVars(DeadlineFires) /\ WF_cliVars(WatchEnds)

-----------------------------------------------------------------------------
\* Every command ends, whatever the daemon answers or does not: a session that
\* never comes up, a disconnect with nothing to report, a flood of broadcasts
\* (the deadline armed in ReadyToRun, "so the tool can never hang").
CLIEnds == running ~> ~running
=============================================================================
