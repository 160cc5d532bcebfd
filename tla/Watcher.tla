------------------------------- MODULE Watcher --------------------------------
(***************************************************************************)
(* The two processes of the server (main.go): the watcher, which starts    *)
(* the worker, restarts it when it dies and stops it on a signal, and the  *)
(* life of the worker as the watcher and the clients see it.               *)
(*                                                                         *)
(* Time is left out: a sleep and a timeout end at some time.  So is the    *)
(* count of fast crashes, which only chooses how long to sleep.            *)
(***************************************************************************)

VARIABLES
  wpc,      \* where watcherLoop is, see WatcherStates
  worker,   \* the worker process, see WorkerStates
  sigCh,    \* a signal is buffered for the watcher
  asked     \* the operator has sent the watcher a signal

processVars == <<wpc, worker, sigCh, asked>>

\* "start": at cmd.Start; "select": waits for a signal or the worker's end;
\* "term": has sent SIGTERM; "kill": has sent SIGKILL; "sleep": before the
\* next start.
WatcherStates == {"start", "select", "term", "kill", "sleep", "returned"}

\* "boot": no signal handler yet; "drain": Shutdown was called; "exited":
\* ended and not yet waited for.
WorkerStates == {"none", "boot", "serve", "drain", "exited"}

Alive   == worker \in {"boot", "serve", "drain"}
Running == worker \in {"serve", "drain"}

ProcessTypeOK ==
  /\ wpc \in WatcherStates
  /\ worker \in WorkerStates
  /\ sigCh \in BOOLEAN
  /\ asked \in BOOLEAN

ProcessInit ==
  /\ wpc = "start"
  /\ worker = "none"
  /\ sigCh = FALSE
  /\ asked = FALSE

-----------------------------------------------------------------------------
(* The watcher *)

\* SIGTERM or SIGINT to the watcher; the channel holds one.
signalWatcher ==
  /\ wpc # "returned"
  /\ sigCh' = TRUE
  /\ asked' = TRUE
  /\ UNCHANGED <<wpc, worker>>

startWorker ==
  /\ wpc = "start"
  /\ wpc' = "select"
  /\ worker' = "boot"
  /\ UNCHANGED <<sigCh, asked>>

\* cmd.Start fails: try again after a sleep.
startFails ==
  /\ wpc = "start"
  /\ wpc' = "sleep"
  /\ UNCHANGED <<worker, sigCh, asked>>

wake ==
  /\ wpc = "sleep"
  /\ wpc' = "start"
  /\ UNCHANGED <<worker, sigCh, asked>>

\* What SIGTERM does to the worker: without a handler it dies.
Terminated == CASE worker = "boot"  -> "exited"
                [] worker = "serve" -> "drain"
                [] OTHER            -> worker

takeSignal ==
  /\ wpc = "select"
  /\ sigCh
  /\ sigCh' = FALSE
  /\ worker' = Terminated
  /\ wpc' = "term"
  /\ UNCHANGED asked

\* Mutant: a watcher whose worker died returns.
workerEndedReturns ==
  /\ wpc = "select"
  /\ worker = "exited"
  /\ worker' = "none"
  /\ wpc' = "returned"
  /\ UNCHANGED <<sigCh, asked>>

\* done: the worker died by itself.  stopping is never set here: the branch
\* that sets it returns.  With a signal waiting, select takes either.
workerEnded ==
  /\ wpc = "select"
  /\ worker = "exited"
  /\ worker' = "none"
  /\ wpc' = "sleep"
  /\ UNCHANGED <<sigCh, asked>>

workerStopped ==
  /\ wpc = "term"
  /\ worker = "exited"
  /\ worker' = "none"
  /\ wpc' = "returned"
  /\ UNCHANGED <<sigCh, asked>>

\* Mutant: the watcher waits for the worker as long as it takes.
killNever ==
  /\ FALSE
  /\ UNCHANGED processVars

\* Mutant: a worker that does not stop in time is left to be restarted.
killLater ==
  /\ wpc = "term"
  /\ wpc' = "sleep"
  /\ UNCHANGED <<worker, sigCh, asked>>

\* 15 seconds are over; the worker may have just exited.
killWorker ==
  /\ wpc = "term"
  /\ wpc' = "kill"
  /\ UNCHANGED <<worker, sigCh, asked>>

workerKilled ==
  /\ wpc = "kill"
  /\ worker = "exited"
  /\ worker' = "none"
  /\ wpc' = "returned"
  /\ UNCHANGED <<sigCh, asked>>

-----------------------------------------------------------------------------
(* The worker *)

\* runServer gets as far as its signal handler and its listener.
runServer ==
  /\ worker = "boot"
  /\ worker' = "serve"
  /\ UNCHANGED <<wpc, sigCh, asked>>

\* A signal sent to the worker alone.
signalWorker ==
  /\ Alive
  /\ worker' = Terminated
  /\ UNCHANGED <<wpc, sigCh, asked>>

\* The worker ends: a crash, log.Fatalf, SIGKILL, or after Shutdown began:
\* ListenAndServeTLS returns then, and main with it, whatever requests are
\* still being served.
workerExits ==
  /\ Alive
  /\ worker' = "exited"
  /\ UNCHANGED <<wpc, sigCh, asked>>

-----------------------------------------------------------------------------
watcherLoop ==
  \/ startWorker \/ startFails \/ wake
  \/ takeSignal \/ workerEnded
  \/ workerStopped \/ killWorker \/ workerKilled

ProcessNext == signalWatcher \/ watcherLoop \/ runServer \/ signalWorker \/ workerExits

\* The watcher keeps running, select does not pass over a waiting signal for
\* ever (it chooses at random), cmd.Start does not fail for ever, and a
\* process that is killed dies.  A worker may hang, or crash at each start.
ProcessFairness ==
  /\ WF_processVars(watcherLoop)
  /\ SF_processVars(takeSignal)
  /\ SF_processVars(startWorker)
  /\ WF_processVars(killWorker)
  /\ WF_processVars(wpc = "kill" /\ workerExits)

-----------------------------------------------------------------------------
\* A signal stops the server: the watcher returns however the worker behaves,
\* also when the signal comes while the worker is dead or cannot be started,
\* or is passed over by select (watcherLoop).
SignalStops == sigCh ~> wpc = "returned"

\* A worker that died is replaced, unless someone asked the watcher to stop.
WorkerComesBack == (worker = "none") ~> (worker # "none" \/ asked)

\* Two workers never run at a time, on one database and one port: the watcher
\* starts one only when the one before was waited for; and it leaves none
\* behind when it returns (watcherLoop).
OneWorker ==
  [][(startWorker => worker = "none") /\ (wpc' = "returned" => ~(Alive)')]_processVars
=============================================================================
