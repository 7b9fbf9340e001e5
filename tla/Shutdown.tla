------------------------------- MODULE Shutdown -------------------------------
(***************************************************************************)
(* Acquisition until asyn shuts the port down: shutdownPortDriver and,     *)
(* after it or in its place, the destructor (ADTimePix.cpp). ADTimePixConfig *)
(* asks for that with ASYN_DESTRUCTIBLE (72) when asyn knows the flag. asyn, *)
(* which is external, then refuses requests to the port, so that the thread *)
(* that runs them takes the place of the port thread. Both end the callback *)
(* thread and then, one channel after the other, the workers: the steps of *)
(* acquireStop's beginning and of the failure path of acquireStart. Neither *)
(* tells Serval to stop. (The one difference, that PrvHst's thread id is   *)
(* kept until its worker has ended, is seen only by a callback thread that *)
(* stops by itself.) The end of the connection poll thread, which keeps    *)
(* nothing that Acquisition has, is left out.                              *)
(* NOT in this module: exitCallbackC (91-94), registered without the flag  *)
(* (1926). It deletes the driver from epicsAtExit with no lock and no word *)
(* to asyn, beside a write that may be running or still come; the mutexes  *)
(* and flags that write uses are gone then, and nothing here holds of it.  *)
(***************************************************************************)
EXTENDS Acquisition

\* Mutant: the callback thread is not waited for.
ShutDownWorkersOnly ==
  /\ pc[Port] = "idle" /\ mode' = "exit"
  /\ acquiring' = FALSE /\ GotoAt(Port, "signal", 1)
  /\ UNCHANGED <<acquire, callbackThreadId, workerId, running, connected, target, isIdle,
                 workerVars, measuring>>

\* Between two writes (that is asyn's doing), also during an acquisition.
ShutDown ==
  /\ pc[Port] = "idle" /\ mode' = "exit" /\ Goto(Port, "stopBegin")
  /\ UNCHANGED <<acquire, acquiring, callbackThreadId, workerId, running, connected, cur, target,
                 isIdle, workerVars, measuring>>

\* The other threads go on meanwhile.
ShutdownSpec ==
  /\ Init /\ [][Next \/ ShutDown]_vars
  /\ IocFairness /\ ServalFairness

-----------------------------------------------------------------------------
\* "Stop callback thread first so it cannot touch driver state during teardown"
\* (ADTimePix.cpp:2023): if no measurement ends by itself and asyn shuts the port
\* down between two writes, the driver may be deleted afterwards, whatever the
\* callback thread and the workers were doing: every thread that uses it has been
\* joined and no stream is open. (If a measurement ends, acquireStop on the callback
\* thread has cleared callbackThreadId, and the shutdown does not wait for that
\* thread. A driver that exitCallbackC deletes has no such promise.)
DownIsQuiet == (mode = "exit" /\ pc[Port] = "idle") => Quiet
=============================================================================
