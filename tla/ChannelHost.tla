---------------------------- MODULE ChannelHost ----------------------------
(***************************************************************************)
(* What the messaging channels share with the process that hosts them      *)
(* (web/server.py, serve_forever): the chat lock, the stop event, the      *)
(* order of a shutdown, and a restart after it or after a crash.           *)
(***************************************************************************)
EXTENDS Integers, Sequences, FiniteSets

CONSTANT None

VARIABLES
  chatLock,     \* the thread that holds it, or None
  phase         \* run, stopping (stop.set), drained (the hooks ran)
host == <<chatLock, phase>>

HostInit == chatLock = None /\ phase = "run"

LockFree == chatLock = None

Acquires(t) == LockFree /\ chatLock' = t /\ UNCHANGED phase
Releases == chatLock' = None /\ UNCHANGED phase

\* A signal ends httpd.serve_forever: no connection is taken any more.
SetStop ==
  /\ phase = "run" /\ phase' = "stopping"
  /\ UNCHANGED chatLock

RunHooks ==
  /\ phase = "stopping" /\ phase' = "drained"
  /\ UNCHANGED chatLock

\* The process ends, daemon threads and all, and is started again.
Restarted == phase' = "run" /\ chatLock' = None

=============================================================================
