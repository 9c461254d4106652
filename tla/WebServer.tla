----------------------------- MODULE WebServer -----------------------------
(***************************************************************************)
(* The web server (web/server.py): bounded handler threads, the chat lock  *)
(* shared by chats, the scheduler and the channel threads, the approval    *)
(* answers that arrive beside it, and the replacement of the running App   *)
(* when the configuration file changes (POST /api/config, _watch_config).  *)
(*                                                                         *)
(* An App is its place in apps, which holds the configuration version it   *)
(* was built from; a version of the file stands for its text and mtime.    *)
(***************************************************************************)
EXTENDS Integers, Sequences, FiniteSets

CONSTANTS
  Request,      \* connections of clients
  What,         \* what a request is: chat, config, approve, or use (the others)
  Background,   \* scheduler, channel and briefing threads
  Watcher,      \* the thread of _watch_config
  None,
  Slots,        \* handler threads at a time
  Outcomes,     \* what can become of a new configuration: ok, bad, channels
  MaxEdits      \* bound: edits of the file on disk

Thread == Request \cup Background \cup {Watcher}

ASSUME ServerAssumption ==
  /\ IsFiniteSet(Request) /\ Slots \in Nat \ {0} /\ MaxEdits \in Nat
  /\ What \subseteq {"chat", "config", "approve", "use"}
  /\ Outcomes \subseteq {"ok", "bad", "channels"}
  /\ Request \cap Background = {} /\ Watcher \notin Request \cup Background
  /\ None \notin Thread

VARIABLES
  pc, what,
  seen,        \* the App a thread holds: captured, current in a turn, old in a swap
  free,        \* worker slots
  lock,        \* chat_lock: its holder, or None
  answered,    \* the pending question has its answer
  apps,        \* what each App is: the version it was built from, Closed, or Half
  current, wired,
  text,        \* the file: its version, and what becomes of that as a configuration
  known,       \* _cfg_mtime
  stat,        \* mtime the watcher read
  edits,
  missed       \* history: a handler took the file for applied and nobody had built it

requests == <<what, free>>
instances == <<apps, current, wired>>
config == <<text, known, stat, edits, missed>>
vars == <<pc, seen, requests, lock, answered, instances, config>>

file == text.version
Closed == 0
Half == -1     \* its constructor raised after it had opened the stores
closed == {n \in DOMAIN apps : apps[n] = Closed}
halfBuilt == {n \in DOMAIN apps : apps[n] = Half}
Written(outcome) == text' = [version |-> file + 1, makes |-> outcome] /\ missed' = FALSE
Goes(t, to) == pc' = [pc EXCEPT ![t] = to]
Holds(t, n) == seen' = [seen EXCEPT ![t] = n]

Init ==
  /\ pc = [t \in Thread |-> IF t \in Request THEN "new" ELSE "idle"]
  /\ what = [r \in Request |-> "none"]
  /\ seen = [t \in Thread |-> 0]
  /\ free = Slots /\ lock = None /\ answered = FALSE
  /\ apps = <<1>> /\ current = 1 /\ wired = {1}
  /\ text = [version |-> 1, makes |-> "ok"] /\ known = 1 /\ stat = 0 /\ edits = 0 /\ missed = FALSE

-----------------------------------------------------------------------------
(* Connections and their handler threads.                                  *)

Connect(r, w) ==
  /\ pc[r] = "new" /\ Goes(r, "queued")
  /\ what' = [what EXCEPT ![r] = w]
  /\ UNCHANGED <<seen, free, lock, answered, instances, config>>

SlotFree == free > 0

\* process_request: the accept loop waits for a slot, then starts a thread.
Accept(r) ==
  /\ pc[r] = "queued" /\ SlotFree
  /\ Goes(r, "accepted") /\ free' = free - 1
  /\ UNCHANGED <<seen, what, lock, answered, instances, config>>

\* The thread cannot be started: the slot is given back.
AcceptFails(r) ==
  /\ pc[r] = "queued" /\ SlotFree
  /\ Goes(r, "done") /\ what' = [what EXCEPT ![r] = "none"]
  /\ UNCHANGED <<seen, free, lock, answered, instances, config>>

\* do_GET, do_POST: the App is read once, before the body.
Capture(r) ==
  /\ pc[r] = "accepted" /\ Goes(r, "body")
  /\ Holds(r, current)
  /\ UNCHANGED <<requests, lock, answered, instances, config>>

\* Missing, too long or not JSON, or the client is too slow.
BodyFails(r) ==
  /\ pc[r] = "body" /\ Goes(r, "reply")
  /\ UNCHANGED <<seen, requests, lock, answered, instances, config>>

Dispatch(r) ==
  /\ pc[r] = "body"
  /\ Goes(r, CASE what[r] = "chat" -> "lock" [] what[r] = "config" -> "write"
               [] what[r] = "approve" -> "resolve" [] what[r] = "use" -> "use")
  /\ UNCHANGED <<seen, requests, lock, answered, instances, config>>

\* Jobs, tasks, cancel, traces: the captured App without the lock.
UseApp(r) ==
  /\ pc[r] = "use" /\ Goes(r, "reply")
  /\ UNCHANGED <<seen, requests, lock, answered, instances, config>>

\* /api/approve: center.resolve, without the lock.
Resolve(r) ==
  /\ pc[r] = "resolve" /\ Goes(r, "reply")
  /\ answered' = (answered \/ \E t \in Thread : pc[t] = "ask")
  /\ UNCHANGED <<seen, requests, lock, instances, config>>

Reply(r) ==
  /\ pc[r] = "reply" /\ Goes(r, "done")
  /\ free' = free + 1 /\ Holds(r, 0) /\ what' = [what EXCEPT ![r] = "none"]
  /\ UNCHANGED <<lock, answered, instances, config>>

-----------------------------------------------------------------------------
(* Turns: a chat in the captured App, the other threads in the current one.*)

Wake(b) ==
  /\ b \in Background /\ pc[b] = "idle" /\ Goes(b, "lock")
  /\ UNCHANGED <<seen, requests, lock, answered, instances, config>>

LockIgnored == TRUE                                            \* faulty variant
LockFree == lock = None

\* The other threads read httpd._app after they took the lock.
TurnApp(t) == IF t \in Background THEN current ELSE seen[t]

Chats(t) == t \in Background \/ (t \in Request /\ what[t] = "chat")

BeginTurn(t) ==
  /\ pc[t] = "lock" /\ Chats(t) /\ LockFree
  /\ lock' = t /\ Goes(t, "turn")
  /\ Holds(t, TurnApp(t))
  /\ UNCHANGED <<requests, answered, instances, config>>

\* The turn asks the operator: the approver waits with the lock held.
Ask(t) ==
  /\ pc[t] = "turn" /\ Goes(t, "ask")
  /\ UNCHANGED <<seen, requests, lock, answered, instances, config>>

\* ApprovalCenter.request: answered, or the time is up.
NeverTimesOut == FALSE                                         \* faulty variant
TimesOut == TRUE
AskEnds(t) ==
  /\ pc[t] = "ask" /\ (answered \/ TimesOut) /\ Goes(t, "told")
  /\ answered' = FALSE
  /\ UNCHANGED <<seen, requests, lock, instances, config>>

TurnEnds(t) ==
  /\ pc[t] \in {"turn", "told"}
  /\ lock' = None /\ Goes(t, IF t \in Request THEN "reply" ELSE "idle") /\ Holds(t, 0)
  /\ UNCHANGED <<requests, answered, instances, config>>

-----------------------------------------------------------------------------
(* The configuration and the swap.                                         *)

Edit(outcome) ==
  /\ edits < MaxEdits /\ edits' = edits + 1
  /\ Written(outcome)
  /\ UNCHANGED <<pc, seen, requests, lock, answered, instances, known, stat>>

\* write_config_text, without the lock: the file is truncated and written in
\* pieces, so that others may find half of the text, whatever that makes.
WriteHalf(r, half) ==
  /\ pc[r] = "write" /\ Goes(r, "writing")
  /\ Written(half)
  /\ UNCHANGED <<seen, requests, lock, answered, instances, known, stat, edits>>

WriteConfig(r, outcome) ==
  /\ pc[r] = "writing" /\ Goes(r, "lock")
  /\ Written(outcome)
  /\ UNCHANGED <<seen, requests, lock, answered, instances, known, stat, edits>>

\* The text is not valid, the file cannot be written, or not all of it.
WriteFails(r) ==
  /\ pc[r] \in {"write", "writing"} /\ Goes(r, "reply")
  /\ UNCHANGED <<seen, requests, lock, answered, instances, config>>

\* _watch_config: getmtime differs from _cfg_mtime, which then takes it.
Stat ==
  /\ pc[Watcher] = "idle" /\ file # known
  /\ stat' = file /\ Goes(Watcher, "noted")
  /\ UNCHANGED <<seen, requests, lock, answered, instances, text, known, edits, missed>>

NoteMtime ==
  /\ pc[Watcher] = "noted" /\ Goes(Watcher, "lock")
  /\ known' = stat /\ stat' = 0
  /\ UNCHANGED <<seen, requests, lock, answered, instances, text, edits, missed>>

\* _hot_swap.
BeginSwap(t) ==
  /\ pc[t] = "lock" /\ ~Chats(t) /\ LockFree
  /\ lock' = t /\ Goes(t, "build")
  /\ UNCHANGED <<seen, requests, answered, instances, config>>

\* rebuild() raises before it opens anything, or with five stores open that
\* nobody has a reference to; or the channels changed, and the App is closed
\* before anybody else has seen it and leaves no place.
HalfBuilt == Append(apps, Half)
StaysOpen == Append(apps, file)                                \* faulty variant
Discarded == apps
Refuse(t) ==
  /\ pc[t] = "build"
  /\ \/ text.makes = "bad" /\ UNCHANGED apps
     \/ text.makes = "bad" /\ apps' = HalfBuilt
     \/ text.makes = "channels" /\ apps' = Discarded
  /\ lock' = None /\ Goes(t, IF t \in Request THEN "reply" ELSE "idle")
  /\ UNCHANGED <<seen, requests, answered, current, wired, config>>

Build(t) ==
  /\ pc[t] = "build" /\ text.makes = "ok"
  /\ apps' = Append(apps, file)
  /\ Holds(t, current)
  /\ Goes(t, "publish")
  /\ UNCHANGED <<requests, lock, answered, current, wired, config>>

Publish(t) ==
  /\ pc[t] = "publish" /\ Goes(t, "wire")
  /\ current' = Len(apps)
  /\ UNCHANGED <<seen, requests, lock, answered, apps, wired, config>>

\* set_approver and set_notifier.
NotWired(t) ==                                                 \* faulty variant
  /\ pc[t] = "wire" /\ Goes(t, "close")
  /\ UNCHANGED <<seen, requests, lock, answered, instances, config>>
Wire(t) ==
  /\ pc[t] = "wire" /\ Goes(t, "close")
  /\ wired' = wired \cup {current}
  /\ UNCHANGED <<seen, requests, lock, answered, apps, current, config>>

\* Only the handler notes the mtime again after its swap.
NotesAgain(t) == "mtime"                                       \* faulty variant
AfterSwap(t) == IF t \in Request THEN "mtime" ELSE "idle"
CloseOld(t) ==
  /\ pc[t] = "close" /\ Goes(t, AfterSwap(t))
  /\ apps' = [apps EXCEPT ![seen[t]] = Closed] /\ lock' = None /\ Holds(t, 0)
  /\ UNCHANGED <<requests, answered, current, wired, config>>

SetMtime(t) ==
  /\ pc[t] = "mtime" /\ Goes(t, IF t \in Request THEN "reply" ELSE "idle")
  /\ known' = file
  /\ missed' = (missed \/ (t \in Request /\ apps[current] # file))
  /\ UNCHANGED <<seen, requests, lock, answered, instances, text, stat, edits>>

-----------------------------------------------------------------------------
Handler(r) ==
  \/ Capture(r) \/ BodyFails(r) \/ Dispatch(r) \/ UseApp(r) \/ Resolve(r) \/ Reply(r)
  \/ \E outcome \in Outcomes : WriteHalf(r, outcome) \/ WriteConfig(r, outcome)
  \/ WriteFails(r)

Holder(t) ==
  \/ Ask(t) \/ AskEnds(t) \/ TurnEnds(t)
  \/ Refuse(t) \/ Build(t) \/ Publish(t) \/ Wire(t) \/ CloseOld(t)

Next ==
  \/ \E r \in Request : (\E w \in What : Connect(r, w)) \/ Accept(r) \/ AcceptFails(r) \/ Handler(r)
  \/ \E b \in Background : Wake(b)
  \/ \E t \in Thread : BeginTurn(t) \/ BeginSwap(t) \/ Holder(t) \/ SetMtime(t)
  \/ \E outcome \in Outcomes : Edit(outcome)
  \/ Stat \/ NoteMtime

Spec == Init /\ [][Next]_vars

\* Running threads run, and who waits for the lock or for a slot gets it when
\* it is free again and again.  A request passes each of its stages once and
\* only the holder of the lock has a step of Holder, so that fairness to one of
\* them is fairness to each.
FairSpec ==
  /\ Spec
  /\ WF_vars(\E r \in Request : Handler(r) \/ SetMtime(r))
  /\ WF_vars(\E t \in Thread : Holder(t))
  /\ SF_vars(\E r \in Request : Accept(r) \/ AcceptFails(r))
  /\ SF_vars(\E r \in Request : BeginTurn(r) \/ BeginSwap(r))

-----------------------------------------------------------------------------
Stage == {"new", "queued", "accepted", "body", "use", "resolve", "write", "writing", "lock",
          "reply", "done", "idle", "noted", "turn", "ask", "told", "build", "publish",
          "wire", "close", "mtime"}

(* Every variable keeps its shape; an App is named by its place in apps.   *)
TypeOK ==
  /\ pc \in [Thread -> Stage] /\ what \in [Request -> What \cup {"none"}]
  /\ seen \in [Thread -> Nat] /\ free \in Int /\ lock \in Thread \cup {None}
  /\ answered \in BOOLEAN
  /\ apps \in Seq(Int) /\ current \in DOMAIN apps /\ wired \subseteq Nat
  /\ text \in [version : Nat \ {0}, makes : Outcomes \cup {"ok"}]
  /\ {known, stat, edits} \subseteq Nat /\ missed \in BOOLEAN

InTurn(t) == pc[t] \in {"turn", "ask", "told"}
InSwap(t) == pc[t] \in {"build", "publish", "wire", "close"}

(* "serialize turn": at most one turn or swap at a time, by the holder of  *)
(* chat_lock, whichever mixture of handlers, scheduler, channels and       *)
(* watcher is waiting.                                                     *)
Serialized == \A t \in Thread : InTurn(t) \/ InSwap(t) => lock = t

(* _run_scheduler and the channels read httpd._app inside the lock: they   *)
(* never run a turn in an App that a swap has closed.                      *)
BackgroundUsesOpen == \A b \in Background : InTurn(b) => seen[b] \notin closed

(* A turn finds its approver set, though a swap publishes the new App      *)
(* before set_approver.                                                    *)
TurnsAreWired == \A t \in Thread : InTurn(t) => seen[t] \in wired

(* Both: what a turn runs in was finished, and for background threads it   *)
(* is not yet taken down.                                                  *)
TurnsUseReadyApp == BackgroundUsesOpen /\ TurnsAreWired

(* Every open App is the running one, is in the hands of the thread that   *)
(* swaps, or is one whose constructor raised (App.__init__ opens five      *)
(* stores before it looks for docker and at the VPN profiles, and who      *)
(* called it has nothing to close): those are all that a refused           *)
(* configuration or a chain of swaps leaves open, and none of them is ever *)
(* the running App, which is open and was built to its end.                *)
OnlyHalfBuiltLeak ==
  /\ current \notin closed \cup halfBuilt
  /\ \A n \in DOMAIN apps : n \in closed \/ n = current \/ n \in halfBuilt
       \/ \E t \in Thread : \/ pc[t] = "publish" /\ n = Len(apps)
                            \/ pc[t] \in {"wire", "close"} /\ n = seen[t]

(* Every accepted connection is answered and gives its slot back, also     *)
(* when all slots are taken by chats behind a turn that waits for an       *)
(* answer: the answer may not get a slot, but the wait ends.               *)
EveryRequestServed == \A r \in Request : pc[r] = "queued" ~> pc[r] = "done"

(* The watcher has nothing to do and no save is between its write and its  *)
(* answer: the running App is the one built from the file, not from a half *)
(* of it that somebody found meanwhile, unless the file cannot be built or *)
(* changes the channels, or it was saved between the swap of a POST        *)
(* /api/config and the line that notes the mtime once more.                *)
ConfigApplied ==
  /\ pc[Watcher] = "idle" /\ known = file
  /\ \A r \in Request :
       what[r] = "config" => pc[r] \in {"new", "queued", "accepted", "body", "reply", "done"}
  => (text.makes = "ok" => apps[current] = file \/ missed)

=============================================================================
