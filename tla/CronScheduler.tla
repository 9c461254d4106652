--------------------------- MODULE CronScheduler ---------------------------
(***************************************************************************)
(* The cron jobs (sched/cron.py) and the thread that runs them             *)
(* (_run_scheduler in web/server.py).  The jobs are rows of a database     *)
(* file; the thread reads the due ones and then marks, runs and finishes   *)
(* each, while web handlers add, trigger and delete rows at any time.  The *)
(* process may die and restart at any step; the rows survive.              *)
(*                                                                         *)
(* INSERT OR REPLACE gives a job a new definition: its generation tells    *)
(* the definitions of one id apart.                                        *)
(***************************************************************************)
EXTENDS Integers, Sequences, FiniteSets

CONSTANTS
  Job,           \* ids of jobs
  Kinds,         \* kinds of schedule in use: "at", "every" (cron: like every)
  Never,         \* next_run NULL
  Period,        \* interval of an every job
  MaxTime,       \* bound: clock
  MaxGen,        \* bound: definitions of one id
  MaxTriggers,   \* bound: triggers of one id
  MaxFaults      \* bound: crashes and store errors

ASSUME CronAssumption ==
  /\ Kinds \subseteq {"at", "every"}
  /\ Never \notin Nat
  /\ IsFiniteSet(Job)
  /\ Period \in Nat \ {0}
  /\ MaxTime \in Nat /\ MaxGen \in Nat /\ MaxTriggers \in Nat /\ MaxFaults \in Nat

VARIABLES
  rows,          \* table cron_jobs: the row of an id, or NoRow
  now,
  pc,            \* where the scheduler thread is
  due,           \* the rest of the list that the tick read; its head is in work
  faults,
  gens,          \* history: definitions each id has had
  starts,        \* history: runs of the last definition of each id
  triggers,      \* history: accepted triggers of that definition
  stranded       \* history: ids whose run a crash or a store error cut off

thread == <<pc, due>>
past == <<gens, starts, triggers, stranded>>
vars == <<rows, now, thread, faults, past>>

Gen == 1..MaxGen
NoRow == [gen |-> 0, kind |-> "at", next |-> Never, running |-> FALSE]
Row == [gen : 0..MaxGen, kind : {"at", "every"}, next : Nat \cup {Never}, running : BOOLEAN]
Entry == [id : Job, gen : Gen, kind : {"at", "every"}]

Exists(j) == rows[j] # NoRow
IsDue(j) == Exists(j) /\ rows[j].next # Never /\ rows[j].next <= now /\ ~rows[j].running

\* compute_next: an at job has no next run.
AtAgain(kind) == now + Period                                  \* faulty variant
ComputeNext(kind) == IF kind = "at" THEN Never ELSE now + Period

\* initial_next_run: an at job names a time still to come.
InitialNext(kind) == IF kind = "at" THEN (now + 1)..(MaxTime + 1) ELSE {now + Period}

Init ==
  /\ rows = [j \in Job |-> NoRow] /\ now = 0
  /\ pc = "wait" /\ due = <<>> /\ faults = 0
  /\ gens = [j \in Job |-> 0]
  /\ starts = [j \in Job |-> 0] /\ triggers = [j \in Job |-> 0]
  /\ stranded = {}

-----------------------------------------------------------------------------
(* The web handlers; each is one statement and its commit.                 *)

\* POST /api/jobs: INSERT OR REPLACE, whatever the old row's state.
Add(j, kind, next) ==
  /\ gens[j] < MaxGen
  /\ gens' = [gens EXCEPT ![j] = @ + 1]
  /\ rows' = [rows EXCEPT ![j] = [gen |-> gens[j] + 1, kind |-> kind, next |-> next,
                                  running |-> FALSE]]
  /\ starts' = [starts EXCEPT ![j] = 0] /\ triggers' = [triggers EXCEPT ![j] = 0]
  /\ stranded' = stranded \ {j}
  /\ UNCHANGED <<now, thread, faults>>

\* trigger: due at once, and a running flag that got stuck is cleared.
Trigger(j) ==
  /\ Exists(j) /\ triggers[j] < MaxTriggers
  /\ rows' = [rows EXCEPT ![j].next = 0, ![j].running = FALSE]
  /\ triggers' = [triggers EXCEPT ![j] = @ + 1]
  /\ stranded' = stranded \ {j}
  /\ UNCHANGED <<now, thread, faults, gens, starts>>

Delete(j) ==
  /\ Exists(j)
  /\ rows' = [rows EXCEPT ![j] = NoRow]
  /\ stranded' = stranded \ {j}
  /\ UNCHANGED <<now, thread, faults, gens, starts, triggers>>

-----------------------------------------------------------------------------
(* The scheduler thread.                                                   *)

\* A tick reads the due jobs, in any order; their definitions are copied.
ReadDue ==
  /\ pc = "wait"
  /\ \E order \in [1..Cardinality({j \in Job : IsDue(j)}) -> {j \in Job : IsDue(j)}] :
       /\ \A j \in Job : IsDue(j) => \E n \in DOMAIN order : order[n] = j
       /\ \A m, n \in DOMAIN order : order[m] = order[n] => m = n
       /\ due' = [n \in DOMAIN order |->
                   [id |-> order[n], gen |-> rows[order[n]].gen, kind |-> rows[order[n]].kind]]
  /\ pc' = IF \E j \in Job : IsDue(j) THEN "mark" ELSE "wait"
  /\ UNCHANGED <<rows, now, faults, past>>

NextEntry == due' = Tail(due) /\ pc' = IF Len(due) = 1 THEN "wait" ELSE "mark"

\* mark_running: the update finds the row and finds it not running.
MarksAny(j) == TRUE                                            \* faulty variant
CanMark(j) == Exists(j) /\ ~rows[j].running

MarkRunning ==
  /\ pc = "mark" /\ CanMark(Head(due).id)
  /\ LET e == Head(due) IN
       /\ rows' = IF Exists(e.id) THEN [rows EXCEPT ![e.id].running = TRUE] ELSE rows
       /\ starts' = IF e.gen = gens[e.id] THEN [starts EXCEPT ![e.id] = @ + 1] ELSE starts
  /\ pc' = "chat"
  /\ UNCHANGED <<now, due, faults, gens, triggers, stranded>>

SkipOverlap ==
  /\ pc = "mark" /\ ~CanMark(Head(due).id)
  /\ NextEntry
  /\ UNCHANGED <<rows, now, faults, past>>

\* app.chat returns or raises; both go on to finish.
ChatReturns ==
  /\ pc = "chat"
  /\ pc' = "finish"
  /\ UNCHANGED <<rows, now, due, faults, past>>

DropsFailed ==                                                 \* faulty variant
  pc = "chat" /\ NextEntry /\ UNCHANGED <<rows, now, faults, past>>
ChatRaises ==
  /\ pc = "chat"
  /\ pc' = "finish"
  /\ UNCHANGED <<rows, now, due, faults, past>>

\* finish: the next run comes from the definition the tick copied.
Finish ==
  /\ pc = "finish"
  /\ LET e == Head(due) IN
       rows' = IF Exists(e.id)
                 THEN [rows EXCEPT ![e.id].running = FALSE, ![e.id].next = ComputeNext(e.kind)]
                 ELSE rows
  /\ NextEntry
  /\ UNCHANGED <<now, faults, past>>

\* mark_running or finish raises: neither is inside the try of the loop.
StoreFails ==
  /\ pc \in {"mark", "finish"} /\ faults < MaxFaults
  /\ faults' = faults + 1
  /\ pc' = "dead" /\ due' = <<>>
  /\ stranded' = IF pc = "finish" THEN stranded \cup {Head(due).id} ELSE stranded
  /\ UNCHANGED <<rows, now, gens, starts, triggers>>

\* The process dies and is started again.
Restart ==
  /\ faults < MaxFaults
  /\ faults' = faults + 1
  /\ pc' = "wait" /\ due' = <<>>
  /\ stranded' = IF pc \in {"chat", "finish"} THEN stranded \cup {Head(due).id} ELSE stranded
  /\ UNCHANGED <<rows, now, gens, starts, triggers>>

Tick ==
  /\ now < MaxTime
  /\ now' = now + 1
  /\ UNCHANGED <<rows, thread, faults, past>>

Thread == ReadDue \/ MarkRunning \/ SkipOverlap \/ ChatReturns \/ ChatRaises \/ Finish

Next ==
  \/ \E j \in Job : \/ \E kind \in Kinds : \E next \in InitialNext(kind) : Add(j, kind, next)
                    \/ Trigger(j) \/ Delete(j)
  \/ Thread \/ StoreFails \/ Restart \/ Tick

Spec == Init /\ [][Next]_vars

\* The scheduler thread keeps going as long as it lives, and time passes.
FairSpec == Spec /\ WF_vars(Thread) /\ WF_vars(Tick)

-----------------------------------------------------------------------------
\* Types of the rows, the thread and the history.
TypeOK ==
  /\ rows \in [Job -> Row] /\ now \in 0..MaxTime
  /\ pc \in {"wait", "mark", "chat", "finish", "dead"} /\ due \in Seq(Entry)
  /\ pc \in {"mark", "chat", "finish"} => due # <<>>
  /\ faults \in 0..MaxFaults
  /\ gens \in [Job -> 0..MaxGen] /\ \A j \in Job : rows[j].gen <= gens[j]
  /\ starts \in [Job -> Nat] /\ triggers \in [Job -> Nat]
  /\ stranded \subseteq Job

WorkingOn(j) == pc \in {"chat", "finish"} /\ Head(due).id = j

(* A one-shot job runs once, and once more for each accepted trigger,      *)
(* whatever crashes, store errors, replacements and deletions happen       *)
(* between due, mark_running and finish: a run may be lost, never          *)
(* repeated.                                                               *)
AtMostOnce ==
  \A j \in Job :
    Exists(j) /\ rows[j].kind = "at" => starts[j] <= 1 + triggers[j]

(* "job lỗi vẫn phải finish để không kẹt running" (server.py): a row is    *)
(* marked running only while the thread works on that job, or because a    *)
(* crash or a store error cut its run off.                                 *)
StuckOnlyByFault == \A j \in Job : rows[j].running => WorkingOn(j) \/ j \in stranded

(* No run too many and no job that nothing will run again, but by a fault. *)
RunsAccounted == AtMostOnce /\ StuckOnlyByFault

(* The list of due jobs is a copy: a job that is deleted while an earlier  *)
(* one runs does not start any more.                                       *)
DeletedNotStarted == [][\A j \in Job : starts'[j] > starts[j] => Exists(j)]_vars

(* Until a crash or a store error every due job leaves the due list: it    *)
(* runs to its end and gets its next time, however the runs before it in   *)
(* the tick end, or it is deleted or rescheduled.                          *)
Overdue(j) == Exists(j) /\ rows[j].next # Never /\ rows[j].next <= now
DueRuns == \A j \in Job : Overdue(j) ~> ~Overdue(j) \/ faults > 0

=============================================================================
