------------------------------ MODULE AgentTurn ------------------------------
(***************************************************************************)
(* One turn of the agent loop (core/loop.py) with the context it edits     *)
(* (core/context.py), the checkpoint row it leaves behind                  *)
(* (core/checkpoint.py), the cancel token (core/cancel.py) and the turn    *)
(* history App.chat appends to (app.py, memory/session.py).                *)
(*                                                                         *)
(* The turn is one (session_key, turn_id).  It may be submitted again      *)
(* after a cancel, an exception or a crash of the process: row, ran and    *)
(* hist survive, everything else is rebuilt by Start.                      *)
(*                                                                         *)
(* A message list is kept as its rounds: an assistant message that carries *)
(* tool calls together with the tool results appended after it.  A result  *)
(* is kept only as "the call with this id is answered", because nothing    *)
(* here depends on its text.                                               *)
(***************************************************************************)
EXTENDS Integers, Sequences, FiniteSets

CONSTANTS
  Sig,        \* signatures tool_name + hash(args) of the calls a model may make
  Stub,       \* the signature of a call once prune has replaced its arguments
  Bare,       \* signatures of calls without arguments
  MaxIter,    \* eff_max: the iterations of one run
  Reserve,    \* LoopConfig.reserve_final_steps
  Repeats,    \* LoopConfig.force_text_after_repeats
  Budget,     \* context_token_budget, one unit per unpruned call/result pair
  MaxBatch,   \* bound: tool calls in one assistant message
  MaxCalls,   \* bound: tool calls in all, after which the model only answers
  MaxRuns,    \* bound: submissions of this turn
  RepeatIds   \* TRUE: the provider leaves call ids out, so all are equal

ASSUME AgentTurnAssumption ==
  /\ {MaxIter, Reserve, Repeats, MaxBatch, MaxCalls, MaxRuns} \subseteq Nat \ {0}
  /\ Budget \in Nat
  /\ RepeatIds \in BOOLEAN
  /\ Stub \in [Sig -> Sig \ Bare]

VARIABLES
  row,        \* checkpoint row: status, rounds, cache (completed_sigs)
  ran,        \* executions of each signature that reached the outside world
  hist,       \* roles of the session_msgs rows this turn wrote
  pc,         \* where run_turn or App.chat is
  rounds,     \* ctx.messages
  cache,      \* completed_sigs
  resume,     \* is_resume
  prelude,    \* TRUE while the pending calls of the resumed batch are finished
  batch, at,  \* the calls being gone through and the position in them
  skip,       \* ids answered when the batch was loaded (prelude)
  completed,  \* ids executed in this run
  counts,     \* call_counts
  iter,       \* i
  result,     \* how the call just executed ended, before it is saved
  answer,     \* status and non-empty text of the finished run
  cancel,     \* the cancel token
  nextId,     \* the last call id the provider gave
  ended,      \* history: the ways calls of each signature really ended
  runs, asked, lost, late   \* bound and history variables

disk == <<row, ran, hist>>
turn == <<rounds, cache, resume, prelude, batch, at, skip, completed, counts,
          iter, result>>
past == <<runs, nextId, ended, asked, lost, late>>
vars == <<disk, turn, past, pc, answer, cancel>>

-----------------------------------------------------------------------------
Id == Nat
Call == [id : Id, sig : Sig, given : Sig]    \* given: history, the provider's own
Round == [calls : Seq(Call), answered : SUBSET Id, pruned : SUBSET Id]
Result == {"ok", "failed", "refused"}   \* failed: it ran and returned is_error
Cached == Result \cup {"none"}
Status == {"absent", "running", "canceled", "done"}
Outcome == {"none", "done", "max_iterations", "canceled"}
Location == {"idle", "batch", "approval", "tool", "save", "think", "chat",
             "finish", "recordUser", "recordAssistant"}
Resumable == {"running", "canceled"}
NoCache == [s \in Sig |-> "none"]

\* Batches of calls an assistant message may carry.
Batches == UNION {[1..n -> Sig] : n \in 1..MaxBatch}

\* Ids the provider gives to a batch: unique, or all the same.
WithIds(sigs) ==
  [k \in DOMAIN sigs |->
    [id |-> IF RepeatIds THEN 0 ELSE nextId + k, sig |-> sigs[k], given |-> sigs[k]]]

\* pending_tool_calls: the calls of the last assistant message, of which those
\* answered are skipped.  (NoPending is a faulty variant, as are the other
\* definitions so marked: they show that a property can fail.)
NoPending(rs) == <<>>
LastCalls(rs) == IF rs = <<>> THEN <<>> ELSE rs[Len(rs)].calls
LastAnswered(rs) == IF rs = <<>> THEN {} ELSE rs[Len(rs)].answered

AddResult(rs, id) ==
  [r \in DOMAIN rs |->
    IF r = Len(rs) THEN [rs[r] EXCEPT !.answered = @ \cup {id}] ELSE rs[r]]

\* Context.prune: the oldest unpruned results become references until the context
\* fits, and the arguments of the calls with their ids a placeholder, which gives
\* those calls another signature.  The calls are looked for in the first message
\* that has the id on a call with arguments.
Weighing(rs) ==
  {p \in {<<r, k>> : r \in DOMAIN rs, k \in 1..MaxBatch} :
     /\ p[2] \in DOMAIN rs[p[1]].calls
     /\ rs[p[1]].calls[p[2]].id \in rs[p[1]].answered \ rs[p[1]].pruned}
Tokens(rs) == Cardinality(Weighing(rs))
Older(rs, p) ==
  {q \in Weighing(rs) : q[1] < p[1] \/ (q[1] = p[1] /\ q[2] < p[2])}
Carries(round, id) ==
  \E k \in DOMAIN round.calls : round.calls[k].id = id /\ round.calls[k].sig \notin Bare
FirstCarrier(rs, r, id) ==
  Carries(rs[r], id) /\ \A q \in DOMAIN rs : q < r => ~Carries(rs[q], id)
Replace(calls, ids) ==
  [k \in DOMAIN calls |->
    IF calls[k].id \in ids THEN [calls[k] EXCEPT !.sig = Stub[@]] ELSE calls[k]]
Prune(rs, budget) ==
  LET gone == {p \in Weighing(rs) : Cardinality(Older(rs, p)) < Tokens(rs) - budget}
      ids(r) == {rs[r].calls[p[2]].id : p \in {q \in gone : q[1] = r}}
      stubs(r) == {id \in UNION {ids(q) : q \in DOMAIN rs} : FirstCarrier(rs, r, id)}
  IN  [r \in DOMAIN rs |->
        [rs[r] EXCEPT !.pruned = @ \cup ids(r), !.calls = Replace(@, stubs(r))]]

ReserveHit == iter >= MaxIter - Reserve
RepeatHit == \E s \in Sig : counts[s] >= Repeats
ForceText == ReserveHit \/ RepeatHit

Current == batch[at]
Skipped == Current.id \in IF prelude THEN skip ELSE completed

\* consult_cache: a resumed run answers a known signature from completed_sigs.
KnownInPrelude == prelude /\ cache[Current.sig] # "none"        \* faulty variant
Known == resume /\ cache[Current.sig] # "none"

\* CancelToken.check does not raise.
CheckOncePerIteration == ~cancel \/ pc = "batch"               \* faulty variant
CheckPasses == ~cancel

CountNoIteration == iter' = iter /\ pc' = "think"              \* faulty variant
NextIteration == iter' = iter + 1 /\ pc' = "think"

\* run_turn is left: its locals are gone.
Forget ==
  /\ rounds' = <<>> /\ cache' = NoCache /\ resume' = FALSE /\ prelude' = FALSE
  /\ batch' = <<>> /\ at' = 1 /\ skip' = {} /\ completed' = {}
  /\ counts' = [s \in Sig |-> 0] /\ iter' = 0 /\ result' = "ok"

\* CheckpointStore.mark: an UPDATE, which does nothing without a row.
Mark(status) ==
  row' = IF row.status = "absent" THEN row ELSE [row EXCEPT !.status = status]

-----------------------------------------------------------------------------
Init ==
  /\ row = [status |-> "absent", rounds |-> <<>>, cache |-> NoCache]
  /\ ran = [s \in Sig |-> 0] /\ hist = <<>>
  /\ pc = "idle"
  /\ rounds = <<>> /\ cache = NoCache /\ resume = FALSE /\ prelude = FALSE
  /\ batch = <<>> /\ at = 1 /\ skip = {} /\ completed = {}
  /\ counts = [s \in Sig |-> 0] /\ iter = 0 /\ result = "ok"
  /\ answer = [status |-> "none", text |-> FALSE] /\ cancel = FALSE
  /\ runs = 0 /\ nextId = 0
  /\ ended = [s \in Sig |-> {}]
  /\ asked = [s \in Sig |-> 0] /\ lost = [s \in Sig |-> 0] /\ late = 0

\* App.chat registers a cancel token and run_turn loads the checkpoint.
Start ==
  /\ pc = "idle" /\ runs < MaxRuns
  /\ resume' = (row.status \in Resumable)
  /\ prelude' = resume'
  /\ rounds' = IF resume' THEN row.rounds ELSE <<>>
  /\ cache' = IF resume' THEN row.cache ELSE NoCache
  /\ batch' = LastCalls(rounds') /\ at' = 1 /\ skip' = LastAnswered(rounds')
  /\ completed' = {} /\ counts' = [s \in Sig |-> 0] /\ iter' = 0
  /\ pc' = IF resume' THEN "batch" ELSE "think"
  /\ answer' = [status |-> "none", text |-> FALSE]
  /\ cancel' = FALSE /\ runs' = runs + 1 /\ late' = 0
  /\ UNCHANGED <<disk, result, nextId, ended, asked, lost>>

\* The head of the iteration: cancel.check, then the request is sent.
Think ==
  /\ pc = "think" /\ iter < MaxIter /\ CheckPasses
  /\ pc' = "chat"
  /\ UNCHANGED <<disk, turn, past, answer, cancel>>

\* for ... else: every iteration was used up without an answer.
Exhausted ==
  /\ pc = "think" /\ iter >= MaxIter
  /\ answer' = [status |-> "max_iterations", text |-> FALSE]
  /\ pc' = "finish"
  /\ UNCHANGED <<disk, turn, past, cancel>>

\* ContextOverflow from the router: prune to half the budget and go on.
ChatOverflow ==
  /\ pc = "chat"
  /\ rounds' = Prune(rounds, Budget \div 2)
  /\ NextIteration
  /\ UNCHANGED <<disk, cache, resume, prelude, batch, at, skip, completed, counts,
                 result, past, answer, cancel>>

\* The model answers with text, or wants tools when none may be used any more.
ChatText ==
  /\ pc = "chat"
  /\ \E text, wantsTools \in BOOLEAN :
       answer' = [status |-> IF ReserveHit /\ wantsTools THEN "max_iterations" ELSE "done",
                  text |-> text]
  /\ pc' = "finish"
  /\ UNCHANGED <<disk, turn, past, cancel>>

\* The model asks for tools: the assistant message is added and the context
\* pruned before any of them runs.
ChatTools ==
  /\ pc = "chat" /\ ~ForceText
  /\ \E sigs \in Batches :
       /\ nextId + Len(sigs) <= MaxCalls
       /\ batch' = WithIds(sigs)
       /\ rounds' = Prune(Append(rounds, [calls |-> batch', answered |-> {}, pruned |-> {}]),
                          Budget)
       /\ nextId' = nextId + Len(sigs)
       /\ asked' = [s \in Sig |-> asked[s] + Cardinality({k \in DOMAIN sigs : sigs[k] = s})]
  /\ at' = 1 /\ skip' = {} /\ pc' = "batch"
  /\ UNCHANGED <<disk, cache, resume, prelude, completed, counts, iter, result,
                 runs, ended, lost, late, answer, cancel>>

\* The calls of the batch are done: on to the next iteration, or from the
\* prelude to the first one.
EndBatch ==
  /\ pc = "batch" /\ at > Len(batch)
  /\ prelude' = FALSE
  /\ IF prelude THEN iter' = iter /\ pc' = "think" ELSE NextIteration
  /\ UNCHANGED <<disk, rounds, cache, resume, batch, at, skip, completed, counts,
                 result, past, answer, cancel>>

\* cancel.check raises at the head of an iteration or before a call.
StopCanceled ==
  /\ ~CheckPasses
  /\ \/ pc = "think" /\ iter < MaxIter
     \/ pc = "batch" /\ at <= Len(batch) /\ ~(prelude /\ Skipped)
  /\ Mark("canceled")
  /\ answer' = [status |-> "canceled", text |-> TRUE]
  /\ pc' = "idle"
  /\ Forget
  /\ UNCHANGED <<ran, hist, past, cancel>>

-----------------------------------------------------------------------------
\* A call already answered: not in the pending list, or its id is completed.
SkipCall ==
  /\ pc = "batch" /\ at <= Len(batch)
  /\ Skipped /\ (prelude \/ CheckPasses)
  /\ at' = at + 1
  /\ UNCHANGED <<disk, rounds, cache, resume, prelude, batch, skip, completed, counts,
                 iter, result, past, pc, answer, cancel>>

CountCall ==
  counts' = IF prelude THEN counts ELSE [counts EXCEPT ![Current.sig] = @ + 1]

\* Add the result of the current call and save the checkpoint row.
SaveFirst(cached) ==                                           \* faulty variant
  /\ rounds' = AddResult(rounds, Current.id)
  /\ completed' = completed \cup {Current.id}
  /\ cache' = [cache EXCEPT ![Current.sig] = cached]
  /\ row' = [status |-> "running", rounds |-> rounds, cache |-> cache]
  /\ at' = at + 1 /\ pc' = "batch"
ForgetError(cached) ==                                         \* faulty variant
  /\ rounds' = AddResult(rounds, Current.id)
  /\ completed' = completed \cup {Current.id}
  /\ cache' = [cache EXCEPT ![Current.sig] = "ok"]
  /\ row' = [status |-> "running", rounds |-> rounds', cache |-> cache']
  /\ at' = at + 1 /\ pc' = "batch"
Observe(cached) ==
  /\ rounds' = AddResult(rounds, Current.id)
  /\ completed' = completed \cup {Current.id}
  /\ cache' = [cache EXCEPT ![Current.sig] = cached]
  /\ row' = [status |-> "running", rounds |-> rounds', cache |-> cache']
  /\ at' = at + 1 /\ pc' = "batch"

\* A known signature is answered from completed_sigs and not executed.
AnswerFromCache ==
  /\ pc = "batch" /\ at <= Len(batch) /\ ~Skipped /\ CheckPasses
  /\ Known
  /\ CountCall
  /\ Observe(cache[Current.sig])
  /\ UNCHANGED <<ran, hist, resume, prelude, batch, skip, iter, result, past,
                 answer, cancel>>

\* execute_tool is entered; the gate may hold the call for approval.
BeginCall ==
  /\ pc = "batch" /\ at <= Len(batch) /\ ~Skipped /\ CheckPasses
  /\ ~Known
  /\ CountCall
  /\ pc' \in {"approval", "tool"}
  /\ UNCHANGED <<disk, rounds, cache, resume, prelude, batch, at, skip, completed, iter,
                 result, past, answer, cancel>>

Approved ==
  /\ pc = "approval"
  /\ pc' = "tool"
  /\ UNCHANGED <<disk, turn, past, answer, cancel>>

\* How the call ended, for the properties.
Ends(how) == result' = how /\ ended' = [ended EXCEPT ![Current.sig] = @ \cup {how}]

\* The tool runs, its effect is outside the checkpoint, and returns a result that
\* may be an error.
ToolRuns ==
  /\ pc = "tool"
  /\ ran' = [ran EXCEPT ![Current.sig] = @ + 1]
  /\ \E how \in {"ok", "failed"} : Ends(how)
  /\ late' = IF cancel THEN late + 1 ELSE late
  /\ pc' = "save"
  /\ UNCHANGED <<row, hist, rounds, cache, resume, prelude, batch, at, skip, completed,
                 counts, iter, runs, nextId, asked, lost, answer, cancel>>

\* Denied by the gate, by the approver, or rejected by validation.
ToolRefused ==
  /\ pc \in {"approval", "tool"}
  /\ Ends("refused")
  /\ pc' = "save"
  /\ UNCHANGED <<disk, rounds, cache, resume, prelude, batch, at, skip, completed,
                 counts, iter, runs, nextId, asked, lost, late, answer, cancel>>

SaveResult ==
  /\ pc = "save"
  /\ Observe(result)
  /\ UNCHANGED <<ran, hist, resume, prelude, batch, skip, counts, iter, result, past, answer, cancel>>

-----------------------------------------------------------------------------
\* run_turn marks the row done and returns; App.chat drops the token and
\* records only a turn that is done and has text.
MarkDone ==
  /\ pc = "finish"
  /\ Mark("done")
  /\ pc' = IF answer.status = "done" /\ answer.text THEN "recordUser" ELSE "idle"
  /\ Forget
  /\ UNCHANGED <<ran, hist, past, answer, cancel>>

\* SessionStore.record_turn: two inserts, each with its own commit.
RecordAnswerFirst ==                                           \* faulty variant
  /\ pc = "recordUser"
  /\ hist' = Append(hist, "assistant")
  /\ pc' = "recordAssistant"
  /\ UNCHANGED <<row, ran, turn, past, answer, cancel>>
RecordUser ==
  /\ pc = "recordUser"
  /\ hist' = Append(hist, "user")
  /\ pc' = "recordAssistant"
  /\ UNCHANGED <<row, ran, turn, past, answer, cancel>>

RecordAssistant ==
  /\ pc = "recordAssistant"
  /\ hist' = Append(hist, "assistant")
  /\ pc' = "idle"
  /\ UNCHANGED <<row, ran, turn, past, answer, cancel>>

\* App.cancel, from another thread: only while the token is registered.
Cancel ==
  /\ pc \notin {"idle", "recordUser", "recordAssistant"} /\ ~cancel
  /\ cancel' = TRUE
  /\ UNCHANGED <<disk, turn, past, pc, answer>>

\* The process is killed, or an exception other than Cancelled leaves the loop:
\* nothing is written, the locals are gone.
Die ==
  /\ pc # "idle"
  /\ pc' = "idle"
  /\ answer' = [status |-> "none", text |-> FALSE]
  /\ lost' = IF pc = "save" /\ result # "refused"
             THEN [lost EXCEPT ![Current.sig] = @ + 1] ELSE lost
  /\ Forget
  /\ UNCHANGED <<disk, runs, nextId, ended, asked, late, cancel>>

Step ==
  \/ Think \/ Exhausted \/ ChatOverflow \/ ChatText \/ ChatTools \/ EndBatch
  \/ StopCanceled \/ SkipCall \/ AnswerFromCache \/ BeginCall \/ Approved
  \/ ToolRuns \/ ToolRefused \/ SaveResult \/ MarkDone \/ RecordUser \/ RecordAssistant

Next == Start \/ Step \/ Cancel \/ Die

\* The provider, the approver and every tool answer or time out, so a run that
\* is not killed keeps taking steps; nobody has to submit, cancel or die.
Fairness == WF_vars(Step)

Spec == Init /\ [][Next]_vars /\ Fairness

-----------------------------------------------------------------------------
\* Every variable keeps the shape the code gives it.
TypeOK ==
  /\ row \in [status : Status, rounds : Seq(Round), cache : [Sig -> Cached]]
  /\ ran \in [Sig -> Nat] /\ hist \in Seq({"user", "assistant"})
  /\ pc \in Location
  /\ rounds \in Seq(Round) /\ cache \in [Sig -> Cached]
  /\ resume \in BOOLEAN /\ prelude \in BOOLEAN
  /\ batch \in Seq(Call) /\ at \in 1..Len(batch) + 1
  /\ skip \subseteq Id /\ completed \subseteq Id
  /\ counts \in [Sig -> Nat] /\ iter \in Nat
  /\ result \in Result /\ ended \in [Sig -> SUBSET Result]
  /\ answer \in [status : Outcome, text : BOOLEAN] /\ cancel \in BOOLEAN
  /\ runs \in Nat /\ nextId \in Nat
  /\ asked \in [Sig -> Nat] /\ lost \in [Sig -> Nat] /\ late \in Nat

\* A tool is executed no more often than the model asked for it, plus once for
\* every crash that hit between its effect and the checkpoint of its result:
\* resuming, canceling and submitting again add no execution of their own.
EffectsAccounted == \A s \in Sig : ran[s] <= asked[s] + lost[s]

\* A resumed run never executes a call whose signature the checkpoint row holds.
SavedNeverRepeated ==
  [][\A s \in Sig : resume /\ ran'[s] > ran[s] => row.cache[s] = "none"]_vars

\* What is saved is what happened: a cached result, with its error flag, is how a
\* call with that signature really ended, and one that no refusal gave belongs to
\* a tool that was executed, however many crashes and resumes lie in between.
CacheSound ==
  \A s \in Sig : row.cache[s] # "none" =>
    row.cache[s] \in ended[s] /\ (row.cache[s] # "refused" => ran[s] > 0)

\* The two halves of the checkpoint agree: a signature is in completed_sigs
\* exactly when some call the provider gave with it is answered in the saved
\* history, although prune has meanwhile given that call another one.
CheckpointConsistent ==
  \A s \in Sig :
    row.cache[s] # "none" <=>
      \E r \in DOMAIN row.rounds : \E k \in DOMAIN row.rounds[r].calls :
        /\ row.rounds[r].calls[k].given = s
        /\ row.rounds[r].calls[k].id \in row.rounds[r].answered

\* What a resume has still to run is what the provider asked for: the arguments of
\* a call without its result are never replaced by the placeholder.
PendingIntact ==
  \A r \in DOMAIN row.rounds : \A k \in DOMAIN row.rounds[r].calls :
    row.rounds[r].calls[k].id \notin row.rounds[r].answered =>
      row.rounds[r].calls[k].sig = row.rounds[r].calls[k].given

\* A request to the provider carries no tool call without its result, also
\* after a resume in the middle of a batch (context.py pending_tool_calls).
RequestComplete ==
  pc = "chat" =>
    \A r \in DOMAIN rounds : \A k \in DOMAIN rounds[r].calls :
      rounds[r].calls[k].id \in rounds[r].answered

\* What is saved and what is sent are whole, whichever way the turn was left and
\* taken up again.
HistoryConsistent == CheckpointConsistent /\ PendingIntact /\ RequestComplete

\* After cancel() was accepted at most the call already under way still runs.
CancelStops == late <= 1

\* Crashes between the two commits of record_turn and repeated submissions
\* included, the history never shows an answer that no question precedes.
AnswersFollowQuestions ==
  \A k \in DOMAIN hist : hist[k] = "assistant" => k > 1 /\ hist[k - 1] = "user"

\* Overflows, forced text, cancels and resumed batches included, a run ends.
TurnEnds == pc # "idle" ~> pc = "idle"

-----------------------------------------------------------------------------
(* What a document of the repository promises and the code does not keep. *)

\* docs/harness-execution-plan.md RG1-4: killed in mid-turn and resumed, a tool
\* that ran is not run again.
ResumeNeverRepeats == \A s \in Sig : ran[s] <= asked[s]

=============================================================================
