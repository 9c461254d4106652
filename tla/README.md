# yett: specification, model checking and proofs

`yett` is an on-premises agent harness in Python (`src/src/yett`): a loop that
sends a conversation to a model, runs the tools the model asks for behind a
policy gate, and keeps checkpoints, a curated memory, scheduled jobs and chat
channels around it.  It runs as one process with several threads (HTTP
handlers, scheduler, channel pollers, configuration watcher) over a handful of
SQLite files and Markdown files.  The modules of this directory are translated
from that source; `PROJECT.json` maps every definition to its lines.

## 1. Inventory

| component | state it keeps | operations | what is hard | correct when | here |
|---|---|---|---|---|---|
| agent turn: `core/loop.py`, `context.py`, `checkpoint.py`, `cancel.py` | checkpoint row per (session, turn), message list, cache of results by signature, cancel token | run_turn: check cancel, call the provider, dedupe, approve, run, save, prune; resume | a crash or cancel between any two of these, a resume over what was saved, denial, overflow, duplicate ids | effects and checkpoint agree; a saved result is never recomputed; a request has a result for every call; a turn ends | `AgentTurn` |
| session history: `memory/session.py` | rows of (user, assistant) text | record_turn, history, clear | two commits per turn | no answer without its question | `AgentTurn`, partly |
| tool execution: `tools/wiring.py`, `hooks/runner.py`, `security/gate.py` | none between calls | gate, approval, pre hooks, gate again, run, filter, post hooks, filter again | hooks change what was judged; they fail or time out | only cleared arguments run; a refusal is final; results leave filtered | `ToolExecution` |
| approval center: `approvals.py` | pending requests with an event | request, resolve, list | the answer races the timeout | every request ends; an answer counts once | `ToolExecution` |
| policy gates and guards: `security/*`, `policy/*`, `tools/db/sqlguard.py` | none | evaluate | order of the layers, nesting, dialects, what dials a VPN | the immutable core cannot be overridden; nothing dials unasked | `PolicyGate`; guards partly |
| subagents: `subagent/*` | none | delegate | nested turns | the child's tools are within the parent's; one level | `GuardedTools`, partly |
| memory review gate: `memory/review_gate.py` | `memory/pending/*.json`, `MEMORY.md`, audit file, lock file | propose, approve, reject, repair | crash between the three files, failed writes, an editor open on `MEMORY.md` | a proposal is merged at most once, and only after review; edits survive | `MemoryReview` |
| cron: `sched/cron.py`, `_run_scheduler` | table `cron_jobs`, list of due jobs in the thread | add, due, mark_running, finish, trigger, delete; next time of an expression | web handlers write while the thread holds copies; crash in a run; summer time | one-shot jobs run at most once; due jobs run; the next time is the first one wanted | `CronScheduler`, `CronExpression` |
| web server: `web/server.py`, `web/configio.py` | current App, chat lock, worker slots, mtime of the configuration | handlers, `_hot_swap`, `_watch_config`, the save | App replaced while requests are in flight; slots exhausted by chats waiting for one another; a file read while it is written | turns are serialized; no App leaks; the last configuration is applied | `WebServer`; read-only routes not |
| VPN: `tools/remote/vpn.py` | sessions (owned processes), a lock per profile, closed flag | connect, status, disconnect, ensure, close | threads of several turns, cancel or death while connecting, a child that ignores SIGTERM, close during connect | no child or credential file is lost; one tunnel per profile; every call ends | `VpnRunner` |
| Zalo: `channels/zalo_bot.py`, `gating.py` | replay window, pairing failures, allowed chats, the slot | webhook, poll, pair, notify, stop | redelivery, bounded windows, retries, stop | an update runs once within the window; a lock-out holds; a chat gets a message once | `ZaloChannel`, `ZaloClient` |
| Telegram and briefing: `channels/telegram.py`, `brief.py` | offset, day of the last briefing | poll, pair, briefing | an exception in a batch, a restart at offset 0 | an update runs at most once per process | `TelegramChannel`; texts not |
| providers: `provider/*` | none | chat with retries and a fallback | classes of errors, ids of calls | overflow reaches the loop; attempts are bounded | `ModelCalls`; request bodies not |
| images: `tools/assist/image_gen.py`, `image_backend.py` | the session's cost, files of the workspace | image_gen: request, charge, download, check, save | paid for and then failing; the user edits the workspace between two looks | the charge is kept; no foreign file is overwritten; accepted images are well-formed | `ImageGen`, `ImageFormat` |
| spans, audit, retention: `obs/*`, `compliance/*` | buffer, hash chain | end_span, flush, append, verify | threads share the buffer | nothing is lost; the chain verifies | planned |
| other stores and tools: tasks, skills, secrets, search, files, sandbox, SSH, SQL | rows and files | one statement, request or file operation each | | | not modelled |

They interact through calls within a turn (loop -> `execute_tool` -> gate,
approver, hooks, tool), through shared state (the chat lock serializes turns of
all threads; the checkpoint, cron and session databases are shared by the
handlers and the turn), and through files that outlive the process.

## 2. Modules

| module | models | checked by |
|---|---|---|
| `AgentTurn` | one turn, submitted again after a cancel, an error or a crash | `AgentTurnMC`, `AgentTurnProofs` |
| `ToolExecution` | one `execute_tool` with the approval center and the hooks, under any gate | through `GuardedTools`; `GuardedToolsProofs` |
| `PolicyGate` | how the configured policy judges a call | through `GuardedTools` |
| `GuardedTools` | composes the two, for a parent's and a subagent's calls | `GuardedToolsMC`, `GuardedToolsProofs` |
| `ReviewLedger` | abstract: a proposal gets one verdict, approving is atomic | refined by the next |
| `MemoryReview` | the review gate on its files | `MemoryReviewMC`, `MemoryReviewProofs` |
| `CronScheduler` | the table and the scheduler thread | `CronScheduler.cfg`, `CronSchedulerProofs` |
| `CronExpression` | when an expression fires next, in a time zone | through `Services`; `ServicesProofs` |
| `WebServer` | handlers, slots, chat lock, hot swap, watcher, the save of the configuration | `WebServer.cfg`, `WebServerProofs` |
| `VpnRunner` | the owner of the VPN children and its locks | `VpnRunner.cfg`, `VpnRunnerProofs` |
| `ChannelHost` | what the channels share with the process: lock, shutdown, restart | used by the channels |
| `ZaloChannel` | arrival, window, gate, pairing, turn and answer of Zalo updates | through `Channels`; `ChannelsProofs` |
| `ZaloClient` | the requests of the channel with their retries, messages in chunks | through `Channels`; `ChannelsProofs` |
| `TelegramChannel` | batches from an offset, and the briefing thread | through `Channels`; `ChannelsProofs` |
| `Channels` | composes these over one host | `ChannelsMC`, `ChannelsProofs` |
| `ModelCalls` | failover between two providers, the ids of calls across adapters | through `Services`; `ServicesProofs` |
| `ImageGen`, `ImageFormat` | image_gen calls in a workspace that is edited; the pieces of an image | through `Services`; `ServicesProofs` |
| `Services` | the four parts that share no state, one run for all | `ServicesMC`, `ServicesProofs` |

A module `...MC` only gives its specification values for the model checker,
a module `...Proofs` only proves.  Definitions marked `faulty variant` are not
part of a specification: each is a plausible mistake, kept beside the
definition it would replace, and breaks the property that guards against it.

**AgentTurn.**  `row` is the checkpoint row, `rounds` the message list as
rounds of calls and their results, `cache` the `completed_sigs`, `pc` the stage
of `run_turn`; `ran` and `hist` are what the world and the session table saw.
One action per stage boundary: the provider answers (text, calls, overflow,
error), each call of a batch is skipped, answered from the cache, denied,
asked for, run and saved; a tool that runs returns a result or an error, which is
cached with its flag.  `Die` and `Cancel` are possible at every step.  `Prune`
rewrites the arguments of old calls in place, as `context.py` does: their
signature becomes `Stub[sig]`, unless the call has none to rewrite (`Bare`).
What the provider had asked for and how calls ended is then no longer in the
message list, so each call remembers it (`given`) and `ended` does; both are
history for the properties.

**ToolExecution, PolicyGate, GuardedTools.**  In `ToolExecution` the gate, the
toolset, the hooks' marks and whether somebody attends are chosen at the start,
so a run covers all of them.  `BeginCall`, `Resolve` and the steps of
`ApprovalCenter.request` are what other threads can come between.  A request
holds the whole arguments and a yes is a yes to that request; the screen shows
its first 300 characters, so that an operator may not have read all of what he
approves.  A text is known by what the filters look for in it: secrets, and
words that lure the model, which count in results from outside
(`Untrusted`).  Denials have texts too: those of toolset, gate and approval are
the program's own, that of a hook is whatever the hook says and passes no filter.
`PolicyGate` is an operator over calls: a command is a set of parts with their
depth, what each runs and where its output goes; an SQL text is what the grammar
of each dialect makes of it, a sequence of statements with a root and the
changing nodes below it, and whether a comment is in it that MySQL executes.
What it changes is a fact of its own (`sql.changes`: the engines it changes
something in), which the gate does not see; `GuardedAssumption` says only what
is expected of sqlglot, that a change shows somewhere in the tree the engine's
own dialect gives (`Shows`).  `GuardedTools` runs the first under the second;
`policy = NoPolicy` is the arbitrary gate.

**MemoryReview.**  `memory`, `staged`, `audit` are the files; the operation in
progress is `op` with the copies it took.  Every file operation is a step; a
crash or an I/O error may follow each.

**CronScheduler, CronExpression.**  `rows` is the table, `due` the list a tick
has copied.  A definition (INSERT OR REPLACE) has a generation, which tells runs
of an old definition from those of the new one.  `StoreFails` is an SQLite error
outside the `try`, `Restart` a new process on the same file.  When a job fires
next is a constant there; `CronExpression` is the search itself, one action per
minute looked at, on a wall clock with a gap and a fold.

**WebServer.**  An App is its place in `apps`, whose value is the version it was
built from, `Closed`, or `Half` for one whose constructor raised when its stores
were open already, which nobody closes; `seen[t]` is the App a thread holds in a
local variable, which is the point of the model: handlers read it when the request
starts, the other threads inside the lock.  `text` is the file: its version and
what a rebuild makes of it.  `write_text` truncates and then writes, so a save is
two steps, and whoever builds in between builds from something arbitrary.
`missed` is set when a handler of `POST /api/config` notes a version as applied
that nobody has built, until the next write; `ConfigApplied` has to except that
time.  Every version has an mtime of its own: that two writes fall into one tick
of the file system's clock is left out.

**VpnRunner.**  `call[w]` is where a thread is in `ensure`, `status` or
`disconnect`: waiting for the lock (`ask`, `want`, `leave`), holding it
(`Held`), or using the tunnel.  `hand` is the attempt it took out of the
dictionary or started: between the pop of `_drop_session` and the end of the
child no dictionary knows it, so the model must.  `proc` and `sig` are the
children as the operating system has them; a child may come up, hang, die at
any time, and end or not on SIGTERM.  `close()` is one more thread with its own
waits.  Abstracted: a refusal (binary, profile, credential, platform) may
happen at any time before the start; a swallowed error of `kill()` does not
happen; cancelling through asyncio exists for the CLI's own loop only;
`VpnManager._connected` is never read.

**Channels.**  An update keeps the attributes that `handle_update` tells apart.
The Zalo platform delivers an update until it is accepted and may repeat it;
`pc[t]` is where a carrier thread is between the slot, the window, the gate, the
chat lock and the answer.  The Telegram server keeps updates until it is asked
for a later offset.  `ZaloClient` has its own small state for one message or one
request, since a turn only waits for it.

**Services.**  `ModelCalls` follows the rounds of a conversation through
`FailoverRouter` and two adapters of any kind.  A round has its ids, which of them
are answered, and what else is wrong with its calls (`flaws`: no name or no
object, a number that JSON lacks); pruning takes a flaw away with the arguments it
is in (`Mended`).  `ImageGen` has the steps of one call and, between them, a user
who saves, removes or relinks what is at the path; POSIX and Windows differ in
what they hold.  `ImageFormat` feeds a file piece by piece to the loops of
`sniff_image_mime`, beside definitions of a valid image written from the standards
of the formats, and of the deviations from them that the loops let through
(`Tolerated`).  A PNG has none.  Of the order of the pieces only: that tables and
metadata are in their places is left out.  What follows a piece that makes a loop
refuse is still part of the file (`Unread`), so that a refusal, too, is held
against the whole of it.

## 3. Runs

Passing runs (each checks every interleaving within its bounds):

- `agent_turn`: two signatures, one of them a call with the very placeholder that
  pruning writes, batches of two, four calls in all, three iterations, two
  submissions.  Two signatures give duplicates, cache hits and a pruned call that
  looks like one the model made; two submissions a resume; three iterations the
  reserve step and the forced text; four calls two full batches, of which the
  first is pruned.  No signature is without arguments here (`Bare`); the theorems
  allow any.  That a turn ends is checked too, for which a symmetry set would not
  be sound.
- `tool_execution`: every gate over two calls, then four policies of both backends
  over a call of each sort, with two hooks, the least that have an order,
  enforcing or not and with any text; subagents that declare a part of the
  parent's tools or more.  The SQL texts read, write below a WITH, hold two
  statements, a PRAGMA, a comment that MySQL runs, or read in one dialect what
  another one writes.  A call ends though nobody answers.
- `memory_review`: two proposals, two lines, three faults: an operation, its
  repair and the repair's repair can all be interrupted, also by audit writes
  that fail after the file was replaced.
- `memory_ledger`: without those late failures the files implement
  `ReviewLedger`, and repeating the operation finishes every interrupted one.
- `cron_scheduler`: two jobs, each defined twice and triggered once, two faults:
  enough for a stale list entry, a replaced row, a crash and a restart in one
  run; until the first fault no due job is left behind.
- `web_server`: two connections of every kind over one slot, with the scheduler,
  the watcher and one edit of the file; configurations, and halves of them, are
  good, broken (before anything is opened, or when the stores are) or change the
  channels.  Turns and swaps exclude each other, no App leaks but those whose
  constructor raised, the last configuration wins, every request is served.
- `vpn_runner`: two threads and `close()`, two profiles, three calls, two
  children: two turns that want one tunnel, a reconnect, a disconnect under a
  command that uses the tunnel, and a close at every point of these.
- `channels`: four Zalo updates of two private chats (two messages, a pairing
  code, a malformed one) over two webhook threads or a poller, one repeated
  delivery, a window of two, one lock-out, stop and restart; four
  Telegram updates in batches of two, one of which raises, two days of
  briefings; messages of two chunks to two chats with every failure.
- `services`: three requests of a turn to two providers, whose answers bring calls
  in order, misshapen or with numbers that JSON lacks; two image calls with
  three edits and a crash, all images of six pieces, and every expression of a
  small set in three zones on a calendar of five days.

Runs that find a violation, each of a sentence in a comment or a document, are
the findings of `PROJECT.json`:

| run | what happens |
|---|---|
| `agent_turn_repeat` | a crash between a tool's effect and the save of its result: the resume runs the tool again |
| `memory_review_rejected` | approve dies after the merge, reject follows: rejected text stays in MEMORY.md |
| `cron_later` | a next time computed in the hour that the end of summer time repeats lies in the past: the job is due on every tick until the hour is over |

While the modules were written further places turned up where the code does
less than a comment or document says, or less than a reader might expect.  No
run of this directory shows them; the properties are stated so that they hold in
spite of them:

- `core/loop.py:174` prunes before the results of a batch arrive, so a request
  may exceed the budget by one batch.
- `core/loop.py:158`, `:178`: a cancel accepted during the last provider call,
  or during an approval wait, does not stop that answer or that call
  (`CancelStops` bounds what still runs).
- `memory/session.py:45`: a crash between the two commits of `record_turn`
  leaves a question without its answer (`AnswersFollowQuestions` is the half
  that holds).
- `provider/openai_compat.py:105`, `core/loop.py:179`: calls without ids share
  the id `''`, and the second one is skipped and stays unanswered
  (`RefusedAsReceived` excepts these conversations; `RepeatIds = TRUE` makes
  `HistoryConsistent` fail).  It lets calls without a name, with arguments that
  are no object, or with NaN in as well; after a change of provider the Anthropic
  adapter refuses the conversation they are in.
- `tools/wiring.py:42`: a db_query call whose arguments are a JSON list ends the
  turn with an AttributeError, although the docstring (`:38`) says that a strange
  shape does not raise.
- `provider/failover.py:3-4` promises the loop a pruned retry on overflow, but
  the OpenAI adapter gives no failure that class.
- `memory/review_gate.py:722`: an audit write that fails after its replace
  leaves "approved" on record and rolls the memory back (`LateFailures`).
- `approvals.py:56`: a yes that `resolve` accepted after the timeout does not
  count.  `:67`: the operator is shown the first 300 characters of the arguments,
  while README.md:139 of the repository speaks of the verbatim command: two calls
  that differ after them look alike (`RunsOnlyCleared` is about the request).
- `tools/wiring.py:104`, `hooks/runner.py:64`: the reason of a hook that denies,
  or the text of its exception, reaches the model past the filters, against
  README.md:79 (`ReturnsFiltered` excepts it).  `tools/wiring.py:145`: a
  PostToolUse hook cannot refuse.  The App passes an empty list of hooks, so all
  of this waits for an embedder that registers some.
- `tools/db/sqlguard.py:24` lets a PRAGMA pass as a read, which may set something,
  against the module's first line; nor is it known what a function in a SELECT
  does (`Shows` counts neither as a change).
- `sched/cron.py:65`: a trigger during the run of its job is overwritten, and a
  job replaced during its run gets the old definition's next time.
  `web/server.py:445`: a store error in mark_running or finish ends the thread.
- `sched/cron.py:35`: nothing resets the running flag at a start, so a job whose
  run was cut off stays marked and is never due again, against
  docs/harness-execution-plan.md:197 (`StuckOnlyByFault`, a part of
  `RunsAccounted`, is what holds).
- `web/server.py:313`: an edit during a save from the web is taken for applied
  (`missed`).  `web/server.py:276`: a chat that waited behind a swap runs in the
  App the swap has closed, although `:306` says the old App is closed under the
  lock so that chats are not raced; `TurnsUseReadyApp` claims an open App for
  the other threads only.  `app.py:160-164` opens five stores before the
  constructor can raise (`:180`, `:423-441`): what a refused configuration has
  opened stays open until Python frees the object (`OnlyHalfBuiltLeak`).
- `tools/assist/image_gen.py:578`: `run()` limits the whole call to the time that
  the backend allows each request; when the outer limit ends first, a charge that
  was already answered is not recorded, against
  docs/harness-architecture-design.md:281.  `:299-303`: a first look that raises
  keeps its directory descriptor.  An error after the replace reports a failure
  although the file is there.
- `tools/assist/image_backend.py:275`: JPEG scans without data, restart markers
  outside the data of a scan, and TEM pass; `:375-389`: so do WebP files whose
  VP8X is not the first chunk, simple ones with further chunks, and a profile or
  alpha chunk after its image (`Tolerated`).

### Bounds

Every bound is a constant named `Max...` (or `Horizon`, `Chunks`, `SeenCap`, as
the source has it) that occurs only in guards, and the sets of ids are small.
Counters are per object (definitions of one id, submissions of one turn, chats),
so larger values repeat what two or three already show; the theorems below hold
for every value.  Time in `CronExpression` runs to `Horizon` = 30 minutes, the
whole year of the small calendar: five days of six minutes, with a gap on the
second and a fold on the third, and two months of different length, so that each
field of an expression can be the one that decides.  Summer time is one hour and
begins with a full hour of the wall clock (`GapAssumption`), as in most zones that
have it (Lord Howe's half hour and Troll's two are left out).  Were it to begin at
half past two, `0,30 3 * * *` would fail `NextIsFirst`: the search hits 3:00,
which does not exist and stands for 4:00, and passes over 3:30.  Six pieces hold
the longest of the orders that the checks of an image distinguish.

### Fairness

- `AgentTurn`, `GuardedTools`: weak fairness of the turn's own steps only: the
  provider, the tool and the hooks have timeouts, an approval wait ends by
  itself, and nothing else is needed.  Crashes and cancels are never fair.
- `MemoryReview`: the operation in progress goes on (weak), and an operator
  repeats an interrupted operation until it can begin (strong, because another
  operation may hold the lock again and again).
- `CronScheduler`: the thread runs while it lives, and time passes.
- `WebServer`: handlers and the holder of the lock run (weak); a connection that
  waits for a slot, or a request that waits for the chat lock, gets it if it
  becomes free again and again (strong).  There is one condition per kind of step
  over all requests: a request passes each stage once (`RequestsGoOnTheorem`), so
  that none can be passed over for ever.  Python's lock does not promise an order,
  but the scheduler sleeps 3 s between ticks and other holders come from clients.
  The wait for an operator ends by the timeout of `ApprovalCenter`; without it
  chats that hold all slots would wait for ever.
- `VpnRunner`: one weak fairness condition on all steps of the threads and on
  the end of a child that got SIGKILL.  It lets one thread starve another in
  favour of a third; with bounded calls nobody can go on for ever, so every call
  ends all the same.  `close()` itself, a marker and an end on SIGTERM are not
  fair.  That the seven seconds of `close()` pass only while the holder of a lock
  is in the commander or waits for a child is assumed: every other stage looks or
  returns at once.
- `Channels`: the threads that carry an update run (weak); an update that is
  refused with a 503 is delivered again and again (strong, the platform's
  promise).  Stop, restart and repeats are not fair.

## 4. Proofs

All theorems are of the form `Spec => []Inv` or `Spec => [][A]_vars`, for every
value of the constants that the named assumptions admit.  They assume only these
and, where it says so, a hypothesis in the theorem.

- `AgentTurnProofs`: `TypeCorrect` (with `InCall`: the position in the batch is
  inside it).  `CheckpointInv` says that in a resumed run the cache in memory is
  the one on disk, that a call about to run has no cached result, and that every
  cached result, error or not, is how a call of that signature ended:
  `CacheSoundTheorem`, `SavedNeverRepeatedTheorem`.  `CancelStopsTheorem` counts
  what ran after a cancel stage by stage; `AnswersFollowQuestionsTheorem` ties the
  transcript to the stage.  `HistoryConsistentTheorem` follows the ids of the
  calls through row and conversation: which round may have open calls, that ids of
  rounds are apart, and that only calls with their results are rewritten by
  pruning, so that what the row has still to run is what the provider asked for;
  `EffectsAccountedTheorem` adds, per signature, an account of what was asked for,
  what ran and what was saved.  These two have the hypothesis `~RepeatIds`:
  without it they are false, as section 3 says. `RunGoesForwardTheorem`: every
  step of a run lowers a measure of natural numbers (stage of the turn, iterations
  left, part of the iteration, calls left, point of the call), which needs that an
  iteration that was begun is one of the `MaxIter` (`LoopInv`).
- `MemoryReviewProofs`: `TypeCorrect`, `MergedOnceTheorem`,
  `OnlyReviewedTheorem` (together `MergedAsReviewedTheorem`),
  `LostOnlyInGapTheorem` from `SafeInv`, which ties the copies an operation took
  to the files they were taken from, stage by stage.  `RefinesLedgerTheorem`:
  without late failures the gate implements `ReviewLedger`; `Commit` says that an
  approved record implies a merged entry unless the user deleted it, which is why
  the audit record is the commit.
- `GuardedToolsProofs`: `RunsOnlyClearedTheorem` and `RefusalIsFinalTheorem`
  (which is `DenyIsFinal` and `HooksEnforce`) from an invariant that follows the
  request, the judgement and the origin of the arguments through both rounds;
  `ReturnsFilteredTheorem`; `CallGoesForwardTheorem`, a measure over rounds,
  stages and hooks.  `PolicyHoldsTheorem`: every step of `GuardedTools` is one of
  `ToolExecution`, so what runs was cleared by the gate; and no layer of the gate
  clears what is destructive, or dials a VPN, without a yes.  For SQL that takes
  the assumption `Shows`: the gate sees trees, the property what the engine does.
- `CronSchedulerProofs`: `RunsAccountedTheorem`, made of `AtMostOnceTheorem` and
  `StuckOnlyByFaultTheorem`, and `DeletedNotStartedTheorem`.  `OnceInv`: a row
  whose one-shot definition has used its runs up is not due, is on no copied
  list, and a run of it that has still to finish is its own (`SpentInv`), which
  needs that the list names a job once and knows the kind of the last definition
  (`ListInv`).
- `ChannelsProofs`: a step of `Channels` is a step of one channel.
  `ReplayWindowTheorem` from `WindowInv`, which ties the age of an update to its
  place in the window; `GuessesLimitedTheorem` from `GuessInv`: the failures
  counted and the guesses still allowed add up, over lock-outs and restarts;
  `DrainsOneTheorem` from `AloneInv`, that one thread at most is past the slot
  whichever way updates come in, and `DrainInv`, that the claim after `stop()` is
  the one of the thread that had looked before it.  `SentOnceTheorem` from
  `ClientInv`, which says for every chat which chunks it has seen while others
  are being written to.  `UpdatesOnceTheorem` from `PollInv` (a batch starts where
  server and offset agree) and `BriefingInv`.
- `ServicesProofs`: `FailoverDecidesTheorem` from `ChatInv`: the log of a call is
  a chain of failures, the primary's before the fallback's, and `Rules` of such a
  chain; `RefusedAsReceivedTheorem` from `RoundsInv` (as long as every call came
  whole, the conversation converts; pruning only mends); `ChargeKeptTheorem` and
  `FileKeptTheorem` from what is known of charge and path at each stage;
  `StructureSoundTheorem` from `FormatInv`, which says for each format what its
  loop knows of the pieces it has read (`Read`), and which faults no later piece
  can mend (`Doomed`): accepted is exactly what has the frame of its format, and a
  frame without a deviation is a valid image.  `NextIsFirstTheorem`, for zones
  with and without summer time: `ScanInv`, that no local time up to the one looked
  at fits, and lemmas on how points in time and local times follow each other
  around gap and fold.
- `WebServerProofs`: `StageInv` (which stage each kind of thread can be in, and
  what it holds there) gives `TypeCorrect`; with it `SerializedTheorem`;
  `AppInv`, which knows for each stage of a swap which App is new, old and
  current, gives `OnlyHalfBuiltLeakTheorem` and `TurnsUseReadyAppTheorem`;
  `ConfigInv` says that when the running App is not the file's somebody is still
  on the way to apply it (`Coming`): `ConfigAppliedTheorem`.
  `SlotsAccountedTheorem` (slots against the connections being handled),
  `LockHeldTheorem` (the converse of `Serialized`) and `RequestsGoOnTheorem` (no
  request comes back to a stage) are what the form of the fairness conditions
  rests on.
- `VpnRunnerProofs`: `TypeCorrect`; `NoOrphanTheorem`, `CredentialsGoneTheorem`
  and `LeftByCloseTheorem` (together `NothingLeftTheorem`); `OneTunnelTheorem`;
  `PromiseKeptTheorem`.  None of them is inductive alone.  `IInv` adds `Locks` (a
  lock names a thread exactly while that thread is in a stage that holds it),
  `HandOf` (what a stage has in hand, and that nothing is registered while a child
  is started or ended), `Sessions` (a registered attempt is ready or its maker
  still waits), `Fresh` and `Closing`.  One lemma per action keeps it;
  `OneHolder` derives `OneTunnel` from it.  `NobodyWaitsHoldingTheorem` and
  `CallsGoOnwardTheorem`: who waits for a lock holds none, and no step of a call
  leads back, so that neither a cycle of waits nor an endless reconnect keeps a
  call from its end.

The type invariants of these modules are proved, so the runs do not repeat them.

Every safety invariant and action property of the passing runs is the statement
of a theorem.  Only model-checked are the liveness properties (`TurnEnds`,
`CallEnds`, `Consumed`, `DueRuns`, `EveryRequestServed`, `EndsWell`,
`UpdatesServed`), because ENABLED, and with it fairness, is beyond the proof
system.  For four of them theorems prove the half that is safety:
`RunGoesForwardTheorem` for `TurnEnds`, `CallGoesForwardTheorem` for `CallEnds` of
a tool call, `CallsGoOnwardTheorem` and `NobodyWaitsHoldingTheorem` for `CallEnds`
of a VPN call (a part of `EndsWell`), and the last three of `WebServerProofs` for
`EveryRequestServed`.  That a step is enabled until then, and that
fairness takes it, is what the runs add.

## 5. Plan

Done: the agent turn, the review gate over its ledger, tool calls under the
configured policy, the scheduler and its expressions, the server, the VPN
runner, the channels, failover and adapters, images; proofs of the type
invariants and of all safety properties of these.

Left, in this order:

1. Measures for the other liveness properties: the operations of `MemoryReview`
   and their repair, the due jobs of `CronScheduler`, the updates of the channels.
2. `AgentTurn` with `GuardedTools` as the refinement of its call step.
3. `SpanStore` (the buffer that threads share) and `AuditLog` (the hash chain
   with its cached head).
4. The trimming of session history, against its definition.

## 6. Not modelled

- Text: prompts, formatting, regular expressions of the guards and result
  filters, how commands and SQL are parsed (what is decided from their parts is
  in `PolicyGate`), checksums and pixels of images, the HTML page.
- Conversions without state: request bodies of the adapters, configuration
  models, console data, the complexity router.
- Input and output: command line, set-up, doctor, evaluation.
- Stores with one statement or file operation per call: tasks, memory store,
  skills, secrets; requests without state: search, HTTP, SSH, databases.
- Outside: the model's answers, the tools' effects, the containers and the
  operating system, taken as any answer.
- Not a dependency: the `croniter` path of the scheduler.
- Not wired into the program: AuditLog, retention, TimeoutApprover, RpcSession,
  SkillReviewGate.  (PolicyEngine is not wired either; its
  docstring announces it as the replacement of BasicGate behind the same
  interface, so it is a second backend of `PolicyGate`.)

`components` in `PROJECT.json` gives the reason for each.
