--------------------------- MODULE ToolExecution ---------------------------
(***************************************************************************)
(* A tool call on its way through execute_tool (tools/wiring.py): toolset, *)
(* policy gate, operator approval (approvals.py), PreToolUse hooks         *)
(* (hooks/runner.py), a second gate and approval for the arguments they    *)
(* change, the tool, the output filters, PostToolUse hooks and the filters *)
(* again.  A turn makes its calls one after the other.                     *)
(*                                                                         *)
(* The turn waits for an approval in its own thread; any number of browser *)
(* tabs answer it from HTTP threads through resolve, which is atomic under *)
(* the center's lock.  Waking up, reading the answer and withdrawing the   *)
(* request are separate steps of the waiter.                               *)
(***************************************************************************)
EXTENDS Integers

CONSTANTS
  Args,          \* argument values of a call (the tool's name included)
  NoArgs,
  ToolOf,        \* the tool of a call
  Untrusted,     \* tools whose results come from outside
  NHooks         \* hooks registered for both events, in order

ASSUME ToolExecutionAssumption == NoArgs \notin Args /\ NHooks \in Nat

\* What the filters look for in a text: something secret, words that lure the model.
Text == SUBSET {"secret", "lure"}

VARIABLES
  gate,          \* what the policy says of each value; an exception counts as deny
  toolset,       \* values whose tool the caller may use
  enforcing,     \* hooks marked enforcing
  attended,      \* TRUE: an approver is set
  pc,            \* where the call is
  round,         \* 1: as the model made it, 2: as the hooks changed it
  args,          \* arguments execute_tool holds
  hooked,        \* arguments the hooks made, or NoArgs
  hook,          \* hook to run next
  req,           \* the entry of ApprovalCenter._pending, or NoReq
  awake,         \* what event.wait returned
  granted,       \* what request returns
  raw, out,      \* the text the hooks made / that execute_tool holds or returned
  ret,           \* what the call returned: a denial, a result, an exception
  orig,          \* history: arguments the call came with
  yes,           \* history: values whose request was answered yes during this call
  refused,       \* history: a hook denied, or an enforcing one failed
  effect         \* history: the value the tool ran with

config == <<gate, toolset, enforcing, attended>>
place == <<pc, round, args>>
hooks == <<hooked, hook>>
approval == <<req, awake, granted>>
text == <<raw, out, ret>>
told == yes
past == <<orig, refused, effect>>
vars == <<config, place, hooks, approval, text, told, past>>

Verdict == {"allow", "deny", "need_approval"}
Request == [args : Args \cup {NoArgs}, event : BOOLEAN, approved : BOOLEAN]
NoReq == [args |-> NoArgs, event |-> FALSE, approved |-> FALSE]

Init ==
  /\ gate \in [Args -> Verdict] /\ toolset \in SUBSET Args
  /\ enforcing \in SUBSET (1..NHooks) /\ attended \in BOOLEAN
  /\ pc = "done" /\ round = 1 /\ args = NoArgs
  /\ hooked = NoArgs /\ hook = 1
  /\ req = NoReq /\ awake = FALSE /\ granted = FALSE
  /\ raw = {} /\ out = {} /\ ret = "none"
  /\ orig = NoArgs /\ yes = {} /\ refused = FALSE /\ effect = NoArgs

-----------------------------------------------------------------------------
(* The gate and the approval, for the call as it is in this round.         *)

AfterGate == IF round = 1 THEN "pre" ELSE "run"

\* return ToolResult.error("[DENIED] ..."), with the reason as it is: this text does
\* not pass the filters.
Denied(reason) == pc' = "done" /\ ret' = "denied" /\ out' = reason

\* The reasons of toolset, gate and approval are fixed, or quote the call.
OwnWords == {}

AnyTool(a) == TRUE                                             \* faulty variant
InToolset(a) == a \in toolset

\* execute_tool is called; a tool outside the toolset is refused at once.
BeginCall(a) ==
  /\ pc = "done"
  /\ IF InToolset(a) THEN pc' = "gate" /\ ret' = "none" /\ out' = {} ELSE Denied(OwnWords)
  /\ round' = 1 /\ args' = a /\ hooked' = NoArgs /\ hook' = 1
  /\ raw' = {}
  /\ orig' = a /\ yes' = {} /\ refused' = FALSE /\ effect' = NoArgs
  /\ UNCHANGED <<config, approval>>

GateRefuses ==
  /\ pc = "gate"
  /\ gate[args] = "deny" \/ (gate[args] = "need_approval" /\ ~attended)
  /\ Denied(OwnWords)
  /\ UNCHANGED <<config, round, args, hooks, approval, raw, told, past>>

GateAllows ==
  /\ pc = "gate" /\ gate[args] = "allow"
  /\ pc' = AfterGate
  /\ UNCHANGED <<config, round, args, hooks, approval, text, told, past>>

\* ApprovalCenter.request registers the whole of the arguments (what list_pending makes
\* of them for the screen is a read).
Ask ==
  /\ pc = "gate" /\ gate[args] = "need_approval" /\ attended
  /\ req' = [NoReq EXCEPT !.args = args]
  /\ pc' = "wait"
  /\ UNCHANGED <<config, round, args, hooks, awake, granted, text, told, past>>

\* resolve: a tab answers, by the request's id, while the request is registered.
Resolve(answer) ==
  /\ req # NoReq
  /\ req' = [req EXCEPT !.event = TRUE, !.approved = answer]
  /\ yes' = IF answer THEN yes \cup {req.args} ELSE yes
  /\ UNCHANGED <<config, place, hooks, awake, granted, text, past>>

\* event.wait returns: with TRUE once the event is set, with FALSE at the timeout.
WaitsForEver == req.event                                      \* faulty variant
WaitEnds == TRUE

WaitReturns ==
  /\ pc = "wait" /\ WaitEnds
  /\ awake' = req.event /\ pc' = "read"
  /\ UNCHANGED <<config, round, args, hooks, req, granted, text, told, past>>

Answer == awake /\ req.approved

ReadAnswer ==
  /\ pc = "read"
  /\ granted' = Answer /\ pc' = "pop"
  /\ UNCHANGED <<config, round, args, hooks, req, awake, text, told, past>>

PopRequest ==
  /\ pc = "pop"
  /\ req' = NoReq
  /\ IF granted THEN pc' = AfterGate /\ UNCHANGED <<ret, out>> ELSE Denied(OwnWords)
  /\ UNCHANGED <<config, round, args, hooks, awake, granted, raw, told, past>>

-----------------------------------------------------------------------------
(* Hooks: each continues, changes what it was given, denies, or fails      *)
(* (an exception, or its timeout).                                         *)

Stops(h, outcome) == outcome = "deny" \/ (outcome = "fail" /\ h \in enforcing)

\* history: a refusal by the hooks' contract
Refusals(h) == IF h \in enforcing THEN {"deny", "fail"} ELSE {"deny"}

\* The reason of a denial, or the text of an exception, is the hook's own.
PreHookStops(outcome, t) ==
  /\ pc = "pre" /\ hook <= NHooks /\ Stops(hook, outcome)
  /\ Denied(t) /\ refused' = (refused \/ outcome \in Refusals(hook))
  /\ UNCHANGED <<config, round, args, hooks, approval, raw, told, orig, effect>>

\* A hook changes the arguments, not the tool.
PreHookGoesOn(outcome, a) ==
  /\ pc = "pre" /\ hook <= NHooks /\ ~Stops(hook, outcome)
  /\ hook' = hook + 1
  /\ IF outcome = "mutate" THEN ToolOf[a] = ToolOf[args] /\ hooked' = a
                           ELSE a = args /\ UNCHANGED hooked
  /\ refused' = (refused \/ outcome \in Refusals(hook))
  /\ UNCHANGED <<config, place, approval, text, told, orig, effect>>

\* Arguments that a hook returned go through the gate and the approval again.
NeverAgain == FALSE                                            \* faulty variant
Again == hooked # NoArgs

PreHooksEnd ==
  /\ pc = "pre" /\ hook > NHooks
  /\ args' = IF hooked # NoArgs THEN hooked ELSE args
  /\ IF Again THEN pc' = "gate" /\ round' = 2 ELSE pc' = "run" /\ UNCHANGED round
  /\ hook' = 1
  /\ UNCHANGED <<config, hooked, approval, text, told, past>>

\* filter_apply: what is secret is redacted; in a result from outside a lure has the
\* whole text replaced.
Filtered(t) ==
  IF "lure" \in t /\ ToolOf[args] \in Untrusted THEN {} ELSE t \ {"secret"}

\* registry.get, validate and run, then the filters.  A tool that rejects its
\* arguments has no effect, and its error text takes the same way.
RunTool(t, rejects) ==
  /\ pc = "run"
  /\ pc' = "post" /\ effect' = IF rejects THEN NoArgs ELSE args
  /\ out' = Filtered(t) /\ raw' = Filtered(t)
  /\ UNCHANGED <<config, round, args, hooks, approval, ret, told, orig, refused>>

\* Any other exception of the tool leaves execute_tool.
ToolRaises(ran) ==
  /\ pc = "run"
  /\ pc' = "done" /\ ret' = "raised" /\ effect' = IF ran THEN args ELSE NoArgs
  /\ UNCHANGED <<config, round, args, hooks, approval, raw, out, told, orig, refused>>

\* A hook that stops the runner takes the changes of the hooks before it along.
PostHook(outcome, t) ==
  /\ pc = "post" /\ hook <= NHooks
  /\ IF Stops(hook, outcome)
       THEN hook' = NHooks + 1 /\ raw' = out
       ELSE hook' = hook + 1 /\ raw' = IF outcome = "mutate" THEN t ELSE raw
  /\ refused' = (refused \/ outcome \in Refusals(hook))
  /\ UNCHANGED <<config, place, hooked, approval, out, ret, told, orig, effect>>

\* The filters again, on what the hooks made of the result.
KeepText(t) == t                                               \* faulty variant
Refiltered(t) == Filtered(t)

ReturnResult ==
  /\ pc = "post" /\ hook > NHooks
  /\ pc' = "done" /\ out' = Refiltered(raw) /\ ret' = "result"
  /\ UNCHANGED <<config, round, args, hooks, approval, raw, told, past>>

Outcome == {"continue", "mutate", "deny", "fail"}

Advance ==
  \/ GateRefuses \/ GateAllows \/ Ask \/ WaitReturns \/ ReadAnswer \/ PopRequest
  \/ \E o \in Outcome, t \in Text : PreHookStops(o, t)
  \/ \E o \in Outcome, a \in Args : PreHookGoesOn(o, a)
  \/ PreHooksEnd
  \/ \E t \in Text, rejects \in BOOLEAN : RunTool(t, rejects)
  \/ \E ran \in BOOLEAN : ToolRaises(ran)
  \/ \E o \in Outcome, t \in Text : PostHook(o, t)
  \/ ReturnResult

Next ==
  \/ \E a \in Args : BeginCall(a)
  \/ \E answer \in BOOLEAN : Resolve(answer)
  \/ Advance

Spec == Init /\ [][Next]_vars

\* The turn's event loop and its timers go on; nobody has to answer.
FairSpec == Spec /\ WF_vars(Advance)

-----------------------------------------------------------------------------
\* The call, the request and the history have the shape the code gives them.
TypeOK ==
  /\ gate \in [Args -> Verdict] /\ toolset \subseteq Args
  /\ enforcing \subseteq 1..NHooks /\ attended \in BOOLEAN
  /\ pc \in {"done", "gate", "wait", "read", "pop", "pre", "run", "post"}
  /\ round \in {1, 2} /\ args \in Args \cup {NoArgs}
  /\ hooked \in Args \cup {NoArgs} /\ hook \in 1..(NHooks + 1)
  /\ req \in Request /\ awake \in BOOLEAN /\ granted \in BOOLEAN
  /\ raw \in Text /\ out \in Text /\ ret \in {"none", "denied", "result", "raised"}
  /\ orig \in Args \cup {NoArgs} /\ yes \subseteq Args
  /\ refused \in BOOLEAN /\ effect \in Args \cup {NoArgs}

\* The tool only runs with arguments the gate allows outright, or whose own request,
\* made in this very call, an operator answered with yes, whatever hooks make of the
\* call and however answers and timeouts interleave: a yes to the call as the model
\* made it does not carry over to what hooks made of it.  (It is the request that is
\* answered: of long arguments the operator sees the first 300 characters.)
RunsOnlyCleared == effect \in Args => gate[effect] = "allow" \/ effect \in yes

\* No hook reopens what the gate denied, or what is outside the caller's toolset.
DenyIsFinal == effect \in Args => orig \in toolset /\ gate[orig] # "deny"

\* A PreToolUse hook that denies, or an enforcing one that fails, stops the call
\* before the tool runs; and an answer that says denied means that nothing ran.
HooksEnforce ==
  /\ pc \in {"gate", "wait", "read", "pop", "pre", "run"} => ~refused
  /\ ret = "denied" => effect = NoArgs

\* A refusal by toolset, gate or hook is final.
RefusalIsFinal == DenyIsFinal /\ HooksEnforce

Clean(t) == "secret" \notin t /\ ("lure" \in t => ToolOf[args] \notin Untrusted)

\* What PostToolUse hooks are handed, and what execute_tool returns, is free of what the
\* filters look for, whatever the tool and the hooks write.  The one text that gets by
\* is the reason of a PreToolUse hook that refuses.
ReturnsFiltered == pc \in {"post", "done"} /\ ~Clean(out) => ret = "denied" /\ refused

\* A call ends although nobody answers it.
CallEnds == pc # "done" ~> pc = "done"

=============================================================================
