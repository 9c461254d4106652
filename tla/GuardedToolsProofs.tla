------------------------- MODULE GuardedToolsProofs -------------------------
(***************************************************************************)
(* ToolExecution: for every policy, toolset, number and behaviour of       *)
(* hooks, and every interleaving of answers with the waiting call: the tool*)
(* runs only with cleared arguments (RunsOnlyCleared), never after a deny  *)
(* of the original call (DenyIsFinal), and never after a hook refused it   *)
(* (HooksEnforce); what is returned passed the filters after the last hook,*)
(* but for the reason of a hook that refuses (ReturnsFiltered); and a call *)
(* goes forward (CallGoesForward).                                         *)
(* GuardedTools: for every configured policy, whatever hooks make of a call*)
(* and operators answer: what the immutable core forbids never runs, and   *)
(* nothing dials a VPN that the operator did not approve in the same call  *)
(* (PolicyHolds).                                                          *)
(***************************************************************************)
EXTENDS GuardedTools, TLAPS

-----------------------------------------------------------------------------
(* The inductive invariant.                                                *)

Cleared(a) == gate[a] = "allow" \/ a \in yes

Waiting == pc \in {"wait", "read", "pop"}

\* The registered request keeps what the call holds, and what it carries is what
\* resolve was told.
RequestInv ==
  /\ pc # "done" => args \in Args
  /\ Waiting => req.args = args
  /\ ~Waiting => req = NoReq
  /\ req.approved => req.args \in yes
  /\ pc = "pop" /\ granted => args \in yes

\* What has been judged so far.
JudgedInv ==
  /\ pc \in {"pre", "run"} => Cleared(args)
  /\ effect \in Args => Cleared(effect)
  /\ pc = "gate" => effect = NoArgs

\* The original call passed the toolset and the gate before anything else.
OriginInv ==
  /\ pc # "done" => orig \in toolset
  /\ pc # "done" /\ round = 1 => args = orig
  /\ pc # "done" /\ (pc # "gate" \/ round = 2) => gate[orig] # "deny"
  /\ pc = "pre" => round = 1
  /\ effect \in Args => orig \in toolset /\ gate[orig] # "deny"

\* Nothing ran, and no hook refused, before the tool's turn.
OrderInv ==
  /\ pc \in {"gate", "wait", "read", "pop", "pre", "run"} => ~refused /\ effect = NoArgs
  /\ ret = "denied" => pc = "done" /\ effect = NoArgs

Inv == TypeOK /\ RequestInv /\ JudgedInv /\ OriginInv /\ OrderInv

-----------------------------------------------------------------------------
LEMMA InitInv == Init => Inv
<1> SUFFICES ASSUME Init PROVE Inv
  OBVIOUS
<1>1. TypeOK
  <2>0. raw \in Text /\ out \in Text
    BY DEF Init, Text
  <2>1. req \in Request
    BY DEF Init, Request, NoReq
  <2>2. hook \in 1..(NHooks + 1)
    BY ToolExecutionAssumption DEF Init
  <2>. QED BY <2>0, <2>1, <2>2 DEF Init, TypeOK
<1>2. RequestInv /\ JudgedInv /\ OriginInv /\ OrderInv
  BY ToolExecutionAssumption DEF Init, RequestInv, JudgedInv, OriginInv, OrderInv, Waiting, NoReq
<1>. QED BY <1>1, <1>2 DEF Inv

\* Filters make a text of a text, free of what they look for.
LEMMA FilteredType == \A t \in Text : Filtered(t) \in Text /\ Clean(Filtered(t))
BY DEF Filtered, Text, Clean

LEMMA TypeStep == Inv /\ [Next]_vars => TypeOK'
<1> SUFFICES ASSUME Inv, [Next]_vars PROVE TypeOK'
  OBVIOUS
<1>t. TypeOK /\ RequestInv
  BY DEF Inv
<1> USE DEF TypeOK, config, place, hooks, approval, text, told, past
<1>1. ASSUME NEW a \in Args, BeginCall(a) PROVE TypeOK'
  <2>1. hook' \in 1..(NHooks + 1)
    BY <1>1, ToolExecutionAssumption DEF BeginCall
  <2>2. pc' \in {"gate", "done"} /\ ret' \in {"none", "denied"} /\ out' = {} /\ raw' = {}
    BY <1>1 DEF BeginCall, Denied, OwnWords
  <2>. QED BY <1>1, <1>t, <2>1, <2>2 DEF BeginCall, Text
<1>2. ASSUME NEW answer \in BOOLEAN, Resolve(answer) PROVE TypeOK'
  <2>1. req' \in Request
    BY <1>2, <1>t DEF Resolve, Request
  <2>2. req.args \in Args
    BY <1>2, <1>t DEF Resolve, RequestInv, Waiting
  <2>. QED BY <1>2, <1>t, <2>1, <2>2 DEF Resolve
<1>3. CASE GateRefuses
  BY <1>3, <1>t DEF GateRefuses, Denied, OwnWords, Text
<1>4. CASE GateAllows
  BY <1>4, <1>t DEF GateAllows, AfterGate
<1>5. CASE Ask
  <2>1. req' \in Request
    BY <1>5, <1>t DEF Ask, NoReq, Request
  <2>. QED BY <1>5, <1>t, <2>1 DEF Ask
<1>6. CASE WaitReturns
  BY <1>6, <1>t DEF WaitReturns, Request
<1>7. CASE ReadAnswer
  BY <1>7, <1>t DEF ReadAnswer, Answer, Request
<1>8. CASE PopRequest
  <2>1. req' \in Request
    BY <1>8 DEF PopRequest, NoReq, Request
  <2>. QED BY <1>8, <1>t, <2>1 DEF PopRequest, Denied, OwnWords, Text, AfterGate
<1>9. CASE \/ \E o \in Outcome, t \in Text : PreHookStops(o, t)
           \/ \E o \in Outcome, a \in Args : PreHookGoesOn(o, a)
  <2>1. ASSUME NEW o \in Outcome, NEW t \in Text, PreHookStops(o, t) PROVE TypeOK'
    <3>1. refused' \in BOOLEAN
      BY <2>1, <1>t DEF PreHookStops
    <3>. QED BY <2>1, <1>t, <3>1 DEF PreHookStops, Denied
  <2>2. ASSUME NEW o \in Outcome, NEW a \in Args, PreHookGoesOn(o, a) PROVE TypeOK'
    <3>1. hook' \in 1..(NHooks + 1)
      BY <2>2, <1>t, ToolExecutionAssumption DEF PreHookGoesOn
    <3>2. refused' \in BOOLEAN /\ hooked' \in Args \cup {NoArgs}
      BY <2>2, <1>t DEF PreHookGoesOn
    <3>. QED BY <2>2, <1>t, <3>1, <3>2 DEF PreHookGoesOn
  <2>. QED BY <1>9, <2>1, <2>2
<1>10. CASE PreHooksEnd
  BY <1>10, <1>t, ToolExecutionAssumption DEF PreHooksEnd
<1>11. ASSUME NEW t \in Text, NEW rejects \in BOOLEAN, RunTool(t, rejects) PROVE TypeOK'
  BY <1>11, <1>t, FilteredType DEF RunTool
<1>12. ASSUME NEW ran \in BOOLEAN, ToolRaises(ran) PROVE TypeOK'
  BY <1>12, <1>t DEF ToolRaises
<1>13. ASSUME NEW o \in Outcome, NEW t \in Text, PostHook(o, t) PROVE TypeOK'
  <2>1. hook' \in 1..(NHooks + 1)
    BY <1>13, <1>t, ToolExecutionAssumption DEF PostHook
  <2>2. refused' \in BOOLEAN
    BY <1>13, <1>t DEF PostHook
  <2>3. raw' \in Text
    BY <1>13, <1>t DEF PostHook
  <2>. QED BY <1>13, <1>t, <2>1, <2>2, <2>3 DEF PostHook
<1>14. CASE ReturnResult
  BY <1>14, <1>t, FilteredType DEF ReturnResult, Refiltered
<1>15. CASE UNCHANGED vars
  BY <1>15, <1>t DEF vars
<1>. QED
  BY <1>1, <1>2, <1>3, <1>4, <1>5, <1>6, <1>7, <1>8, <1>9, <1>10, <1>11, <1>12, <1>13, <1>14,
     <1>15 DEF Next, Advance

LEMMA InvStep == Inv /\ [Next]_vars => (RequestInv /\ JudgedInv /\ OriginInv /\ OrderInv)'
<1> DEFINE Rest == RequestInv /\ JudgedInv /\ OriginInv /\ OrderInv
<1> SUFFICES ASSUME Inv, [Next]_vars PROVE Rest'
  OBVIOUS
<1> USE ToolExecutionAssumption
    DEF Inv, RequestInv, JudgedInv, OriginInv, OrderInv, Cleared, Waiting,
        config, place, hooks, approval, text, told, past
<1>t. TypeOK
  OBVIOUS
<1>1. ASSUME NEW a \in Args, BeginCall(a) PROVE Rest'
  <2>1. /\ req' = req /\ req = NoReq /\ ~req.approved
        /\ args' = a /\ orig' = a /\ round' = 1 /\ effect' = NoArgs /\ refused' = FALSE
        /\ yes' = {} /\ UNCHANGED <<gate, toolset>>
    BY <1>1 DEF BeginCall, NoReq
  <2>2. (a \in toolset /\ pc' = "gate" /\ ret' = "none") \/ pc' = "done"
    BY <1>1 DEF BeginCall, Denied, InToolset
  <2>. QED BY <2>1, <2>2
<1>2. ASSUME NEW answer \in BOOLEAN, Resolve(answer) PROVE Rest'
  <2>1. /\ Waiting /\ req \in Request
        /\ yes' = IF answer THEN yes \cup {req.args} ELSE yes
        /\ UNCHANGED <<gate, toolset, pc, round, args, granted, orig, refused, effect, ret>>
    BY <1>2, <1>t DEF Resolve, TypeOK
  <2>2. req'.args = req.args /\ req'.approved = answer
    BY <1>2, <2>1 DEF Resolve, Request
  <2>. QED BY <2>1, <2>2
<1>3. CASE GateRefuses
  BY <1>3 DEF GateRefuses, Denied
<1>4. CASE GateAllows
  BY <1>4, <1>t DEF GateAllows, AfterGate, TypeOK
<1>5. CASE Ask
  <2>1. req'.args = args /\ ~req'.approved
    BY <1>5 DEF Ask, NoReq
  <2>2. /\ pc = "gate" /\ pc' = "wait" /\ gate[args] = "need_approval"
        /\ UNCHANGED <<gate, toolset, args, round, orig, yes, refused, effect, ret, granted>>
    BY <1>5 DEF Ask
  <2>3. round \in {1, 2}
    BY <1>t DEF TypeOK
  <2>. QED BY <2>1, <2>2, <2>3
<1>6. CASE WaitReturns
  BY <1>6 DEF WaitReturns
<1>7. CASE ReadAnswer
  <2>1. granted' => args \in yes
    BY <1>7 DEF ReadAnswer, Answer
  <2>. QED BY <1>7, <2>1 DEF ReadAnswer
<1>8. CASE PopRequest
  <2>1. req' = NoReq /\ ~req'.approved
    BY <1>8 DEF PopRequest, NoReq
  <2>2. CASE granted
    BY <1>8, <1>t, <2>1, <2>2 DEF PopRequest, AfterGate, TypeOK
  <2>3. CASE ~granted
    BY <1>8, <2>1, <2>3 DEF PopRequest, Denied
  <2>. QED BY <2>2, <2>3
<1>9. CASE \/ \E o \in Outcome, t \in Text : PreHookStops(o, t)
           \/ \E o \in Outcome, a \in Args : PreHookGoesOn(o, a)
  <2>1. ASSUME NEW o \in Outcome, NEW t \in Text, PreHookStops(o, t) PROVE Rest'
    BY <2>1 DEF PreHookStops, Denied
  <2>2. ASSUME NEW o \in Outcome, NEW a \in Args, PreHookGoesOn(o, a) PROVE Rest'
    <3>1. o \notin Refusals(hook)
      BY <2>2 DEF PreHookGoesOn, Stops, Refusals
    <3>2. refused' = refused
      BY <2>2, <1>t, <3>1 DEF PreHookGoesOn, TypeOK
    <3>. QED BY <2>2, <3>2 DEF PreHookGoesOn
  <2>. QED BY <1>9, <2>1, <2>2
<1>10. CASE PreHooksEnd
  BY <1>10, <1>t DEF PreHooksEnd, Again, TypeOK
<1>11. ASSUME NEW t \in Text, NEW rejects \in BOOLEAN, RunTool(t, rejects) PROVE Rest'
  <2>1. /\ pc = "run" /\ pc' = "post" /\ effect' \in {args, NoArgs}
        /\ UNCHANGED <<gate, toolset, args, round, req, orig, yes, refused, ret, granted>>
    BY <1>11 DEF RunTool
  <2>. QED BY <2>1
<1>12. ASSUME NEW ran \in BOOLEAN, ToolRaises(ran) PROVE Rest'
  BY <1>12 DEF ToolRaises
<1>13. ASSUME NEW o \in Outcome, NEW t \in Text, PostHook(o, t) PROVE Rest'
  BY <1>13 DEF PostHook
<1>14. CASE ReturnResult
  BY <1>14 DEF ReturnResult
<1>15. CASE UNCHANGED vars
  BY <1>15 DEF vars
<1>. QED
  BY <1>1, <1>2, <1>3, <1>4, <1>5, <1>6, <1>7, <1>8, <1>9, <1>10, <1>11, <1>12, <1>13, <1>14,
     <1>15 DEF Next, Advance

LEMMA Invariant == Spec => []Inv
<1>1. Inv /\ [Next]_vars => Inv'
  BY TypeStep, InvStep DEF Inv
<1>. QED BY InitInv, <1>1, PTL DEF Spec

\* The call, the request and the history keep their types.
THEOREM TypeCorrect == Spec => []TypeOK
<1>1. Inv => TypeOK
  BY DEF Inv
<1>. QED BY <1>1, Invariant, PTL

\* Every effect is of arguments the gate allows, or whose own request was answered
\* yes during the same call.
THEOREM RunsOnlyClearedTheorem == Spec => []RunsOnlyCleared
<1>1. Inv => RunsOnlyCleared
  BY DEF Inv, JudgedInv, Cleared, RunsOnlyCleared
<1>. QED BY <1>1, Invariant, PTL

\* No hook makes a call run that the toolset or the gate refused.
THEOREM DenyIsFinalTheorem == Spec => []DenyIsFinal
<1>1. Inv => DenyIsFinal
  BY DEF Inv, OriginInv, DenyIsFinal
<1>. QED BY <1>1, Invariant, PTL

\* A refusing PreToolUse hook keeps the tool from running, and a denial that is
\* returned means that nothing ran.
THEOREM HooksEnforceTheorem == Spec => []HooksEnforce
<1>1. Inv => HooksEnforce
  BY DEF Inv, OrderInv, HooksEnforce
<1>. QED BY <1>1, Invariant, PTL

\* Toolset, gate and hooks together: what any of them refused does not run.
THEOREM RefusalIsFinalTheorem == Spec => []RefusalIsFinal
<1>1. DenyIsFinal /\ HooksEnforce => RefusalIsFinal
  BY DEF RefusalIsFinal
<1>. QED BY <1>1, DenyIsFinalTheorem, HooksEnforceTheorem, PTL

\* What the hooks are handed is clean from the filters' first pass on, and no text is
\* there before the tool has run unless a hook that refuses left it.
TextInv ==
  /\ pc \in {"gate", "wait", "read", "pop", "pre", "run"} => out = {}
  /\ pc = "post" => Clean(out)
  /\ pc = "done" /\ ~Clean(out) => ret = "denied" /\ refused

LEMMA TextStep == Inv /\ TextInv /\ [Next]_vars => TextInv'
<1> SUFFICES ASSUME Inv, TextInv, [Next]_vars PROVE TextInv'
  OBVIOUS
<1>t. TypeOK
  BY DEF Inv
<1>c. \A t \in Text : UNCHANGED args => Clean(Filtered(t))'
  BY FilteredType DEF Clean, Filtered, Text
<1>e. Clean({}) /\ Clean({})'
  BY DEF Clean
<1> USE DEF TextInv, config, place, hooks, approval, text, told, past
<1>1. ASSUME NEW a \in Args, BeginCall(a) PROVE TextInv'
  <2>1. pc' \in {"gate", "done"} /\ out' = {}
    BY <1>1 DEF BeginCall, Denied, OwnWords
  <2>. QED BY <1>e, <2>1 DEF Clean
<1>2. ASSUME NEW answer \in BOOLEAN, Resolve(answer) PROVE TextInv'
  BY <1>2 DEF Resolve, Clean
<1>3. CASE GateRefuses \/ GateAllows \/ Ask
  <2>1. pc = "gate" /\ pc' \in {"done", "pre", "run", "wait"} /\ out' = {}
    BY <1>3 DEF GateRefuses, GateAllows, Ask, Denied, OwnWords, AfterGate
  <2>. QED BY <2>1 DEF Clean
<1>4. CASE WaitReturns \/ ReadAnswer \/ PopRequest
  <2>1. pc \in {"wait", "read", "pop"} /\ pc' \in {"read", "pop", "done", "pre", "run"} /\ out' = {}
    BY <1>4 DEF WaitReturns, ReadAnswer, PopRequest, Denied, OwnWords, AfterGate
  <2>. QED BY <2>1 DEF Clean
<1>5. ASSUME NEW o \in Outcome, NEW t \in Text, PreHookStops(o, t) PROVE TextInv'
  <2>1. o \in Refusals(hook)
    BY <1>5 DEF PreHookStops, Stops, Refusals
  <2>. QED BY <1>5, <2>1 DEF PreHookStops, Denied
<1>6. ASSUME NEW o \in Outcome, NEW a \in Args, PreHookGoesOn(o, a) PROVE TextInv'
  BY <1>6 DEF PreHookGoesOn
<1>7. CASE PreHooksEnd
  BY <1>7 DEF PreHooksEnd
<1>8. ASSUME NEW t \in Text, NEW rejects \in BOOLEAN, RunTool(t, rejects) PROVE TextInv'
  <2>1. pc' = "post" /\ args' = args /\ out' = Filtered(t) /\ (Clean(Filtered(t)))'
    BY <1>8, <1>c DEF RunTool
  <2>. QED BY <1>8, <2>1, FilteredType DEF RunTool, Clean
<1>9. ASSUME NEW ran \in BOOLEAN, ToolRaises(ran) PROVE TextInv'
  BY <1>9 DEF ToolRaises, Clean
<1>10. ASSUME NEW o \in Outcome, NEW t \in Text, PostHook(o, t) PROVE TextInv'
  BY <1>10 DEF PostHook, Clean
<1>11. CASE ReturnResult
  <2>1. Clean(Filtered(raw)) /\ raw \in Text
    BY <1>t, FilteredType DEF TypeOK
  <2>2. pc' = "done" /\ args' = args /\ out' = Filtered(raw)
    BY <1>11 DEF ReturnResult, Refiltered
  <2>. QED BY <2>1, <2>2 DEF Clean
<1>12. CASE UNCHANGED vars
  BY <1>12 DEF vars, Clean
<1>. QED
  BY <1>1, <1>2, <1>3, <1>4, <1>5, <1>6, <1>7, <1>8, <1>9, <1>10, <1>11, <1>12 DEF Next, Advance

\* No result leaves unfiltered: the tool's own goes through the filters before the
\* hooks see it, and what they make of it goes through them again.  Only the words of
\* a hook that refuses come back as they are.
THEOREM ReturnsFilteredTheorem == Spec => []ReturnsFiltered
<1>1. Init => TextInv
  BY DEF Init, TextInv, Clean
<1>2. Inv /\ TextInv => ReturnsFiltered
  BY DEF TextInv, ReturnsFiltered
<1>. QED BY <1>1, <1>2, TextStep, Invariant, PTL DEF Spec

-----------------------------------------------------------------------------
(* A call goes forward: it is gone through once as the model made it and at   *)
(* most once as the hooks changed it, and hook by hook within a stage.  With  *)
(* the fairness of Advance this is why a call ends when nobody answers it,    *)
(* whatever the number of hooks is.                                           *)

Stage ==
  CASE pc = "gate" -> 7 [] pc = "wait" -> 6 [] pc = "read" -> 5 [] pc = "pop" -> 4
    [] pc = "pre" -> 3 [] pc = "run" -> 2 [] pc = "post" -> 1 [] OTHER -> 0
HooksLeft == NHooks + 1 - hook

Measured == {2 - round, Stage, HooksLeft} \subseteq Nat

Forward ==
  \/ 2 - round' < 2 - round
  \/ round' = round /\ Stage' < Stage
  \/ round' = round /\ Stage' = Stage /\ HooksLeft' < HooksLeft

LEMMA AdvanceForward ==
  ASSUME Inv, Advance
  PROVE  Forward
<1>t. TypeOK /\ (pc = "pre" => round = 1)
  BY DEF Inv, OriginInv
<1>1. CASE GateRefuses \/ GateAllows
  <2>1. pc = "gate" /\ pc' \in {"done", "pre", "run"} /\ round' = round
    BY <1>1 DEF GateRefuses, GateAllows, Denied, AfterGate
  <2>. QED BY <2>1 DEF Forward, Stage
<1>2. CASE Ask \/ WaitReturns \/ ReadAnswer
  <2>1. /\ round' = round
        /\ \/ pc = "gate" /\ pc' = "wait"
           \/ pc = "wait" /\ pc' = "read"
           \/ pc = "read" /\ pc' = "pop"
    BY <1>2 DEF Ask, WaitReturns, ReadAnswer
  <2>. QED BY <2>1 DEF Forward, Stage
<1>3. CASE PopRequest
  <2>1. pc = "pop" /\ pc' \in {"done", "pre", "run"} /\ round' = round
    BY <1>3 DEF PopRequest, Denied, AfterGate
  <2>. QED BY <2>1 DEF Forward, Stage
<1>4. CASE \/ \E o \in Outcome, t \in Text : PreHookStops(o, t)
           \/ \E o \in Outcome, a \in Args : PreHookGoesOn(o, a)
  <2>1. /\ pc = "pre" /\ round' = round
        /\ pc' = "done" \/ (pc' = "pre" /\ hook' = hook + 1)
    BY <1>4 DEF PreHookStops, PreHookGoesOn, Denied, place
  <2>2. HooksLeft' < HooksLeft \/ pc' = "done"
    BY <1>t, <2>1, ToolExecutionAssumption DEF HooksLeft, TypeOK
  <2>. QED BY <2>1, <2>2 DEF Forward, Stage
<1>5. CASE PreHooksEnd
  <2>1. pc = "pre" /\ (round' = 2 \/ (round' = round /\ pc' = "run"))
    BY <1>5 DEF PreHooksEnd
  <2>. QED BY <1>t, <2>1 DEF Forward, Stage
<1>6. CASE \/ \E t \in Text, rejects \in BOOLEAN : RunTool(t, rejects)
           \/ \E ran \in BOOLEAN : ToolRaises(ran)
  <2>1. pc = "run" /\ pc' \in {"post", "done"} /\ round' = round
    BY <1>6 DEF RunTool, ToolRaises
  <2>. QED BY <2>1 DEF Forward, Stage
<1>7. ASSUME NEW o \in Outcome, NEW t \in Text, PostHook(o, t) PROVE Forward
  <2>1. /\ pc = "post" /\ pc' = "post" /\ round' = round /\ hook <= NHooks
        /\ hook' \in {hook + 1, NHooks + 1}
    BY <1>7 DEF PostHook, place
  <2>2. NHooks \in Nat /\ hook \in Nat
    BY <1>t, ToolExecutionAssumption DEF TypeOK
  <2>3. HooksLeft' < HooksLeft
    <3>1. CASE hook' = hook + 1
      BY <2>2, <3>1 DEF HooksLeft
    <3>2. CASE hook' = NHooks + 1
      BY <2>1, <2>2, <3>2 DEF HooksLeft
    <3>. QED BY <2>1, <3>1, <3>2
  <2>. QED BY <2>1, <2>3 DEF Forward, Stage
<1>8. CASE ReturnResult
  <2>1. pc = "post" /\ pc' = "done" /\ round' = round
    BY <1>8 DEF ReturnResult
  <2>. QED BY <2>1 DEF Forward, Stage
<1>. QED BY <1>1, <1>2, <1>3, <1>4, <1>5, <1>6, <1>7, <1>8 DEF Advance

\* The hooks' changes, refused requests and hooks that fail included, a call never
\* comes back to where it was; and answers of the operators do not set it back.
CallGoesForward ==
  [][/\ Advance => Forward
     /\ \A answer \in BOOLEAN : Resolve(answer) => UNCHANGED <<place, hooks>>]_vars

THEOREM CallGoesForwardTheorem == Spec => []Measured /\ CallGoesForward
<1>1. ASSUME Inv PROVE Measured
  <2>1. Stage \in Nat
    BY <1>1 DEF Inv, TypeOK, Stage
  <2>2. round \in {1, 2} /\ hook \in 1..(NHooks + 1)
    BY <1>1 DEF Inv, TypeOK
  <2>. QED BY <2>1, <2>2, ToolExecutionAssumption DEF Measured, HooksLeft
<1>2. ASSUME Inv, [Next]_vars
      PROVE  [/\ Advance => Forward
              /\ \A answer \in BOOLEAN : Resolve(answer) => UNCHANGED <<place, hooks>>]_vars
  BY <1>2, AdvanceForward DEF Resolve
<1>. QED BY <1>1, <1>2, Invariant, PTL DEF Spec, CallGoesForward

-----------------------------------------------------------------------------
(* What the layers decide.                                                 *)

LEMMA OnlyOne == \A i \in 1..1 : i = 1
OBVIOUS

LEMMA WritingIsNotReading ==
  ASSUME NEW statements \in Seq(Statement), NEW i \in 1..Len(statements),
         \/ HasWrite(statements[i]) /\ statements[i].root # "describing command"
         \/ statements[i].root \in {"other command", "other"}
  PROVE  ~OneThatReads(statements)
<1>1. ASSUME Len(statements) = 1 PROVE i = 1
  BY <1>1, OnlyOne, Zenon
<1>2. CASE Len(statements) = 1
  BY <1>1, <1>2 DEF OneThatReads, AllowedRoots
<1>3. CASE Len(statements) # 1
  BY <1>3 DEF OneThatReads
<1>. QED BY <1>2, <1>3

\* What changes anything in the engine of the profile is no single statement that
\* reads, or hides in a comment that the guard refuses.
LEMMA ChangesDenied ==
  ASSUME NEW c \in Args, c.tool = "db_query", c.sql.driver \in Driver \cap c.sql.changes
  PROVE  ClassifyDbQuery(c.sql) = "deny"
<1> DEFINE statements == c.sql.parse[DialectOf(c.sql.driver)]
<1>1. Shows(c.sql, c.sql.driver) /\ statements \in Seq(Statement)
  BY GuardedAssumption
<1>2. c.sql.runsComment \/ ~OneThatReads(statements)
  <2>1. statements = << >> => ~OneThatReads(statements)
    BY DEF OneThatReads
  <2>. QED BY <1>1, <2>1, WritingIsNotReading DEF Shows
<1>. QED BY <1>2 DEF ClassifyDbQuery, ClassifySql

\* The immutable core denies what destroys, before any other layer.
LEMMA DestructiveDenied ==
  ASSUME NEW c \in Args, NEW p, Destructive(c)
  PROVE  Evaluate(c, p) = "deny"
<1>1. Immutable(c) = "deny"
  <2>1. CASE c.tool \in {"exec", "ssh_exec"}
    BY <2>1 DEF Destructive, Immutable, ContainsDelete
  <2>2. CASE c.tool = "db_query"
    BY <2>2, ChangesDenied DEF Destructive, Immutable
  <2>3. CASE c.tool = "write_file"
    BY <2>3 DEF Destructive, Immutable
  <2>4. CASE c.tool \notin {"exec", "ssh_exec", "db_query", "write_file"}
    BY <2>4 DEF Destructive
  <2>. QED BY <2>1, <2>2, <2>3, <2>4
<1>. QED BY <1>1 DEF Evaluate, Or

\* BasicGate allows nothing outright that dials.
LEMMA DialsNotAllowed ==
  ASSUME NEW c, NEW p, p.backend = "basic", Dials(c, p.hosts)
  PROVE  Evaluate(c, p) # "allow"
<1>1. Remote(c, p.hosts, p.profiles) \in {"deny", "need_approval"}
  <2>1. CASE c.tool = "vpn"
    BY <2>1 DEF Dials, Remote
  <2>2. CASE c.tool = "ssh_exec"
    BY <2>2 DEF Dials, Remote, GateSsh
  <2>3. CASE c.tool = "log_read"
    BY <2>3 DEF Dials, Remote, GateLogRead
  <2>. QED BY <2>1, <2>2, <2>3 DEF Dials
<1>2. Hardline(c) \in {"deny", "pass"} /\ Immutable(c) \in {"deny", "pass"}
  BY DEF Hardline, Immutable
<1>. QED BY <1>1, <1>2 DEF Evaluate, Backend, BasicGate, Or

-----------------------------------------------------------------------------
(* The gate stays that of the policy, and the operator is never asked to   *)
(* approve what it denies.                                                 *)

Judged ==
  /\ policy # NoPolicy => gate = GateOf(policy)
  /\ Waiting => gate[args] # "deny"
  /\ \A a \in yes : gate[a] # "deny"

LEMMA JudgedInit == GuardedInit => Judged
BY DEF GuardedInit, Init, Judged, Waiting

LEMMA JudgedStep == Inv /\ Judged /\ [GuardedNext]_gvars => Judged'
<1> SUFFICES ASSUME Inv, Judged, [GuardedNext]_gvars PROVE Judged'
  OBVIOUS
<1>1. RequestInv
  BY DEF Inv
<1> USE <1>1 DEF Judged, RequestInv, Waiting, config, place, hooks, approval, text, told, past
<1>2. policy' = policy
  BY DEF GuardedNext, GuardedAdvance, gvars
<1>3. ASSUME NEW a \in Args, BeginCall(a) PROVE Judged'
  BY <1>2, <1>3 DEF BeginCall, Denied, GateOf
<1>4. ASSUME NEW answer \in BOOLEAN, Resolve(answer) PROVE Judged'
  <2>1. Waiting
    BY <1>4 DEF Resolve
  <2>. QED BY <1>2, <1>4, <2>1 DEF Resolve, GateOf
<1>5. CASE GateRefuses \/ GateAllows
  BY <1>2, <1>5 DEF GateRefuses, GateAllows, Denied, AfterGate, GateOf
<1>6. CASE Ask
  BY <1>2, <1>6 DEF Ask, GateOf
<1>7. CASE WaitReturns \/ ReadAnswer \/ PopRequest
  BY <1>2, <1>7 DEF WaitReturns, ReadAnswer, PopRequest, Denied, AfterGate, GateOf
<1>8. CASE \/ \E o \in Outcome, t \in Text : PreHookStops(o, t)
           \/ \E o \in Outcome, a \in Args : PreHookGoesOn(o, a)
  BY <1>2, <1>8 DEF PreHookStops, PreHookGoesOn, Denied, GateOf
<1>9. CASE PreHooksEnd \/ ReturnResult
  BY <1>2, <1>9 DEF PreHooksEnd, ReturnResult, GateOf
<1>10. CASE \/ \E t \in Text, rejects \in BOOLEAN : RunTool(t, rejects)
            \/ \E ran \in BOOLEAN : ToolRaises(ran)
  BY <1>2, <1>10 DEF RunTool, ToolRaises, GateOf
<1>11. ASSUME NEW o \in Outcome, NEW t \in Text, PostHook(o, t) PROVE Judged'
  BY <1>2, <1>11 DEF PostHook, GateOf
<1>12. CASE UNCHANGED gvars
  BY <1>12 DEF gvars, vars, GateOf
<1>. QED
  BY <1>3, <1>4, <1>5, <1>6, <1>7, <1>8, <1>9, <1>10, <1>11, <1>12 DEF GuardedNext, GuardedAdvance, Advance

LEMMA GuardedImpliesCalls == GuardedSpec => []Inv
<1>1. GuardedInit => Init
  BY DEF GuardedInit
<1>2. [GuardedNext]_gvars => [Next]_vars
  BY DEF GuardedNext, GuardedAdvance, Next, gvars
<1>3. Inv /\ [Next]_vars => Inv'
  BY TypeStep, InvStep DEF Inv
<1>. QED BY <1>1, <1>2, <1>3, InitInv, PTL DEF GuardedSpec

LEMMA JudgedInvariant == GuardedSpec => []Judged
BY JudgedInit, JudgedStep, GuardedImpliesCalls, PTL DEF GuardedSpec

\* For every policy: the immutable core has the last word on destruction, the
\* operator on dialling.
THEOREM PolicyHoldsTheorem == GuardedSpec => []PolicyHolds
<1>1. Inv /\ Judged => PolicyHolds
  <2> SUFFICES ASSUME Inv, Judged, policy # NoPolicy, effect \in Args
               PROVE  /\ ~Destructive(effect)
                      /\ policy.backend = "basic" /\ Dials(effect, policy.hosts) => effect \in yes
    BY DEF PolicyHolds
  <2>1. gate[effect] = Evaluate(effect, policy)
    BY DEF Judged, GateOf
  <2>2. gate[effect] = "allow" \/ effect \in yes
    BY DEF Inv, JudgedInv, Cleared
  <2>3. gate[effect] # "deny"
    BY <2>2 DEF Judged
  <2>4. ~Destructive(effect)
    BY <2>1, <2>3, DestructiveDenied
  <2>5. ASSUME policy.backend = "basic", Dials(effect, policy.hosts) PROVE effect \in yes
    BY <2>1, <2>2, <2>5, DialsNotAllowed
  <2>. QED BY <2>4, <2>5
<1>. QED BY <1>1, GuardedImpliesCalls, JudgedInvariant, PTL

=============================================================================
