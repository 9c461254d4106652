---------------------------- MODULE GuardedTools ----------------------------
(***************************************************************************)
(* Tool calls under a configured policy: ToolExecution with the gate that  *)
(* App builds (PolicyGate), for a parent's calls and for those of a        *)
(* subagent, whose toolset is a part of the parent's (subagent/            *)
(* delegate.py, definition.py).  The calls of ToolExecution under any gate *)
(* are those with policy = NoPolicy.                                       *)
(***************************************************************************)
EXTENDS ToolExecution, PolicyGate

CONSTANTS
  Policy,        \* configurations: backend, rules, hosts, profiles
  Sample,        \* the values an arbitrary gate distinguishes
  Subagents,     \* the toolsets that the files of subagents declare
  NoPolicy

\* The engines that a text makes change data or structures (sql.changes): it shows in
\* the tree that sqlglot makes of the text in the engine's dialect, or stands in a
\* comment that MySQL executes.  Some statement holds a node that changes something,
\* or is none of those that read.  What the functions called in a SELECT do is not
\* counted, nor what a PRAGMA sets.
Shows(sql, driver) ==
  driver \in sql.changes =>
    LET statements == sql.parse[DialectOf(driver)] IN
    \/ sql.runsComment
    \/ statements = << >>
    \/ \E i \in 1..Len(statements) :
         \/ HasWrite(statements[i]) /\ statements[i].root # "describing command"
         \/ statements[i].root \in {"other command", "other"}

ASSUME GuardedAssumption ==
  /\ NoPolicy \notin Policy /\ Sample \subseteq Args
  /\ \A a \in Args : ToolOf[a] = a.tool
  /\ \A a \in Args : a.tool = "db_query" =>
       \A driver \in Driver :
         a.sql.parse[DialectOf(driver)] \in Seq(Statement) /\ Shows(a.sql, driver)

VARIABLE policy

gvars == <<vars, policy>>

Tools == {a.tool : a \in Args}

\* A turn of the parent has every tool; a subagent is loaded only if it declares
\* none but the parent's, and delegate refuses to nest.
Toolsets == {Tools} \cup {declared \in Subagents : declared \subseteq Tools}

\* The gate's verdict depends on the configuration and the call alone.
GateOf(p) == [a \in Args |-> Evaluate(a, p)]

GuardedInit ==
  /\ \/ /\ policy = NoPolicy
        /\ \E g \in [Sample -> Verdict] : gate = [a \in Args |-> IF a \in Sample THEN g[a] ELSE "deny"]
        /\ toolset \in SUBSET Sample
     \/ /\ policy \in Policy /\ gate = GateOf(policy)
        /\ \E tools \in Toolsets : toolset = {a \in Args : a.tool \in tools}
  /\ Init

GuardedAdvance == Advance /\ UNCHANGED policy

GuardedNext ==
  \/ GuardedAdvance
  \/ (\E a \in Args : BeginCall(a)) /\ UNCHANGED policy
  \/ (\E answer \in BOOLEAN : Resolve(answer)) /\ UNCHANGED policy

GuardedSpec == GuardedInit /\ [][GuardedNext]_gvars /\ WF_gvars(GuardedAdvance)

-----------------------------------------------------------------------------
\* What a call would do: to files at any depth of nesting of its command, to the
\* policy's own files, and in the engine of its profile, comments, explained and
\* further statements included.  A profile that is not configured has no engine.
Destructive(c) ==
  CASE c.tool \in {"exec", "ssh_exec"} ->
         c.cmd.names \/ \E p \in c.cmd.parts : p.head = "delete" \/ p.writes = "file"
    [] c.tool = "db_query" -> c.sql.driver \in Driver \cap c.sql.changes
    [] c.tool = "write_file" -> c.path = "protected"
    [] OTHER -> FALSE

Dials(c, hosts) ==
  \/ c.tool = "vpn" /\ c.action # "status"
  \/ c.tool \in {"ssh_exec", "log_read"} /\ c.host \in DOMAIN hosts /\ hosts[c.host].vpn

(* "Immutable core cannot be overridden": whatever the rules allow, hooks  *)
(* rewrite and operators approve, no command that deletes or overwrites    *)
(* files is run, nothing is written to the policy, and no SQL changes data *)
(* or structures.  And nothing that changes the network happens without a  *)
(* yes of the operator to this very call: VPN commands, and commands on    *)
(* hosts behind a VPN, which connect it.                                   *)
PolicyHolds ==
  policy # NoPolicy /\ effect \in Args =>
    /\ ~Destructive(effect)
    /\ policy.backend = "basic" /\ Dials(effect, policy.hosts) => effect \in yes

=============================================================================
