----------------------------- MODULE PolicyGate -----------------------------
(***************************************************************************)
(* How the policy judges a call: the immutable core (policy/immutable.py)  *)
(* before BasicGate (security/basic_gate.py) or before the rules of        *)
(* PolicyEngine (policy/engine.py), with the guards of commands            *)
(* (security/cmdguard.py, denylist.py) and of SQL (tools/db/sqlguard.py).  *)
(*                                                                         *)
(* A call has a tool and a target: the host and command of exec and        *)
(* ssh_exec, the host of log_read, the profile and action of vpn, a kind   *)
(* of path, an SQL text.                                                   *)
(***************************************************************************)
EXTENDS Integers, Sequences, FiniteSets

-----------------------------------------------------------------------------
(* Commands.  What the shell operators, $(...), and sh -c "..." separate   *)
(* and nest are the parts of a command: how deep a part is nested, what it *)
(* runs once wrappers are taken off, where its output is redirected, and   *)
(* whether denylist's regular expression sees a word of its own in it.     *)

Part == [depth : Nat, head : {"read", "delete", "broken", "other"},
         writes : {"nowhere", "scratch", "file"}, listed : BOOLEAN]
MaxDepth == 6

\* _contains_delete: nested too deep, or not to be parsed, counts as a deletion.
ContainsDelete(cmd) ==
  \E p \in cmd.parts : p.depth > MaxDepth \/ p.head \in {"delete", "broken"} \/ p.writes = "file"

\* _is_readonly looks at the command as it is, wrappers and all, and wants no
\* redirection.
IsReadonly(cmd) == \A p \in cmd.parts : p.depth = 0 => p.head = "read" /\ p.writes = "nowhere"

CmdClass(cmd, deploy) ==
  IF ContainsDelete(cmd) THEN "DELETE_FILE"
  ELSE IF cmd = deploy THEN "DEPLOY"
  ELSE IF IsReadonly(cmd) THEN "READONLY"
  ELSE "OTHER"

\* denylist.check_exec
Denylisted(cmd) == \E p \in cmd.parts : p.listed

GateSsh(cmd, host) ==
  LET class == CmdClass(cmd, host.deploy) IN
  CASE class = "READONLY" -> IF host.vpn THEN "need_approval" ELSE "allow"
    [] class = "DEPLOY" /\ host.tier # "restricted" -> "need_approval"
    [] OTHER -> "deny"

-----------------------------------------------------------------------------
(* SQL.  A text is known by what each dialect's grammar makes of it (parse,*)
(* by sqlglot) once the EXPLAINs it begins with are taken off: a sequence  *)
(* of statements, none if there are none or it cannot be parsed.  Of a     *)
(* statement's tree count the root and which of the nodes that change      *)
(* something it holds, at any depth.  The comments /*! ... */, which MySQL *)
(* executes, are in no tree.                                               *)

Driver == {"postgres", "mysql", "sqlserver", "sqlite"}
Dialect == {"postgres", "mysql", "tsql", "sqlite"}
DialectOf(driver) == IF driver = "sqlserver" THEN "tsql" ELSE driver

\* SHOW, DESC and DESCRIBE are commands where the grammar has no node for them.
AllowedRoots == {"select", "union", "with", "show", "describe", "pragma"}
Root == AllowedRoots \cup {"describing command", "other command", "other"}
Statement == [root : Root, holds : SUBSET {"write", "select into", "call"}]

HasWrite(statement) == statement.holds # {}

OneThatReads(statements) ==
  /\ Len(statements) = 1
  /\ \/ statements[1].root = "describing command"
     \/ ~HasWrite(statements[1]) /\ statements[1].root \in AllowedRoots

\* EXPLAIN is judged by what it explains, as EXPLAIN ANALYZE executes it.
CommentsAreComments(sql, dialect) ==                           \* faulty variant
  IF OneThatReads(sql.parse[dialect]) THEN "allow" ELSE "deny"
ClassifySql(sql, dialect) ==
  IF ~sql.runsComment /\ OneThatReads(sql.parse[dialect]) THEN "allow" ELSE "deny"

\* The gate knows the driver only if the profile is configured; otherwise every
\* dialect has to agree.
ClassifyDbQuery(sql) ==
  IF sql.driver \in Driver THEN ClassifySql(sql, DialectOf(sql.driver))
    ELSE IF \A d \in Dialect : ClassifySql(sql, d) = "allow" THEN "allow" ELSE "deny"

-----------------------------------------------------------------------------
(* The layers: each has a verdict or passes the call on.                   *)

\* ImmutableCore.check
Immutable(c) ==
  CASE c.tool \in {"exec", "ssh_exec"} ->
         IF ContainsDelete(c.cmd) \/ Denylisted(c.cmd) \/ c.cmd.names THEN "deny" ELSE "pass"
    [] c.tool = "db_query" -> IF ClassifyDbQuery(c.sql) = "allow" THEN "pass" ELSE "deny"
    [] c.tool = "write_file" -> IF c.path = "protected" THEN "deny" ELSE "pass"
    [] OTHER -> "pass"

Hardline(c) ==
  CASE c.tool \in {"exec", "ssh_exec"} -> IF Denylisted(c.cmd) THEN "deny" ELSE "pass"
    [] c.tool \in {"read_file", "write_file"} -> IF c.path = "sensitive" THEN "deny" ELSE "pass"
    [] OTHER -> "pass"

\* BasicGate._gate_ssh, _gate_log_read and _gate_vpn
NoDialBehind(c, hosts) == "allow"                              \* faulty variant
GateLogRead(c, hosts) == IF hosts[c.host].vpn THEN "need_approval" ELSE "allow"

Remote(c, hosts, profiles) ==
  CASE c.tool \in {"ssh_exec", "log_read"} /\ c.host \notin DOMAIN hosts -> "deny"
    [] c.tool = "ssh_exec" /\ c.host \in DOMAIN hosts -> GateSsh(c.cmd, hosts[c.host])
    [] c.tool = "log_read" /\ c.host \in DOMAIN hosts -> GateLogRead(c, hosts)
    [] c.tool = "vpn" ->
         IF c.profile \notin profiles \/ c.action \notin {"connect", "disconnect", "status"}
              \/ c.extra
           THEN "deny"
           ELSE IF c.action = "status" THEN "allow" ELSE "need_approval"
    [] OTHER -> "pass"

Hits(rules, c) == {i \in DOMAIN rules : rules[i].tool \in {c.tool, "*"} /\ c \in rules[i].calls}

\* The allowlist is searched in the order it is written in; its rules cannot deny.
First(rules, c) ==
  LET hits == Hits(rules, c) IN
  IF hits = {} THEN "deny" ELSE rules[CHOOSE i \in hits : \A j \in hits : i <= j].effect

Or(verdict, next) == IF verdict # "pass" THEN verdict ELSE next

BasicGate(c, p) == Or(Hardline(c), Or(Remote(c, p.hosts, p.profiles), First(p.rules, c)))

\* The engine sorts its rules by falling priority and keeps the order of equal ones.
PolicyEngine(c, p) ==
  LET hits == Hits(p.rules, c)
      Before(i, j) == p.rules[i].priority > p.rules[j].priority
                        \/ (p.rules[i].priority = p.rules[j].priority /\ i <= j)
      effect == p.rules[CHOOSE i \in hits : \A j \in hits : Before(i, j)].effect
  IN CASE hits = {} \/ effect = "deny" -> "deny"
       [] hits # {} /\ effect = "approve" -> "need_approval"
       [] OTHER -> "allow"                                      \* allow, redact

Backend(c, p) == IF p.backend = "basic" THEN BasicGate(c, p) ELSE PolicyEngine(c, p)

\* _ImmutableFirstGate
Evaluate(c, p) == Or(Immutable(c), Backend(c, p))

=============================================================================
