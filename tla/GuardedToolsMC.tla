--------------------------- MODULE GuardedToolsMC ---------------------------
(* GuardedTools for TLC: a call of each sort that the layers tell apart. *)
EXTENDS GuardedTools

P(depth, head, writes, listed) == [depth |-> depth, head |-> head, writes |-> writes, listed |-> listed]
Cmd(parts, names) == [parts |-> parts, names |-> names]

Look == Cmd({P(0, "read", "nowhere", FALSE)}, FALSE)
Deploy == Cmd({P(0, "other", "nowhere", FALSE)}, FALSE)
\* echo $(sh -c "rm x"), cat a > b, and cat with the name of the configuration file.
Nested == Cmd({P(0, "read", "nowhere", FALSE), P(2, "delete", "nowhere", FALSE)}, FALSE)
Overwrite == Cmd({P(0, "read", "file", FALSE)}, FALSE)
Config == Cmd({P(0, "read", "nowhere", FALSE)}, TRUE)
Reads == [root |-> "select", holds |-> {}]
Deletes == [root |-> "other", holds |-> {"write"}]
Sql(driver, trees, changes) ==
  [driver |-> driver, runsComment |-> FALSE, parse |-> [d \in Dialect |-> trees], changes |-> changes]

Texts ==
  { Sql("postgres", <<Reads>>, {}),
    Sql("sqlserver", <<[Reads EXCEPT !.holds = {"write"}]>>, Driver),         \* in a WITH
    Sql("unknown", <<Reads, Deletes>>, Driver),
    Sql("sqlite", <<[Reads EXCEPT !.root = "pragma"]>>, {}),
    [Sql("mysql", <<Reads>>, {"mysql"}) EXCEPT !.runsComment = TRUE],
    \* read by one dialect, changed by the other
    [Sql("mysql", <<Reads>>, {"mysql"}) EXCEPT !.parse["mysql"] = <<Deletes>>],
    [Sql("postgres", <<Reads>>, {"mysql"}) EXCEPT !.parse["mysql"] = <<Deletes>>] }

Calls ==
  [tool : {"ssh_exec"}, host : {"plain", "inner"}, cmd : {Look, Deploy}]
    \cup [tool : {"exec"}, cmd : {Look, Nested, Overwrite, Config}]
    \cup [tool : {"log_read"}, host : {"inner", "unknown"}]
    \cup [tool : {"vpn"}, action : {"connect", "status"}, profile : {"office"}, extra : {FALSE}]
    \cup [tool : {"db_query"}, sql : Texts]
    \cup [tool : {"write_file"}, path : {"protected", "plain"}]

ToolOfMC == [c \in Calls |-> c.tool]
OutsideMC == {"log_read", "ssh_exec"}

Hosts ==
  [plain |-> [deploy |-> Deploy, vpn |-> FALSE, tier |-> "uat"],
   inner |-> [deploy |-> Deploy, vpn |-> TRUE, tier |-> "uat"]]
Allow(tool, verdict) == [tool |-> tool, calls |-> Calls, effect |-> verdict]
Rule(tool, verdict, n) == [tool |-> tool, calls |-> Calls, effect |-> verdict, priority |-> n]
Configured(backend, rules) ==
  [backend |-> backend, rules |-> rules, hosts |-> Hosts, profiles |-> {"office"}]
Policies ==
  { Configured("basic", <<Allow("db_query", "allow"), Allow("*", e)>>) : e \in {"allow", "need_approval"} }
    \cup { Configured("engine", <<Rule("*", "redact", 1), Rule("ssh_exec", "deny", 2)>>),
           Configured("engine", <<Rule("*", "approve", 1), Rule("ssh_exec", "deny", 1)>>) }
Declared == {{"log_read", "exec"}, {"ssh_exec", "rpc"}}
TwoCalls == [tool : {"log_read"}, host : {"inner", "unknown"}]

=============================================================================
