------------------------------ MODULE Channels ------------------------------
(***************************************************************************)
(* The messaging channels in one process: the configuration enables one of *)
(* them.  Whoever else takes the chat lock makes a turn longer, no more.   *)
(***************************************************************************)
EXTENDS ZaloChannel, ZaloClient, TelegramChannel

VARIABLE enabled

cvars == <<enabled, host, zalo, telegram, client>>

Init ==
  /\ ZaloInit /\ TelegramInit /\ ClientInit
  /\ enabled \in {"zalo", "telegram", "client"}

Next ==
  /\ \/ enabled = "zalo" /\ ZaloNext /\ UNCHANGED <<telegram, client>>
     \/ enabled = "telegram" /\ TelegramNext /\ UNCHANGED <<zalo, client>>
     \/ enabled = "client" /\ ClientNext /\ UNCHANGED <<host, zalo, telegram>>
  /\ UNCHANGED enabled

\* The threads that carry updates run, and the platform delivers again what was
\* refused.
Fairness ==
  /\ \A t \in Carrier : WF_cvars(enabled = "zalo" /\ Carries(t) /\ UNCHANGED <<telegram, client, enabled>>)
  /\ \A e \in Event : SF_cvars(enabled = "zalo" /\ Delivers(e) /\ UNCHANGED <<telegram, client, enabled>>)

Spec == Init /\ [][Next]_cvars /\ Fairness

(* Every update the platform wants to deliver is accepted in the end, one  *)
(* slot for all of them notwithstanding: no answer keeps the slot.         *)
UpdatesServed ==
  \A e \in Event : e \in pending ~> e \notin pending \/ phase # "run" \/ mode \in {"unset", "off"}

=============================================================================
