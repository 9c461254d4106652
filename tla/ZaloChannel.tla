---------------------------- MODULE ZaloChannel ----------------------------
(***************************************************************************)
(* The Zalo channel (channels/zalo_bot.py): updates arrive by long polling *)
(* or at a webhook, are claimed in a bounded window against replays, pass  *)
(* the gate or the pairing code, run as a turn under the chat lock, and    *)
(* are answered (ZaloClient).  The platform delivers an update until it is    *)
(* accepted, and may deliver it again.                                     *)
(*                                                                         *)
(* An update is a record: its chat, whether the chat is private, and its   *)
(* kind: text, code (the pairing code), blank (no text), bare (a text      *)
(* without a usable id), bot, or malformed.                                *)
(***************************************************************************)
EXTENDS ChannelHost

CONSTANTS
  Event, Chat,
  Configured,   \* allowed_chat_ids of the configuration
  Carrier,      \* threads that carry updates: webhook handlers
  Poller,       \* the one that polls
  SeenCap, FailCap, MaxFailures,
  MaxAgain      \* bound: deliveries of updates that were accepted before

Kind == {"text", "code", "blank", "bare", "bot", "malformed"}

ASSUME ZaloAssumption ==
  /\ Event \subseteq [chat : Chat, private : BOOLEAN, kind : Kind, mid : Nat]
  /\ Configured \subseteq Chat /\ Poller \in Carrier
  /\ None \notin Carrier
  /\ SeenCap \in Nat \ {0} /\ FailCap \in Nat \ {0} /\ MaxFailures \in Nat \ {0}
  /\ MaxAgain \in Nat

VARIABLES
  mode,         \* webhook, poll or off
  stopped, slot,
  seen,         \* claimed updates, the oldest first
  age,          \* history: claims since an update's own, up to SeenCap
  late,         \* history: claims after stop()
  allowed,
  count, locked, order,   \* _pairing_failures: counts, lock-outs, age of the entries
  allowance,    \* history: wrong codes a chat may still try
  pc, event,
  pending,      \* the platform: to deliver
  again         \* and repeats left

claims == <<seen, age, late>>
pairing == <<allowed, count, locked, order, allowance>>
platform == <<pending, again>>
zalo == <<mode, stopped, slot, claims, pairing, pc, event, platform>>

Unclaimed == [e \in Event |-> SeenCap]
NoFailures == [c \in Chat |-> 0]
FullAllowance == [c \in Chat |-> MaxFailures]
Idle == [t \in Carrier |-> "idle"]
Empty == [t \in Carrier |-> None]

ZaloInit ==
  /\ HostInit /\ mode = "unset" /\ stopped = FALSE /\ slot = None
  /\ seen = <<>> /\ age = Unclaimed /\ late = 0
  /\ allowed = Configured /\ count = NoFailures /\ locked = {} /\ order = <<>>
  /\ allowance = FullAllowance
  /\ pc = Idle /\ event = Empty
  /\ pending = Event /\ again = MaxAgain

Goes(t, to) == pc' = [pc EXCEPT ![t] = to]

-----------------------------------------------------------------------------
(* Start, and what the platform does.                                      *)

\* _start_zalo: off when a secret is missing, the configuration is refused,
\* or deleteWebhook failed.
Start(m) ==
  /\ mode = "unset" /\ phase = "run" /\ mode' = m
  /\ UNCHANGED <<host, stopped, slot, claims, pairing, pc, event, platform>>

Redeliver(e) ==
  /\ e \notin pending /\ again > 0
  /\ pending' = pending \cup {e} /\ again' = again - 1
  /\ UNCHANGED <<host, mode, stopped, slot, claims, pairing, pc, event>>

-----------------------------------------------------------------------------
(* Arrival.                                                                *)

\* do_POST of a webhook request and the first checks of handle_webhook.  (What is
\* refused here, a wrong secret, a body too large, or stopped, is as if never sent.)
Connect(t, e) ==
  /\ mode = "webhook" /\ phase = "run" /\ pc[t] = "idle" /\ e \in pending
  /\ event' = [event EXCEPT ![t] = e]
  /\ Goes(t, "slot")
  /\ UNCHANGED <<host, mode, stopped, slot, claims, pairing, platform>>

\* acquire(blocking=False): 503 when another update is being handled, 400 for a
\* body that is no update.
TakeSlot(t) ==
  /\ pc[t] = "slot"
  /\ IF slot # None
       THEN Goes(t, "idle") /\ event' = [event EXCEPT ![t] = None] /\ UNCHANGED slot
       ELSE /\ Goes(t, IF event[t].kind = "malformed" THEN "bad" ELSE "update")
            /\ slot' = t /\ UNCHANGED event
  /\ UNCHANGED <<host, mode, stopped, claims, pairing, platform>>

\* getUpdates returns one update; an array or a malformed one is an error.
Poll(e) ==
  /\ mode = "poll" /\ phase = "run" /\ ~stopped /\ pc[Poller] = "idle" /\ e \in pending
  /\ pending' = pending \ {e}
  /\ event' = [event EXCEPT ![Poller] = e]
  /\ Goes(Poller, IF e.kind = "malformed" THEN "done" ELSE "update")
  /\ UNCHANGED <<host, mode, stopped, slot, claims, pairing, again>>

-----------------------------------------------------------------------------
(* handle_update.                                                          *)

\* Stopped: nothing is done.  A bot's update, or a text that cannot be
\* protected against replays, is consumed.
IgnoresStop(t) == TRUE                                         \* faulty variant
MayGoOn(t) == ~stopped
CheckStopped(t) ==
  /\ pc[t] = "update"
  /\ IF MayGoOn(t)
       THEN Goes(t, IF event[t].kind \in {"bot", "bare"} THEN "done" ELSE "claim")
       ELSE Goes(t, "busy")
  /\ UNCHANGED <<host, mode, stopped, slot, claims, pairing, event, platform>>

\* _mark_seen: the oldest keys leave the window.
NewestOut(s) == IF Len(s) > SeenCap THEN SubSeq(s, 1, SeenCap) ELSE s   \* faulty variant
Window(s) == IF Len(s) > SeenCap THEN Tail(s) ELSE s
Seen(e) == \E i \in DOMAIN seen : seen[i] = e

Claim(t) ==
  /\ pc[t] = "claim"
  /\ IF Seen(event[t])
       THEN Goes(t, "done") /\ UNCHANGED claims
       ELSE /\ seen' = Window(Append(seen, event[t]))
            /\ age' = [e \in Event |-> IF e = event[t] THEN 0
                                       ELSE IF age[e] < SeenCap THEN age[e] + 1 ELSE SeenCap]
            /\ late' = IF stopped THEN late + 1 ELSE late
            /\ Goes(t, IF event[t].kind = "blank" THEN "done" ELSE "gate")
  /\ UNCHANGED <<host, mode, stopped, slot, pairing, event, platform>>

Admit(t) ==
  /\ pc[t] = "gate" /\ event[t].chat \in allowed /\ Goes(t, "lock")
  /\ UNCHANGED <<host, mode, stopped, slot, claims, pairing, event, platform>>

\* _pair is off in groups, and during a lock-out whatever the code.
GuessAnyway(e) == e.private                                    \* faulty variant
MayGuess(e) == e.private /\ e.chat \notin locked

Unpaired(t) ==
  /\ pc[t] = "gate" /\ event[t].chat \notin allowed
  /\ Goes(t, "done")
  /\ UNCHANGED <<host, mode, stopped, slot, claims, event, platform>>

NotPaired(t) == Unpaired(t) /\ ~MayGuess(event[t]) /\ UNCHANGED pairing

Paired(t) ==
  LET c == event[t].chat IN
  /\ Unpaired(t) /\ MayGuess(event[t]) /\ event[t].kind = "code"
  /\ allowed' = allowed \cup {c}
  /\ count' = [count EXCEPT ![c] = 0]
  /\ order' = SelectSeq(order, LAMBDA d : d # c)
  /\ locked' = locked \ {c}
  /\ allowance' = [allowance EXCEPT ![c] = MaxFailures]

\* The count is not reset by the end of a lock-out; the oldest entry is
\* forgotten when there are too many.
WrongCode(t) ==
  LET c == event[t].chat
      moved == Append(SelectSeq(order, LAMBDA d : d # c), c)
      gone == IF Len(moved) > FailCap THEN {Head(moved)} ELSE {}
  IN
  /\ Unpaired(t) /\ MayGuess(event[t]) /\ event[t].kind # "code"
  /\ order' = IF gone = {} THEN moved ELSE Tail(moved)
  /\ count' = [d \in Chat |-> IF d \in gone THEN 0 ELSE IF d = c THEN count[c] + 1 ELSE count[d]]
  /\ locked' = (IF count[c] + 1 >= MaxFailures THEN locked \cup {c} ELSE locked \ {c}) \ gone
  /\ allowance' = [d \in Chat |-> IF d \in gone THEN MaxFailures
                                  ELSE IF d = c THEN allowance[c] - 1 ELSE allowance[d]]
  /\ UNCHANGED allowed

\* PAIRING_LOCKOUT_SEC have passed.
LockoutEnds(c) ==
  /\ c \in locked /\ locked' = locked \ {c}
  /\ allowance' = [allowance EXCEPT ![c] = @ + 1]
  /\ UNCHANGED <<host, mode, stopped, slot, claims, allowed, count, order, pc, event, platform>>

BeginTurn(t) ==
  /\ pc[t] = "lock" /\ Goes(t, "turn") /\ Acquires(t)
  /\ UNCHANGED <<mode, stopped, slot, claims, pairing, event, platform>>

\* The answer, or one line for any exception, is sent; whether that works or not,
\* the update is done.
EndTurn(t) ==
  /\ pc[t] = "turn" /\ Goes(t, "done") /\ Releases
  /\ UNCHANGED <<mode, stopped, slot, claims, pairing, event, platform>>

-----------------------------------------------------------------------------
(* Answers and shutdown.                                                   *)

KeepsSlot(t) == IF pc[t] = "done" THEN None ELSE slot           \* faulty variant
FreedSlot(t) == IF slot = t THEN None ELSE slot

\* The slot is released on every way out; the platform gives up what is answered with
\* 200 or 4xx, and delivers again what got a 503.
Answer(t) ==
  /\ pc[t] \in {"done", "bad", "busy"} /\ Goes(t, "idle")
  /\ slot' = FreedSlot(t)
  /\ pending' = IF pc[t] = "busy" THEN pending ELSE pending \ {event[t]}
  /\ event' = [event EXCEPT ![t] = None]
  /\ UNCHANGED <<host, mode, stopped, claims, pairing, again>>

\* stop(), called by the shutdown hook.
Stop ==
  /\ RunHooks /\ stopped' = TRUE
  /\ UNCHANGED <<mode, slot, claims, pairing, pc, event, platform>>

Shutdown == SetStop /\ UNCHANGED zalo

\* Everything the channel knows is in memory.
Restart ==
  /\ Restarted /\ mode' = "unset" /\ stopped' = FALSE /\ slot' = None
  /\ seen' = <<>> /\ age' = Unclaimed /\ late' = 0
  /\ allowed' = Configured /\ count' = NoFailures /\ locked' = {} /\ order' = <<>>
  /\ allowance' = FullAllowance
  /\ pc' = Idle /\ event' = Empty
  /\ UNCHANGED platform

-----------------------------------------------------------------------------
Carries(t) ==
  \/ TakeSlot(t) \/ CheckStopped(t) \/ Claim(t)
  \/ Admit(t) \/ NotPaired(t) \/ Paired(t) \/ WrongCode(t)
  \/ BeginTurn(t) \/ EndTurn(t) \/ Answer(t)

Delivers(e) == Poll(e) \/ \E t \in Carrier : Connect(t, e)

ZaloNext ==
  \/ \E m \in {"webhook", "poll", "off"} : Start(m)
  \/ \E e \in Event : Redeliver(e) \/ Delivers(e)
  \/ \E t \in Carrier : Carries(t)
  \/ \E c \in Chat : LockoutEnds(c)
  \/ Stop \/ Shutdown \/ Restart

zvars == <<host, zalo>>
ZaloSpec == ZaloInit /\ [][ZaloNext]_zvars

-----------------------------------------------------------------------------
(* An update is taken for new only when at least SeenCap others were       *)
(* claimed since its own claim, or never claimed by this process: the      *)
(* window forgets the oldest first, whatever is delivered again and again. *)
ReplayWindow == \A e \in Event : ~Seen(e) => age[e] >= SeenCap

(* The code of a chat is guessed MaxFailures times, and then once for each *)
(* lock-out that has passed; only an entry that was forgotten starts anew. *)
GuessesLimited == \A c \in Chat : allowance[c] >= 0

(* "Fail-closed shutdown": after stop() at most the one update that was    *)
(* between its check and its claim is still acted on, though other handler *)
(* threads have passed the first check of handle_webhook.                  *)
DrainsOne == late <= 1

=============================================================================
