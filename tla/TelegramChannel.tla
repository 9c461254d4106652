-------------------------- MODULE TelegramChannel --------------------------
(***************************************************************************)
(* The Telegram channel (channels/telegram.py): batches of numbered        *)
(* updates from an offset that only this process knows, and the briefing   *)
(* thread.  The server drops an update when getUpdates asks for a later    *)
(* one.                                                                    *)
(*                                                                         *)
(* The kind of an update: text, code (the pairing code), blank, or poison  *)
(* (handle_update raises).                                                 *)
(***************************************************************************)
EXTENDS ChannelHost

CONSTANTS
  Updates,      \* what the server gets: a sequence of [chat, kind]
  Batch,        \* bound: updates in one answer of getUpdates
  TgAllowed,    \* allowed_chat_ids of the configuration
  TgThread,
  MaxDays, MaxRestarts   \* bounds

ASSUME TelegramAssumption ==
  /\ Len(Updates) \in Nat /\ DOMAIN Updates = 1..Len(Updates)
  /\ \A u \in DOMAIN Updates : Updates[u].kind \in {"text", "code", "blank", "poison"}
  /\ Batch \in Nat \ {0} /\ MaxDays \in Nat \ {0} /\ MaxRestarts \in Nat
  /\ TgThread # None

VARIABLES
  offset,
  batch,        \* numbers of the updates still to be handled
  current,      \* the one being handled, 0 if none
  tpc, paired,
  dropped,      \* the server's: updates below this number are gone
  handled,      \* history: how often handle_update was called
  restarts,
  day, hour,    \* the day, and whether the hour of the briefing has come
  lastSent, bpc,
  toTell,       \* chats that still get the briefing
  begun         \* history: how often the briefing of each day was begun
polling == <<offset, batch, current, tpc, paired, dropped, handled, restarts>>
briefing == <<day, hour, lastSent, bpc, toTell, begun>>
telegram == <<polling, briefing>>

Number == DOMAIN Updates

TelegramInit ==
  /\ HostInit /\ offset = 0 /\ batch = <<>> /\ current = 0 /\ tpc = "idle" /\ paired = TgAllowed
  /\ dropped = 1 /\ handled = [u \in Number |-> 0] /\ restarts = 0
  /\ day = 1 /\ hour = FALSE /\ lastSent = 0 /\ bpc = "idle" /\ toTell = {}
  /\ begun = [d \in 1..MaxDays |-> 0]

-----------------------------------------------------------------------------
(* poll_once and handle_update.                                            *)

\* The answer, which may be lost, is a batch from the offset on.
Larger(m, n) == IF m > n THEN m ELSE n
GetUpdates(arrives) ==
  /\ tpc = "idle" /\ phase = "run" /\ batch = <<>>
  /\ dropped' = Larger(dropped, offset)
  /\ \E n \in 0..Batch :
       /\ dropped' + n - 1 <= Len(Updates)
       /\ batch' = IF arrives THEN [i \in 1..n |-> dropped' + i - 1] ELSE <<>>
  /\ UNCHANGED <<host, offset, current, tpc, paired, handled, restarts, briefing>>

\* The offset moves before the update is handled; an exception ends the batch.
MovesLater(u) == offset                                        \* faulty variant
OffsetAfter(u) == u + 1

Handle ==
  LET u == Head(batch) up == Updates[u] IN
  /\ tpc = "idle" /\ batch # <<>>
  /\ offset' = OffsetAfter(u)
  /\ handled' = [handled EXCEPT ![u] = @ + 1]
  /\ batch' = IF up.kind = "poison" THEN <<>> ELSE Tail(batch)
  /\ \/ up.kind \in {"poison", "blank"} /\ UNCHANGED <<tpc, current, paired>>
     \/ /\ up.kind \in {"text", "code"} /\ current' = u
        /\ IF up.chat \in paired
             THEN tpc' = "lock" /\ UNCHANGED paired
             ELSE /\ tpc' = "send"
                  /\ paired' = IF up.kind = "code" THEN paired \cup {up.chat} ELSE paired
  /\ UNCHANGED <<host, dropped, restarts, briefing>>

TgTurn ==
  /\ tpc = "lock" /\ tpc' = "turn" /\ Acquires(TgThread)
  /\ UNCHANGED <<offset, batch, current, paired, dropped, handled, restarts, briefing>>

TgTurnEnds ==
  /\ tpc = "turn" /\ tpc' = "send" /\ Releases
  /\ UNCHANGED <<offset, batch, current, paired, dropped, handled, restarts, briefing>>

\* _safe_send: shown or not, the update is done.
TgSend ==
  /\ tpc = "send" /\ tpc' = "idle" /\ current' = 0
  /\ UNCHANGED <<host, offset, batch, paired, dropped, handled, restarts, briefing>>

-----------------------------------------------------------------------------
(* _run_briefing.                                                          *)

HourComes ==
  /\ ~hour /\ hour' = TRUE
  /\ UNCHANGED <<host, polling, day, lastSent, bpc, toTell, begun>>

Midnight ==
  /\ hour /\ day < MaxDays /\ day' = day + 1 /\ hour' = FALSE
  /\ UNCHANGED <<host, polling, lastSent, bpc, toTell, begun>>

\* The day is marked first, before the wait for the lock.
BriefingDue == hour /\ lastSent # day
BeginBriefing ==
  /\ bpc = "idle" /\ phase = "run" /\ BriefingDue
  /\ lastSent' = day /\ bpc' = "lock" /\ begun' = [begun EXCEPT ![day] = @ + 1]
  /\ UNCHANGED <<host, polling, day, hour, toTell>>

\* app.briefing() under the lock; an exception ends the thread.
Build ==
  /\ bpc = "lock" /\ LockFree
  /\ bpc' = "tell" /\ toTell' = paired
  /\ UNCHANGED <<host, polling, day, hour, lastSent, begun>>

BuildRaises ==
  /\ bpc = "lock" /\ LockFree /\ bpc' = "dead"
  /\ UNCHANGED <<host, polling, day, hour, lastSent, toTell, begun>>

\* notify: a chat whose message fails is passed over.
Tell(c) ==
  /\ bpc = "tell" /\ c \in toTell /\ toTell' = toTell \ {c}
  /\ UNCHANGED <<host, polling, day, hour, lastSent, bpc, begun>>

EndBriefing ==
  /\ bpc = "tell" /\ toTell = {} /\ bpc' = "idle"
  /\ UNCHANGED <<host, polling, day, hour, lastSent, toTell, begun>>

-----------------------------------------------------------------------------
TgShutdown == (SetStop \/ RunHooks) /\ UNCHANGED telegram

\* The offset is lost with the process; the server still has what it did not drop.
TgRestart ==
  /\ restarts < MaxRestarts /\ restarts' = restarts + 1 /\ Restarted
  /\ offset' = 0 /\ batch' = <<>> /\ current' = 0 /\ tpc' = "idle" /\ paired' = TgAllowed
  /\ lastSent' = 0 /\ bpc' = "idle" /\ toTell' = {}
  /\ UNCHANGED <<dropped, handled, day, hour, begun>>

TelegramNext ==
  \/ \E arrives \in BOOLEAN : GetUpdates(arrives)
  \/ Handle \/ TgTurn \/ TgTurnEnds \/ TgSend
  \/ HourComes \/ Midnight \/ BeginBriefing \/ Build \/ BuildRaises \/ EndBriefing
  \/ \E c \in paired : Tell(c)
  \/ TgShutdown \/ TgRestart

-----------------------------------------------------------------------------
(* No update is skipped and none is handled twice by one process: what the *)
(* server has dropped was handled, also when handle_update raised in the   *)
(* middle of a batch, and only a restart, which loses the offset, brings   *)
(* an update back.  The same holds of the briefing: one a day, but after a *)
(* restart in the hours after it was due.                                  *)
UpdatesOnce ==
  /\ \A u \in Number : (u < dropped => handled[u] >= 1) /\ handled[u] <= 1 + restarts
  /\ \A d \in DOMAIN begun : begun[d] <= 1 + restarts

=============================================================================
