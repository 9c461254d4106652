----------------------------- MODULE ZaloClient -----------------------------
(***************************************************************************)
(* ZaloClient._call with its retries, and its callers: replies and         *)
(* notifications chunk by chunk (_safe_send, notify), and getUpdates.      *)
(***************************************************************************)
EXTENDS Integers, Sequences

CONSTANTS
  Audience,     \* the allowed chats
  Chunks,       \* of a long message
  Attempts      \* max_retries + 1

ASSUME ClientAssumption == Chunks \in Nat \ {0} /\ Attempts \in Nat \ {0}

VARIABLES
  method,       \* the call that is made; next between two notified chats
  purpose,      \* reply or notify
  chat, chunk, size,
  todo,         \* chats still to be notified
  attempt,
  shown,        \* history: the chunks of this message each chat has seen
  failed,       \* history: the chats a chunk could not be sent to
  got           \* what a request gave: nothing yet, an update, none, an error
client == <<method, purpose, chat, chunk, size, todo, attempt, shown, failed, got>>

ClientInit ==
  /\ method = "none" /\ purpose = "none" /\ chat = "none" /\ chunk = 0 /\ size = 0
  /\ todo = {} /\ attempt = 0
  /\ shown = [c \in Audience |-> <<>>] /\ failed = {} /\ got = "nothing"

\* How an attempt ends: limited is an explicit 429, transient a lost connection
\* or a 5xx, strange an exception that is no ZaloApiError.
Failure == {"limited", "transient", "timeout", "strange", "rejected"}

\* sendMessage does not set retry_transient, the other methods do.
AlwaysTransient == TRUE                                        \* faulty variant
RetryTransient == method # "sendMessage"

CanRetry(why) ==
  /\ attempt < Attempts
  /\ \/ why = "limited"
     \/ why \in {"transient", "strange"} /\ RetryTransient
     \/ why = "timeout" /\ RetryTransient /\ method # "getUpdates"

Retry(why) ==
  /\ method # "none" /\ CanRetry(why) /\ attempt' = attempt + 1
  /\ UNCHANGED <<method, purpose, chat, chunk, size, todo, failed, got>>

-----------------------------------------------------------------------------
(* Messages.                                                               *)

Starts(c, n) == method' = "sendMessage" /\ chat' = c /\ chunk' = 1 /\ size' = n /\ attempt' = 1

Reply(c, n) ==
  /\ method = "none" /\ Starts(c, n) /\ purpose' = "reply"
  /\ shown' = [d \in Audience |-> <<>>] /\ failed' = {}
  /\ UNCHANGED <<todo, got>>

Notify(n) ==
  /\ method = "none" /\ purpose' = "notify" /\ method' = "next"
  /\ todo' = Audience /\ size' = n
  /\ shown' = [d \in Audience |-> <<>>] /\ failed' = {}
  /\ UNCHANGED <<chat, chunk, attempt, got>>

NotifyNext ==
  /\ method = "next" /\ todo # {}
  /\ \E c \in todo : todo' = todo \ {c} /\ Starts(c, size)
  /\ UNCHANGED <<purpose, shown, failed, got>>

NotifyEnds ==
  /\ method = "next" /\ todo = {} /\ method' = "none"
  /\ UNCHANGED <<purpose, chat, chunk, size, todo, attempt, shown, failed, got>>

AfterChat == IF purpose = "notify" THEN "next" ELSE "none"

Shows == shown' = [shown EXCEPT ![chat] = Append(@, chunk)]

SendOk ==
  /\ method = "sendMessage" /\ Shows
  /\ IF chunk < size THEN chunk' = chunk + 1 /\ attempt' = 1 /\ UNCHANGED method
                     ELSE method' = AfterChat /\ UNCHANGED <<chunk, attempt>>
  /\ UNCHANGED <<purpose, chat, size, todo, failed, got>>

\* The chunk may have been shown although the call failed.
MayBeShown(why) ==
  UNCHANGED shown \/ (why \in {"transient", "timeout", "strange"} /\ Shows)

SendRetried(why) == method = "sendMessage" /\ Retry(why) /\ MayBeShown(why)

\* A message ends with its first chunk that fails.
SendFails(why) ==
  /\ method = "sendMessage" /\ ~CanRetry(why) /\ MayBeShown(why)
  /\ failed' = failed \cup {chat} /\ method' = AfterChat
  /\ UNCHANGED <<purpose, chat, chunk, size, todo, attempt, got>>

-----------------------------------------------------------------------------
(* get_updates and set_webhook; a time-out of the long poll is an empty    *)
(* answer.                                                                 *)

Requests == {"getUpdates", "setWebhook"}

Request(m) ==
  /\ method = "none" /\ method' = m /\ attempt' = 1 /\ got' = "nothing"
  /\ UNCHANGED <<purpose, chat, chunk, size, todo, shown, failed>>

RequestEnds(result) ==
  /\ method \in Requests /\ method' = "none" /\ got' = result
  /\ UNCHANGED <<purpose, chat, chunk, size, todo, attempt, shown, failed>>

RequestRetried(why) == method \in Requests /\ Retry(why) /\ UNCHANGED shown

RequestFails(why) ==
  /\ ~CanRetry(why)
  /\ RequestEnds(IF why = "timeout" /\ method = "getUpdates" THEN "none" ELSE "error")

-----------------------------------------------------------------------------
ClientNext ==
  \/ \E n \in 1..Chunks : Notify(n) \/ \E c \in Audience : Reply(c, n)
  \/ NotifyNext \/ NotifyEnds \/ SendOk
  \/ (\E m \in Requests : Request(m)) \/ (\E result \in {"update", "none", "error"} : RequestEnds(result))
  \/ \E why \in Failure : SendRetried(why) \/ SendFails(why) \/ RequestRetried(why) \/ RequestFails(why)

(* "Retrying an ambiguous failure can duplicate a message": a chat sees    *)
(* the first chunks of a message, each once and in order, whatever the     *)
(* retries; and a chat that fails keeps no other chat from its whole       *)
(* notification.                                                           *)
SentOnce ==
  /\ \A c \in Audience : shown[c] = [i \in 1..Len(shown[c]) |-> i]
  /\ method = "none" /\ purpose = "notify" =>
       \A c \in Audience : c \in failed \/ Len(shown[c]) = size

=============================================================================
