----------------------------- MODULE ChannelsMC -----------------------------
(* Channels for TLC: the updates of a small neighbourhood.                 *)
EXTENDS Channels

Upd(c, private, kind, mid) == [chat |-> c, private |-> private, kind |-> kind, mid |-> mid]

ZaloEvents ==
  { Upd("guest", TRUE, "text", 1), Upd("guest", TRUE, "code", 2),
    Upd("other", TRUE, "text", 3), Upd("other", TRUE, "malformed", 4) }

TelegramUpdates ==
  << [chat |-> "owner", kind |-> "text"], [chat |-> "guest", kind |-> "poison"],
     [chat |-> "guest", kind |-> "code"], [chat |-> "guest", kind |-> "text"] >>

=============================================================================
