----------------------------- MODULE ModelCalls -----------------------------
(***************************************************************************)
(* What a turn asks of the models: FailoverRouter over two providers       *)
(* (provider/failover.py), the adapters that translate conversations,      *)
(* answers and failures (anthropic.py, openai_compat.py), and the tool     *)
(* calls on their way from one provider's answer through the loop into the *)
(* next request.                                                           *)
(*                                                                         *)
(* What may be wrong with a call but for its id: "blank", it has no name   *)
(* or its arguments are null, false, zero or an empty list or string;      *)
(* "list", they are another thing that is no object; "number", an object   *)
(* that holds what JSON has no number for (NaN, Infinity).                 *)
(***************************************************************************)
EXTENDS Integers, Sequences, FiniteSets, SequencesExt

CONSTANTS
  Id,           \* ids a provider gives to tool calls; NoId when it leaves them out
  NoId,
  Flaws,        \* what may be wrong with the calls of an answer: sets of the above
  Retries,      \* max_retries
  Status,       \* HTTP statuses other than 200
  MaxBatch, MaxAsks   \* bounds: calls in an answer, requests of a turn

ASSUME ModelAssumption ==
  /\ Flaws \subseteq SUBSET {"blank", "list", "number"}
  /\ NoId \notin Id /\ Retries \in Nat /\ Status \subseteq 300..599
  /\ MaxBatch \in Nat \ {0} /\ MaxAsks \in Nat \ {0}

VARIABLES
  kinds,        \* the adapter of primary and fallback; the fallback may be none
  rounds,       \* assistant messages with tool calls: their ids, the ids answered, the flaws
  completed,    \* the loop's: ids answered in this run
  turn,         \* open, answered, failed or broken (an exception of no known class)
  who, attempt, \* FailoverRouter: the provider that is asked, how often by now
  log,          \* history of this chat(): who failed, and in which class
  asks,         \* history: requests of the turn
  outcome,      \* of the last chat(): none, answer, overflow, error or strange
  clean,        \* history: every call so far came without flaw, with an id of its own
  rejected      \* history: an adapter refused to translate the conversation
models == <<kinds, rounds, completed, turn, who, attempt, log, asks, outcome, clean, rejected>>

ModelInit ==
  /\ kinds \in [primary : {"anthropic", "openai"}, fallback : {"anthropic", "openai", "none"}]
  /\ rounds = <<>> /\ completed = {} /\ turn = "open" /\ who = "nobody" /\ attempt = 0
  /\ log = <<>> /\ asks = 0 /\ outcome = "none" /\ clean = TRUE /\ rejected = FALSE

-----------------------------------------------------------------------------
(* Failures.                                                               *)

Retryable == {"RATE_LIMIT", "TIMEOUT", "SERVER_5XX", "OVERLOADED", "NETWORK"}

\* _map_status of the adapters; the text of an error may name the length of the input
\* or the content filter, which only the Anthropic adapter reads.
AnthropicReason(status, text) ==
  IF status \in {401, 402, 403} THEN "AUTH"
  ELSE IF status = 429 THEN "RATE_LIMIT"
  ELSE IF status = 529 THEN "OVERLOADED"
  ELSE IF status \in {408, 504} THEN "TIMEOUT"
  ELSE IF status = 413 \/ text = "overflow" THEN "CONTEXT_OVERFLOW"
  ELSE IF status \in 400..499 THEN (IF text = "filter" THEN "CONTENT_FILTER" ELSE "BAD_REQUEST")
  ELSE IF status >= 500 THEN "SERVER_5XX"
  ELSE "NETWORK"

OpenAIReason(status) ==
  CASE status \in {401, 403} -> "AUTH"
    [] status = 429 -> "RATE_LIMIT"
    [] status = 400 -> "BAD_REQUEST"
    [] status >= 500 -> "SERVER_5XX"
    [] OTHER -> "NETWORK"

Class(reason) ==
  IF reason = "CONTEXT_OVERFLOW" THEN "overflow" ELSE IF reason \in Retryable THEN "transient" ELSE "hard"

\* attempts = max_retries + 1
OneTooMany == attempt <= Retries + 1                           \* faulty variant
MoreAttempts == attempt <= Retries

\* ctx.prune: the calls whose results are pruned get the arguments {"_pruned": True},
\* unless theirs count as empty.  How many are pruned is a matter of their length.
Mended(old) ==
  [i \in DOMAIN rounds |->
     IF i \in old THEN [rounds[i] EXCEPT !.flaws = @ \cap {"blank"}] ELSE rounds[i]]
Prunes == \E old \in SUBSET DOMAIN rounds : rounds' = Mended(old)

\* _try, and the except branches of chat(): an overflow goes to the loop, which prunes
\* and asks again; what is left of a failure goes to the fallback, then ends the turn.
Fails(reason) ==
  /\ log' = Append(log, [who |-> who, class |-> Class(reason)])
  /\ CASE Class(reason) = "overflow" ->
            who' = "nobody" /\ outcome' = "overflow" /\ Prunes /\ UNCHANGED <<attempt, turn>>
       [] Class(reason) = "transient" /\ MoreAttempts ->
            attempt' = attempt + 1 /\ UNCHANGED <<rounds, who, outcome, turn>>
       [] OTHER ->
         /\ IF who = "primary" /\ kinds.fallback # "none"
              THEN who' = "fallback" /\ attempt' = 1 /\ UNCHANGED <<outcome, turn>>
              ELSE who' = "nobody" /\ outcome' = "error" /\ turn' = "failed" /\ UNCHANGED attempt
         /\ UNCHANGED rounds
  /\ UNCHANGED <<kinds, completed, asks, clean>>

-----------------------------------------------------------------------------
(* A request.                                                              *)

\* _to_anthropic_messages: every call has an id, a name and an object, no two of a
\* message have the same id, and every one has its result before the next message.
\* What chat() makes of it is JSON.
Distinct(ids) == Cardinality(ToSet(ids)) = Len(ids)
Convertible ==
  \A i \in DOMAIN rounds :
    LET r == rounds[i] IN
      /\ r.flaws = {} /\ NoId \notin ToSet(r.ids) /\ Distinct(r.ids)
      /\ ToSet(r.ids) \subseteq r.answered

Ask ==
  /\ turn = "open" /\ who = "nobody" /\ asks < MaxAsks
  /\ who' = "primary" /\ attempt' = 1 /\ log' = <<>> /\ asks' = asks + 1 /\ outcome' = "none"
  /\ UNCHANGED <<kinds, rounds, completed, turn, clean, rejected>>

\* The last of the turn's iterations fails or overflows: the turn ends without an answer.
Exhausts ==
  /\ turn = "open" /\ who = "nobody" /\ asks = MaxAsks /\ turn' = "failed"
  /\ UNCHANGED <<kinds, rounds, completed, who, attempt, log, asks, outcome, clean, rejected>>

Adapter == kinds[who]
Asking(adapter) == who # "nobody" /\ Adapter = adapter

\* Nothing is sent.
Refuse ==
  /\ Asking("anthropic") /\ ~Convertible
  /\ rejected' = TRUE /\ Fails("BAD_REQUEST")

Sent(adapter) == Asking(adapter) /\ (adapter = "anthropic" => Convertible) /\ UNCHANGED rejected

AnthropicFails(status, text) == Sent("anthropic") /\ Fails(AnthropicReason(status, text))
OpenAIFails(status) == Sent("openai") /\ Fails(OpenAIReason(status))

\* The Anthropic transport gives every exception a reason; a malformed 200 counts as
\* SERVER_5XX.
AnthropicTransport == Sent("anthropic") /\ \E r \in {"TIMEOUT", "NETWORK", "SERVER_5XX"} : Fails(r)

\* The OpenAI transport does so for a URLError only: a time-out while the body is read,
\* or a body that is no JSON, leaves FailoverRouter and the turn.
OpenAITransport ==
  \/ Sent("openai") /\ Fails("NETWORK")
  \/ /\ Sent("openai") /\ who' = "nobody" /\ outcome' = "strange" /\ turn' = "broken"
     /\ UNCHANGED <<kinds, rounds, completed, attempt, log, asks, clean>>

AnswerText ==
  /\ \E a \in {"anthropic", "openai"} : Sent(a)
  /\ who' = "nobody" /\ outcome' = "answer" /\ turn' = "answered"
  /\ UNCHANGED <<kinds, rounds, completed, attempt, log, asks, clean>>

\* _parse_response: the Anthropic adapter takes no answer without ids or with one twice,
\* and no call without a name or an object; the other one takes them all.
WellFormed(ids) == NoId \notin ToSet(ids) /\ Distinct(ids)

Acceptable(ids, flaws) == WellFormed(ids) /\ flaws \subseteq {"number"}

\* run_turn answers the calls of the batch one by one, but for ids it has already
\* answered in this run.
\* Arguments that are no object make a call fail, but those of db_query leave the turn:
\* _resolve_db_driver_hint reads them before anything has looked at their type.
OnlyFirst(ids) == {Head(ids)}                                  \* faulty variant
Executed(ids) == ToSet(ids) \ completed

AnswerTools(ids, flaws) ==
  /\ \E a \in {"anthropic", "openai"} : Sent(a) /\ (a = "anthropic" => Acceptable(ids, flaws))
  /\ who' = "nobody" /\ outcome' = "answer"
  /\ \E old \in SUBSET DOMAIN rounds :
       rounds' = Append(Mended(old), [ids |-> ids, answered |-> Executed(ids), flaws |-> flaws])
  /\ completed' = completed \cup ToSet(ids)
  /\ clean' = (clean /\ flaws = {} /\ WellFormed(ids) /\ ToSet(ids) \cap completed = {})
  /\ turn' \in IF flaws \subseteq {"number"} THEN {"open"} ELSE {"open", "broken"}
  /\ UNCHANGED <<kinds, attempt, log, asks>>

Batch(n) == UNION {[1..k -> Id \cup {NoId}] : k \in 1..n}

ModelNext ==
  \/ Ask \/ Exhausts \/ Refuse \/ AnthropicTransport \/ OpenAITransport \/ AnswerText
  \/ \E status \in Status :
       OpenAIFails(status) \/ \E text \in {"plain", "overflow", "filter"} : AnthropicFails(status, text)
  \/ \E ids \in Batch(MaxBatch), flaws \in Flaws : AnswerTools(ids, flaws)

ModelSpec == ModelInit /\ [][ModelNext]_models

-----------------------------------------------------------------------------
(* The rules of the router, read off the failures of one chat(): nobody is *)
(* asked more than max_retries + 1 times; only a transient failure is      *)
(* repeated; the fallback gets what the primary could not do, hard or      *)
(* exhausted; an overflow is nobody else's business; and an error is       *)
(* raised only when there is no one left to ask.                           *)
Of(p) == {i \in DOMAIN log : log[i].who = p}
Exhausted(p) == Of(p) # {} /\ (log[Max(Of(p))].class = "hard" \/ Cardinality(Of(p)) = Retries + 1)
FailoverDecides ==
  /\ \A p \in {"primary", "fallback"} : Cardinality(Of(p)) <= Retries + 1
  /\ \A i \in 1..(Len(log) - 1) :
       log[i].class = "transient" \/ (log[i].class = "hard" /\ log[i].who # log[i + 1].who)
  /\ Of("fallback") # {} => Exhausted("primary")
  /\ outcome = "overflow" => log # <<>> /\ log[Len(log)].class = "overflow"
  /\ outcome = "error" => Exhausted(IF kinds.fallback = "none" THEN "primary" ELSE "fallback")

(* A conversation the loop has built is refused only for what came with    *)
(* some provider's answer: an id that was left out or given twice in the   *)
(* turn (in one answer or in two), a call without a name or an object, a   *)
(* number that is none.  Batches, skips, pruning, failures and a change of *)
(* provider in the middle of the turn add nothing to refuse, and leave     *)
(* every call with its result.                                             *)
RefusedAsReceived == rejected => ~clean

=============================================================================
