--------------------------- MODULE ChannelsProofs ---------------------------
(***************************************************************************)
(* The safety invariants of the messaging channels, for every population   *)
(* of chats, threads and updates and every size of window, cap and batch.  *)
(*                                                                         *)
(* A step of Channels is a step of one channel and leaves the variables of *)
(* the others alone, but for host, which no invariant here mentions: each  *)
(* invariant is shown to be kept by the steps of its own channel and       *)
(* whenever the channel's variables do not change.                         *)
(***************************************************************************)
EXTENDS Channels, SequenceTheorems, TLAPS

LEMMA StepOfOne ==
  ASSUME [Next]_cvars
  PROVE  /\ ZaloNext \/ UNCHANGED zalo
         /\ TelegramNext \/ UNCHANGED telegram
         /\ ClientNext \/ UNCHANGED client
BY DEF Next, cvars

-----------------------------------------------------------------------------
(* The Zalo channel.                                                       *)

Stage ==
  {"idle", "slot", "bad", "update", "busy", "claim", "gate", "lock", "turn", "done"}

ZaloType ==
  /\ mode \in {"unset", "webhook", "poll", "off"} /\ stopped \in BOOLEAN
  /\ slot \in Carrier \cup {None}
  /\ seen \in Seq(Event) /\ age \in [Event -> Nat] /\ late \in Nat
  /\ locked \subseteq Chat /\ count \in [Chat -> Nat] /\ allowance \in [Chat -> Int]
  /\ pc \in [Carrier -> Stage] /\ event \in [Carrier -> Event \cup {None}]
  /\ pending \subseteq Event /\ again \in Nat
  /\ \A c \in Carrier : pc[c] # "idle" => event[c] \in Event

\* An entry of the window is as old as its place says, and what is not in the
\* window is older than it is long.
WindowInv ==
  /\ Len(seen) <= SeenCap
  /\ \A i \in 1..Len(seen) : age[seen[i]] = Len(seen) - i
  /\ \A e \in Event : ~Seen(e) => age[e] >= SeenCap

\* A chat that is not locked out has a guess left; the count tells how many of
\* MaxFailures have been spent at most.
GuessInv ==
  \A c \in Chat :
    /\ allowance[c] >= MaxFailures - count[c]
    /\ allowance[c] >= 0
    /\ c \notin locked => allowance[c] >= 1

\* One thread at most is past the slot, whichever way updates come in.
Active(c) == pc[c] \notin {"idle", "slot"}
AloneInv ==
  \A c \in Carrier :
    /\ pc[c] = "slot" => mode = "webhook"
    /\ Active(c) => \/ mode = "webhook" /\ slot = c
                    \/ mode = "poll" /\ c = Poller

\* Nothing is claimed late before stop(), and once after it: by the thread that
\* was between its check and its claim.
DrainInv ==
  /\ ~stopped => late = 0
  /\ late <= 1
  /\ late = 1 => \A c \in Carrier : pc[c] # "claim"

ZaloInv == ZaloType /\ WindowInv /\ GuessInv /\ AloneInv /\ DrainInv

LEMMA ZaloStart == ZaloInit => ZaloInv
<1>. SUFFICES ASSUME ZaloInit PROVE ZaloInv
  OBVIOUS
<1>1. ZaloType
  <2>1. age \in [Event -> Nat] /\ count \in [Chat -> Nat] /\ allowance \in [Chat -> Int]
    BY ZaloAssumption DEF ZaloInit, Unclaimed, NoFailures, FullAllowance
  <2>2. pc \in [Carrier -> Stage] /\ event \in [Carrier -> Event \cup {None}]
    BY DEF ZaloInit, Idle, Empty, Stage
  <2>3. /\ mode = "unset" /\ stopped = FALSE /\ slot = None /\ seen = <<>> /\ late = 0
        /\ locked = {} /\ pending = Event /\ \A c \in Carrier : pc[c] = "idle"
    BY DEF ZaloInit, Idle
  <2>4. again \in Nat
    BY ZaloAssumption DEF ZaloInit
  <2>5. seen \in Seq(Event) /\ late \in Nat
    BY <2>3
  <2>6. /\ mode \in {"unset", "webhook", "poll", "off"} /\ stopped \in BOOLEAN
        /\ slot \in Carrier \cup {None} /\ locked \subseteq Chat /\ pending \subseteq Event
    BY <2>3
  <2>7. \A c \in Carrier : pc[c] # "idle" => event[c] \in Event
    BY <2>3
  <2>. QED BY <2>1, <2>2, <2>4, <2>5, <2>6, <2>7 DEF ZaloType
<1>2. WindowInv /\ GuessInv /\ AloneInv /\ DrainInv
  BY ZaloAssumption
     DEF ZaloInit, Idle, Unclaimed, NoFailures, FullAllowance, WindowInv, GuessInv, AloneInv, DrainInv, Active
<1>. QED BY <1>1, <1>2 DEF ZaloInv

\* What a thread goes to.
LEMMA GoesTo ==
  ASSUME pc \in [Carrier -> Stage], NEW c \in Carrier, NEW to \in Stage, Goes(c, to)
  PROVE  /\ pc' \in [Carrier -> Stage] /\ pc'[c] = to
         /\ \A d \in Carrier : d # c => pc'[d] = pc[d]
BY DEF Goes

\* Most of what a thread does is about itself alone.
Local(c) ==
  /\ c \in Carrier /\ Active(c)
  /\ \E to \in Stage \ {"slot", "claim"} : Goes(c, to)
  /\ UNCHANGED <<mode, stopped, slot, claims, pairing, event, platform>>

LEMMA LocalSteps ==
  ASSUME ZaloInv, NEW c \in Carrier,
         (CheckStopped(c) /\ ~MayGoOn(c)) \/ Admit(c) \/ NotPaired(c) \/ BeginTurn(c) \/ EndTurn(c)
  PROVE  Local(c)
BY DEF CheckStopped, Admit, NotPaired, Unpaired, BeginTurn, EndTurn, Local, Active, Stage

LEMMA LocalKeeps == ASSUME ZaloInv, NEW c \in Carrier, Local(c) PROVE ZaloInv'
<1>1. PICK to \in Stage \ {"slot", "claim"} : Goes(c, to)
  BY DEF Local
<1>2. /\ pc' \in [Carrier -> Stage] /\ pc'[c] = to
      /\ \A d \in Carrier : d # c => pc'[d] = pc[d]
  BY <1>1, GoesTo DEF ZaloInv, ZaloType
<1>3. UNCHANGED <<mode, stopped, slot, seen, age, late, locked, count, allowance, event, pending, again>>
  BY DEF Local, claims, pairing, platform
<1>4. Active(c) /\ pc[c] # "idle"
  BY DEF Local, Active
<1>5. ZaloType'
  BY <1>2, <1>3, <1>4 DEF ZaloInv, ZaloType
<1>6. WindowInv' /\ GuessInv'
  BY <1>3 DEF ZaloInv, WindowInv, GuessInv, Seen
<1>7. AloneInv' /\ DrainInv'
  BY <1>2, <1>3, <1>4 DEF ZaloInv, AloneInv, DrainInv, Active
<1>. QED BY <1>5, <1>6, <1>7 DEF ZaloInv

\* CheckStopped with the way on to the claim.
LEMMA CheckKeeps == ASSUME ZaloInv, NEW c \in Carrier, CheckStopped(c) PROVE ZaloInv'
<1>1. CASE MayGoOn(c) /\ event[c].kind \notin {"bot", "bare"}
  <2>1. Goes(c, "claim") /\ ~stopped /\ pc[c] = "update"
    BY <1>1 DEF CheckStopped, MayGoOn
  <2>2. /\ pc' \in [Carrier -> Stage] /\ pc'[c] = "claim"
        /\ \A d \in Carrier : d # c => pc'[d] = pc[d]
    BY <2>1, GoesTo DEF ZaloInv, ZaloType, Stage
  <2>3. UNCHANGED <<mode, stopped, slot, seen, age, late, locked, count, allowance, event, pending, again>>
    BY DEF CheckStopped, claims, pairing, platform
  <2>4. ZaloType'
    BY <2>1, <2>2, <2>3 DEF ZaloInv, ZaloType
  <2>5. WindowInv' /\ GuessInv'
    BY <2>3 DEF ZaloInv, WindowInv, GuessInv, Seen
  <2>6. AloneInv'
    BY <2>1, <2>2, <2>3 DEF ZaloInv, AloneInv, Active
  <2>7. DrainInv'
    BY <2>1, <2>3 DEF ZaloInv, DrainInv
  <2>. QED BY <2>4, <2>5, <2>6, <2>7 DEF ZaloInv
<1>2. CASE ~(MayGoOn(c) /\ event[c].kind \notin {"bot", "bare"})
  <2>1. Local(c)
    BY <1>2 DEF CheckStopped, Local, Active, Stage
  <2>. QED BY <2>1, LocalKeeps
<1>. QED BY <1>1, <1>2

\* The window after a claim: the oldest entry goes when it is full.
LEMMA ClaimWindow ==
  ASSUME ZaloType, WindowInv, NEW e \in Event, ~Seen(e),
         seen' = Window(Append(seen, e)),
         age' = [d \in Event |-> IF d = e THEN 0 ELSE IF age[d] < SeenCap THEN age[d] + 1 ELSE SeenCap]
  PROVE  seen' \in Seq(Event) /\ age' \in [Event -> Nat] /\ WindowInv'
<1>. DEFINE n == Len(seen)
            whole == Append(seen, e)
<1>1. SeenCap \in Nat /\ SeenCap > 0 /\ n \in 0..SeenCap /\ seen \in Seq(Event)
  BY ZaloAssumption DEF ZaloType, WindowInv
<1>2. /\ whole \in Seq(Event) /\ Len(whole) = n + 1 /\ whole[n + 1] = e
      /\ \A i \in 1..n : whole[i] = seen[i]
  BY <1>1
<1>3. \A i \in 1..n : seen[i] \in Event /\ seen[i] # e /\ age[seen[i]] = n - i
  BY <1>1 DEF Seen, WindowInv
<1>4. \A d \in Event : age[d] \in Nat
  BY DEF ZaloType
<1>5. age' \in [Event -> Nat]
  BY <1>1, <1>4
<1>6. age'[e] = 0 /\ \A i \in 1..n : age'[seen[i]] = n + 1 - i
  BY <1>1, <1>3
<1>7. \A i \in 1..n + 1 : age'[whole[i]] = n + 1 - i
  BY <1>1, <1>2, <1>6
<1>8. ASSUME NEW d \in Event, d # e, ~Seen(d) PROVE age'[d] >= SeenCap
  BY <1>1, <1>4, <1>8 DEF WindowInv
<1>9. CASE n < SeenCap
  <2>1. seen' = whole
    BY <1>1, <1>2, <1>9 DEF Window
  <2>2. ASSUME NEW d \in Event, ~Seen(d)' PROVE d # e /\ ~Seen(d)
    <3>1. \A i \in 1..n + 1 : whole[i] # d
      BY <1>1, <1>2, <2>1, <2>2 DEF Seen
    <3>. QED BY <1>1, <1>2, <3>1 DEF Seen
  <2>3. \A i \in 1..Len(seen') : age'[seen'[i]] = Len(seen') - i
    BY <1>1, <1>2, <1>7, <2>1
  <2>4. Len(seen') <= SeenCap
    BY <1>1, <1>2, <1>9, <2>1
  <2>. QED BY <1>2, <1>5, <1>8, <2>1, <2>2, <2>3, <2>4 DEF WindowInv
<1>10. CASE n = SeenCap
  <2>1. seen' = Tail(whole)
    BY <1>1, <1>2, <1>10 DEF Window
  <2>2. /\ seen' \in Seq(Event) /\ Len(seen') = n
        /\ \A i \in 1..n : seen'[i] = whole[i + 1]
    BY <1>1, <1>2, <2>1
  <2>3. \A i \in 1..Len(seen') : age'[seen'[i]] = Len(seen') - i
    <3>1. ASSUME NEW i \in 1..n PROVE age'[seen'[i]] = n - i
      <4>1. i + 1 \in 1..n + 1 /\ seen'[i] = whole[i + 1]
        BY <1>1, <2>2
      <4>2. age'[whole[i + 1]] = n + 1 - (i + 1)
        BY <1>7, <4>1
      <4>. QED BY <1>1, <4>1, <4>2
    <3>. QED BY <2>2, <3>1
  <2>4. ASSUME NEW d \in Event, ~Seen(d)' PROVE age'[d] >= SeenCap
    <3>1. \A i \in 1..n : whole[i + 1] # d
      BY <2>2, <2>4 DEF Seen
    <3>2. d # e
      BY <1>1, <1>2, <1>10, <3>1
    <3>3. CASE Seen(d)
      <4>1. PICK i \in 1..n : seen[i] = d
        BY <1>1, <3>3 DEF Seen
      <4>2. i = 1
        <5>1. SUFFICES ASSUME i # 1 PROVE FALSE
          OBVIOUS
        <5>2. i - 1 \in 1..n /\ whole[(i - 1) + 1] = d
          BY <1>1, <1>2, <4>1, <5>1
        <5>. QED BY <3>1, <5>2
      <4>3. age'[seen[i]] = n + 1 - i
        BY <1>6
      <4>. QED BY <1>1, <1>10, <4>1, <4>2, <4>3
    <3>4. CASE ~Seen(d)
      BY <1>8, <3>2, <3>4
    <3>. QED BY <3>3, <3>4
  <2>. QED BY <1>1, <1>5, <1>10, <2>2, <2>3, <2>4 DEF WindowInv
<1>. QED BY <1>1, <1>9, <1>10

LEMMA ClaimKeeps == ASSUME ZaloInv, NEW c \in Carrier, Claim(c) PROVE ZaloInv'
<1>1. /\ pc[c] = "claim" /\ event[c] \in Event
      /\ UNCHANGED <<mode, stopped, slot, locked, count, allowance, event, pending, again>>
  BY DEF Claim, ZaloInv, ZaloType, pairing, platform
<1>2. CASE Seen(event[c])
  <2>1. Local(c)
    BY <1>2 DEF Claim, Local, Active, Stage
  <2>. QED BY <2>1, LocalKeeps
<1>3. CASE ~Seen(event[c])
  <2>1. PICK to \in {"done", "gate"} : Goes(c, to)
    BY <1>3 DEF Claim
  <2>2. /\ pc' \in [Carrier -> Stage] /\ pc'[c] = to
        /\ \A d \in Carrier : d # c => pc'[d] = pc[d]
    BY <2>1, GoesTo DEF ZaloInv, ZaloType, Stage
  <2>3. late' = IF stopped THEN late + 1 ELSE late
    BY <1>3 DEF Claim
  <2>4. seen' \in Seq(Event) /\ age' \in [Event -> Nat] /\ WindowInv'
    BY <1>1, <1>3, ClaimWindow DEF Claim, ZaloInv
  <2>5. ZaloType'
    <3>1. late' \in Nat
      BY <2>3 DEF ZaloInv, ZaloType
    <3>. QED BY <1>1, <2>1, <2>2, <2>4, <3>1 DEF ZaloInv, ZaloType
  <2>6. GuessInv'
    BY <1>1 DEF ZaloInv, GuessInv
  <2>7. AloneInv'
    BY <1>1, <2>1, <2>2 DEF ZaloInv, AloneInv, Active
  <2>8. DrainInv'
    <3>1. CASE ~stopped
      BY <1>1, <2>3, <3>1 DEF ZaloInv, DrainInv
    <3>2. CASE stopped
      <4>1. late = 0
        BY <1>1 DEF ZaloInv, ZaloType, DrainInv
      <4>2. \A d \in Carrier : d # c => pc[d] # "claim"
        BY <1>1, ZaloAssumption DEF ZaloInv, AloneInv, Active
      <4>. QED BY <1>1, <2>1, <2>2, <2>3, <3>2, <4>1, <4>2 DEF DrainInv
    <3>. QED BY <3>1, <3>2
  <2>. QED BY <2>4, <2>5, <2>6, <2>7, <2>8 DEF ZaloInv
<1>. QED BY <1>2, <1>3

\* Entries of _pairing_failures come and go.
LEMMA PairedKeeps == ASSUME ZaloInv, NEW c \in Carrier, Paired(c) \/ WrongCode(c) PROVE ZaloInv'
<1>1. /\ pc[c] = "gate" /\ Goes(c, "done") /\ MayGuess(event[c])
      /\ UNCHANGED <<mode, stopped, slot, seen, age, late, event, pending, again>>
  BY DEF Paired, WrongCode, Unpaired, claims, platform
<1>2. /\ pc' \in [Carrier -> Stage] /\ pc'[c] = "done"
      /\ \A d \in Carrier : d # c => pc'[d] = pc[d]
  BY <1>1, GoesTo DEF ZaloInv, ZaloType, Stage
<1>3. /\ count \in [Chat -> Nat] /\ allowance \in [Chat -> Int] /\ locked \subseteq Chat
      /\ MaxFailures \in Nat \ {0}
  BY ZaloAssumption DEF ZaloInv, ZaloType
<1>4. event[c].chat \in Chat /\ event[c].chat \notin locked
  <2>1. event[c] \in Event
    BY <1>1 DEF ZaloInv, ZaloType
  <2>. QED BY <1>1, <2>1, ZaloAssumption DEF MayGuess
<1>5. /\ count' \in [Chat -> Nat] /\ allowance' \in [Chat -> Int] /\ locked' \subseteq Chat
      /\ GuessInv'
  <2>1. CASE Paired(c)
    <3>. DEFINE d == event[c].chat
    <3>1. /\ count' = [count EXCEPT ![d] = 0] /\ locked' = locked \ {d}
          /\ allowance' = [allowance EXCEPT ![d] = MaxFailures]
      BY <2>1 DEF Paired
    <3>. QED BY <1>3, <1>4, <3>1 DEF ZaloInv, GuessInv
  <2>2. CASE WrongCode(c)
    <3>. DEFINE d == event[c].chat
                moved == Append(SelectSeq(order, LAMBDA b : b # d), d)
                gone == IF Len(moved) > FailCap THEN {Head(moved)} ELSE {}
    <3>1. /\ count' = [b \in Chat |-> IF b \in gone THEN 0 ELSE IF b = d THEN count[d] + 1 ELSE count[b]]
          /\ locked' = (IF count[d] + 1 >= MaxFailures THEN locked \cup {d} ELSE locked \ {d}) \ gone
          /\ allowance' = [b \in Chat |-> IF b \in gone THEN MaxFailures
                                          ELSE IF b = d THEN allowance[d] - 1 ELSE allowance[b]]
      BY <2>2 DEF WrongCode
    <3>. HIDE DEF gone
    <3>2. /\ count' \in [Chat -> Nat] /\ allowance' \in [Chat -> Int] /\ locked' \subseteq Chat
      BY <1>3, <1>4, <3>1
    <3>3. ASSUME NEW b \in Chat
          PROVE  /\ allowance'[b] >= MaxFailures - count'[b] /\ allowance'[b] >= 0
                 /\ b \notin locked' => allowance'[b] >= 1
      <4>1. /\ allowance[b] \in Int /\ count[b] \in Nat /\ allowance[b] >= MaxFailures - count[b]
            /\ allowance[b] >= 0 /\ (b \notin locked => allowance[b] >= 1)
        BY <1>3 DEF ZaloInv, GuessInv
      <4>2. CASE b \in gone
        BY <1>3, <3>1, <4>2
      <4>3. CASE b \notin gone /\ b = d
        <5>1. allowance'[b] = allowance[b] - 1 /\ count'[b] = count[b] + 1
          BY <3>1, <4>3
        <5>2. b \notin locked
          BY <1>4, <4>3
        <5>3. b \notin locked' => count[b] + 1 < MaxFailures
          BY <1>3, <3>1, <4>1, <4>3
        <5>. QED BY <1>3, <4>1, <5>1, <5>2, <5>3
      <4>4. CASE b \notin gone /\ b # d
        BY <3>1, <4>1, <4>4
      <4>. QED BY <4>2, <4>3, <4>4
    <3>. QED BY <3>2, <3>3 DEF GuessInv
  <2>. QED BY <2>1, <2>2
<1>6. ZaloType'
  BY <1>1, <1>2, <1>5 DEF ZaloInv, ZaloType
<1>7. WindowInv'
  BY <1>1 DEF ZaloInv, WindowInv, Seen
<1>8. AloneInv' /\ DrainInv'
  BY <1>1, <1>2 DEF ZaloInv, AloneInv, DrainInv, Active
<1>. QED BY <1>5, <1>6, <1>7, <1>8 DEF ZaloInv

LEMMA LockoutKeeps == ASSUME ZaloInv, NEW c \in Chat, LockoutEnds(c) PROVE ZaloInv'
<1>1. /\ locked' = locked \ {c} /\ allowance' = [allowance EXCEPT ![c] = @ + 1]
      /\ UNCHANGED <<mode, stopped, slot, seen, age, late, count, pc, event, pending, again>>
  BY DEF LockoutEnds, claims, platform
<1>2. /\ count \in [Chat -> Nat] /\ allowance \in [Chat -> Int] /\ locked \subseteq Chat
      /\ MaxFailures \in Nat \ {0}
  BY ZaloAssumption DEF ZaloInv, ZaloType
<1>3. GuessInv' /\ allowance' \in [Chat -> Int] /\ locked' \subseteq Chat
  BY <1>1, <1>2 DEF ZaloInv, GuessInv
<1>4. ZaloType'
  BY <1>1, <1>3 DEF ZaloInv, ZaloType
<1>5. WindowInv' /\ AloneInv' /\ DrainInv'
  BY <1>1 DEF ZaloInv, WindowInv, Seen, AloneInv, DrainInv, Active
<1>. QED BY <1>3, <1>4, <1>5 DEF ZaloInv

\* Updates come in and are answered.
LEMMA ArrivalKeeps ==
  ASSUME ZaloInv, NEW c \in Carrier, NEW e \in Event,
         Connect(c, e) \/ TakeSlot(c) \/ (Poll(e) /\ c = Poller) \/ Answer(c)
  PROVE  ZaloInv'
<1>1. UNCHANGED <<mode, stopped, seen, age, late, locked, count, allowance>>
  BY DEF Connect, TakeSlot, Poll, Answer, claims, pairing
<1>2. WindowInv' /\ GuessInv'
  BY <1>1 DEF ZaloInv, WindowInv, Seen, GuessInv
<1>3. pending' \subseteq Event /\ again' \in Nat
  BY DEF Connect, TakeSlot, Poll, Answer, ZaloInv, ZaloType, platform
<1>4. None \notin Carrier
  BY ZaloAssumption
<1>5. PICK to \in Stage \ {"claim"} : Goes(c, to)
  BY DEF Connect, TakeSlot, Poll, Answer, Stage
<1>6. /\ pc' \in [Carrier -> Stage] /\ pc'[c] = to
      /\ \A d \in Carrier : d # c => pc'[d] = pc[d]
  BY <1>5, GoesTo DEF ZaloInv, ZaloType
<1>7. DrainInv'
  BY <1>1, <1>5, <1>6 DEF ZaloInv, DrainInv
<1>8. /\ event \in [Carrier -> Event \cup {None}]
      /\ \A d \in Carrier : pc[d] # "idle" => event[d] \in Event
  BY DEF ZaloInv, ZaloType
<1>9. \/ event' = event /\ pc[c] # "idle"
      \/ event' = [event EXCEPT ![c] = e]
      \/ event' = [event EXCEPT ![c] = None] /\ to = "idle"
  BY <1>6 DEF Connect, TakeSlot, Poll, Answer, Goes, ZaloInv, ZaloType
<1>10. /\ event' \in [Carrier -> Event \cup {None}]
       /\ \A d \in Carrier : pc'[d] # "idle" => event'[d] \in Event
  BY <1>6, <1>8, <1>9
<1>11. slot' \in Carrier \cup {None} /\ AloneInv'
  <2>1. CASE Connect(c, e)
    <3>1. mode = "webhook" /\ pc[c] = "idle" /\ slot' = slot /\ to = "slot"
      BY <2>1, <1>6 DEF Connect, Goes, ZaloInv, ZaloType
    <3>. QED BY <1>1, <1>6, <3>1 DEF ZaloInv, ZaloType, AloneInv, Active
  <2>2. CASE TakeSlot(c)
    <3>1. pc[c] = "slot" /\ mode = "webhook"
      BY <2>2 DEF TakeSlot, ZaloInv, AloneInv
    <3>2. CASE slot # None
      <4>1. slot' = slot /\ to = "idle"
        BY <2>2, <3>2, <1>6 DEF TakeSlot, Goes, ZaloInv, ZaloType
      <4>. QED BY <1>1, <1>6, <3>1, <4>1 DEF ZaloInv, ZaloType, AloneInv, Active
    <3>3. CASE slot = None
      <4>1. slot' = c /\ to \in {"bad", "update"}
        BY <2>2, <3>3, <1>6 DEF TakeSlot, Goes, ZaloInv, ZaloType
      <4>2. \A d \in Carrier : ~Active(d)
        BY <1>4, <3>1, <3>3 DEF ZaloInv, AloneInv
      <4>. QED BY <1>1, <1>6, <3>1, <4>1, <4>2 DEF ZaloInv, AloneInv, Active
    <3>. QED BY <3>2, <3>3
  <2>3. CASE Poll(e) /\ c = Poller
    <3>1. mode = "poll" /\ slot' = slot /\ to \in {"done", "update"}
      BY <2>3, <1>6 DEF Poll, Goes, ZaloInv, ZaloType
    <3>. QED BY <2>3, <1>1, <1>6, <3>1 DEF ZaloInv, ZaloType, AloneInv, Active
  <2>4. CASE Answer(c)
    <3>1. to = "idle" /\ slot' = IF slot = c THEN None ELSE slot
      BY <2>4, <1>6 DEF Answer, FreedSlot, Goes, ZaloInv, ZaloType
    <3>2. \A d \in Carrier : d # c /\ slot = d => slot' = d
      BY <3>1
    <3>3. slot' \in Carrier \cup {None}
      BY <3>1 DEF ZaloInv, ZaloType
    <3>. QED BY <1>1, <1>6, <3>1, <3>2, <3>3 DEF ZaloInv, AloneInv, Active
  <2>. QED BY <2>1, <2>2, <2>3, <2>4
<1>12. ZaloType'
  BY <1>1, <1>3, <1>6, <1>10, <1>11 DEF ZaloInv, ZaloType
<1>. QED BY <1>2, <1>7, <1>11, <1>12 DEF ZaloInv

LEMMA ZaloStep == ASSUME ZaloInv, ZaloNext \/ UNCHANGED zalo PROVE ZaloInv'
<1>1. ASSUME NEW m \in {"webhook", "poll", "off"}, Start(m) PROVE ZaloInv'
  <2>1. /\ mode = "unset" /\ mode' = m
        /\ UNCHANGED <<stopped, slot, seen, age, late, locked, count, allowance, pc, event, pending, again>>
    BY <1>1 DEF Start, claims, pairing, platform
  <2>2. \A c \in Carrier : pc[c] \notin {"slot"} /\ ~Active(c)
    BY <2>1 DEF ZaloInv, AloneInv
  <2>3. ZaloType'
    BY <1>1, <2>1 DEF ZaloInv, ZaloType
  <2>4. WindowInv' /\ GuessInv' /\ DrainInv'
    BY <2>1 DEF ZaloInv, WindowInv, Seen, GuessInv, DrainInv
  <2>5. AloneInv'
    BY <2>1, <2>2 DEF AloneInv, Active
  <2>. QED BY <2>3, <2>4, <2>5 DEF ZaloInv
<1>2. ASSUME NEW e \in Event, Redeliver(e) PROVE ZaloInv'
  <2>1. /\ pending' = pending \cup {e} /\ again > 0 /\ again' = again - 1
        /\ UNCHANGED <<mode, stopped, slot, seen, age, late, locked, count, allowance, pc, event>>
    BY <1>2 DEF Redeliver, claims, pairing
  <2>2. pending' \subseteq Event /\ again' \in Nat
    BY <2>1 DEF ZaloInv, ZaloType
  <2>3. ZaloType'
    BY <2>1, <2>2 DEF ZaloInv, ZaloType
  <2>4. WindowInv' /\ GuessInv' /\ AloneInv' /\ DrainInv'
    BY <2>1 DEF ZaloInv, WindowInv, Seen, GuessInv, AloneInv, Active, DrainInv
  <2>. QED BY <2>3, <2>4 DEF ZaloInv
<1>3. ASSUME NEW e \in Event, Delivers(e) PROVE ZaloInv'
  BY <1>3, ArrivalKeeps, ZaloAssumption DEF Delivers
<1>4. ASSUME NEW c \in Carrier, Carries(c) PROVE ZaloInv'
  <2>1. CASE TakeSlot(c) \/ Answer(c)
    <3>1. \E e \in Event : TRUE
      <4>1. pc[c] # "idle"
        BY <2>1 DEF TakeSlot, Answer
      <4>. QED BY <4>1 DEF ZaloInv, ZaloType
    <3>. QED BY <2>1, <3>1, ArrivalKeeps
  <2>2. CASE CheckStopped(c)
    BY <2>2, CheckKeeps
  <2>3. CASE Claim(c)
    BY <2>3, ClaimKeeps
  <2>4. CASE Admit(c) \/ NotPaired(c) \/ BeginTurn(c) \/ EndTurn(c)
    BY <2>4, LocalSteps, LocalKeeps
  <2>5. CASE Paired(c) \/ WrongCode(c)
    BY <2>5, PairedKeeps
  <2>. QED BY <1>4, <2>1, <2>2, <2>3, <2>4, <2>5 DEF Carries
<1>5. ASSUME NEW c \in Chat, LockoutEnds(c) PROVE ZaloInv'
  BY <1>5, LockoutKeeps
<1>6. CASE Stop
  <2>1. /\ stopped' = TRUE
        /\ UNCHANGED <<mode, slot, seen, age, late, locked, count, allowance, pc, event, pending, again>>
    BY <1>6 DEF Stop, claims, pairing, platform
  <2>2. ZaloType'
    BY <2>1 DEF ZaloInv, ZaloType
  <2>3. WindowInv' /\ GuessInv' /\ AloneInv'
    BY <2>1 DEF ZaloInv, WindowInv, Seen, GuessInv, AloneInv, Active
  <2>4. DrainInv'
    BY <2>1 DEF ZaloInv, DrainInv
  <2>. QED BY <2>2, <2>3, <2>4 DEF ZaloInv
<1>7. CASE Restart
  <2>1. /\ mode' = "unset" /\ stopped' = FALSE /\ slot' = None /\ seen' = <<>> /\ late' = 0
        /\ locked' = {} /\ UNCHANGED <<pending, again>>
        /\ age' = Unclaimed /\ count' = NoFailures /\ allowance' = FullAllowance
        /\ pc' = Idle /\ event' = Empty
    BY <1>7 DEF Restart, platform
  <2>2. age' \in [Event -> Nat] /\ count' \in [Chat -> Nat] /\ allowance' \in [Chat -> Int]
    BY <2>1, ZaloAssumption DEF Unclaimed, NoFailures, FullAllowance
  <2>3. pc' \in [Carrier -> Stage] /\ event' \in [Carrier -> Event \cup {None}]
    BY <2>1 DEF Idle, Empty, Stage
  <2>4. \A c \in Carrier : pc'[c] = "idle"
    BY <2>1 DEF Idle
  <2>5. seen' \in Seq(Event) /\ late' \in Nat
    BY <2>1
  <2>6. pending' \subseteq Event /\ again' \in Nat
    BY <2>1 DEF ZaloInv, ZaloType
  <2>7. ZaloType'
    BY <2>1, <2>2, <2>3, <2>4, <2>5, <2>6 DEF ZaloType
  <2>8. WindowInv' /\ GuessInv'
    BY <2>1, ZaloAssumption DEF WindowInv, GuessInv, Unclaimed, NoFailures, FullAllowance
  <2>9. AloneInv' /\ DrainInv'
    BY <2>1, <2>4 DEF AloneInv, DrainInv, Active
  <2>. QED BY <2>7, <2>8, <2>9 DEF ZaloInv
<1>8. CASE Shutdown \/ UNCHANGED zalo
  <2>1. UNCHANGED <<mode, stopped, slot, seen, age, late, locked, count, allowance, pc, event, pending, again>>
    BY <1>8 DEF Shutdown, zalo, claims, pairing, platform
  <2>2. ZaloType'
    BY <2>1 DEF ZaloInv, ZaloType
  <2>3. WindowInv' /\ GuessInv' /\ AloneInv' /\ DrainInv'
    BY <2>1 DEF ZaloInv, WindowInv, Seen, GuessInv, AloneInv, Active, DrainInv
  <2>. QED BY <2>2, <2>3 DEF ZaloInv
<1>. QED BY <1>1, <1>2, <1>3, <1>4, <1>5, <1>6, <1>7, <1>8 DEF ZaloNext

LEMMA ZaloInvariant == Spec => []ZaloInv
<1>1. Init => ZaloInv
  BY ZaloStart DEF Init
<1>2. ZaloInv /\ [Next]_cvars => ZaloInv'
  BY ZaloStep, StepOfOne
<1>. QED BY <1>1, <1>2, PTL DEF Spec

\* _mark_seen: whatever is delivered again and again, an update is new only if the
\* window has been filled anew since its claim.
THEOREM ReplayWindowTheorem == Spec => []ReplayWindow
<1>1. ZaloInv => ReplayWindow
  BY DEF ZaloInv, WindowInv, ReplayWindow
<1>. QED BY <1>1, ZaloInvariant, PTL

\* _pair: MaxFailures guesses, and one more for each lock-out that has passed.
THEOREM GuessesLimitedTheorem == Spec => []GuessesLimited
<1>1. ZaloInv => GuessesLimited
  BY DEF ZaloInv, GuessInv, GuessesLimited
<1>. QED BY <1>1, ZaloInvariant, PTL

\* stop(): one update at most is claimed after it, however many threads wait.
THEOREM DrainsOneTheorem == Spec => []DrainsOne
<1>1. ZaloInv => DrainsOne
  BY DEF ZaloInv, DrainInv, DrainsOne
<1>. QED BY <1>1, ZaloInvariant, PTL

-----------------------------------------------------------------------------
(* The client: a message chunk by chunk.                                   *)

\* The chat that is being written to has seen the chunks before the current one;
\* who is still to be notified has seen none, and who was notified all or failed.
ClientInv ==
  /\ method \in {"none", "next", "sendMessage"} \cup Requests
  /\ purpose \in {"none", "reply", "notify"}
  /\ size \in Nat /\ chunk \in Nat /\ attempt \in Nat
  /\ todo \subseteq Audience /\ shown \in [Audience -> Seq(Nat)]
  /\ \A c \in Audience : \A i \in 1..Len(shown[c]) : shown[c][i] = i
  /\ \A c \in todo : shown[c] = <<>>
  /\ method \notin {"next", "sendMessage"} => todo = {}
  /\ method = "next" => purpose = "notify" /\ size > 0
  /\ method = "sendMessage" =>
       /\ chat \in Audience \ todo /\ chunk \in 1..size
       /\ purpose # "none" /\ (purpose = "reply" => todo = {})
       /\ Len(shown[chat]) = chunk - 1
  /\ purpose = "notify" =>
       \A c \in Audience \ todo :
         c \in failed \/ Len(shown[c]) = size \/ (method = "sendMessage" /\ c = chat)

\* One more chunk in a row.
LEMMA RowGrows ==
  ASSUME NEW row \in Seq(Nat), NEW n \in Nat, n = Len(row) + 1, \A i \in 1..Len(row) : row[i] = i
  PROVE  /\ Append(row, n) \in Seq(Nat) /\ Len(Append(row, n)) = n
         /\ \A i \in 1..n : Append(row, n)[i] = i
OBVIOUS

\* What the current chunk makes of what its chat has seen.
LEMMA ShowsChunk ==
  ASSUME ClientInv, method = "sendMessage", Shows
  PROVE  /\ shown' \in [Audience -> Seq(Nat)]
         /\ \A c \in Audience : \A i \in 1..Len(shown'[c]) : shown'[c][i] = i
         /\ Len(shown'[chat]) = chunk /\ \A c \in Audience : c # chat => shown'[c] = shown[c]
<1>1. /\ chat \in Audience /\ chunk \in Nat /\ Len(shown[chat]) = chunk - 1
      /\ shown \in [Audience -> Seq(Nat)] /\ shown[chat] \in Seq(Nat)
      /\ \A c \in Audience : \A i \in 1..Len(shown[c]) : shown[c][i] = i
  BY DEF ClientInv
<1>2. shown' = [shown EXCEPT ![chat] = Append(@, chunk)]
  BY DEF Shows
<1>3. chunk = Len(shown[chat]) + 1
  BY <1>1
<1>4. /\ shown'[chat] = Append(shown[chat], chunk)
      /\ \A c \in Audience : c # chat => shown'[c] = shown[c]
  BY <1>1, <1>2
<1>5. /\ shown'[chat] \in Seq(Nat) /\ Len(shown'[chat]) = chunk
      /\ \A i \in 1..chunk : shown'[chat][i] = i
  BY <1>1, <1>3, <1>4, RowGrows
<1>6. shown' \in [Audience -> Seq(Nat)]
  BY <1>1, <1>2, <1>4, <1>5
<1>7. ASSUME NEW c \in Audience PROVE \A i \in 1..Len(shown'[c]) : shown'[c][i] = i
  BY <1>1, <1>4, <1>5
<1>. QED BY <1>4, <1>5, <1>6, <1>7

LEMMA ClientStart == ClientInit => ClientInv
BY DEF ClientInit, ClientInv

\* A call that shows nothing and is tried again.
LEMMA RetryKeeps == ASSUME ClientInv, NEW why, Retry(why), UNCHANGED shown PROVE ClientInv'
BY DEF ClientInv, Retry, CanRetry, Requests

LEMMA ClientStep == ASSUME ClientInv, ClientNext \/ UNCHANGED client PROVE ClientInv'
<1>1. ASSUME NEW n \in 1..Chunks, NEW c \in Audience, Reply(c, n) PROVE ClientInv'
  <2>1. n \in Nat /\ 1 \in 1..n
    BY ClientAssumption
  <2>2. /\ method' = "sendMessage" /\ chat' = c /\ chunk' = 1 /\ size' = n /\ attempt' = 1
        /\ purpose' = "reply" /\ todo' = {} /\ shown' = [d \in Audience |-> <<>>]
    BY <1>1 DEF Reply, Starts, ClientInv, Requests
  <2>3. shown' \in [Audience -> Seq(Nat)] /\ \A d \in Audience : shown'[d] = <<>>
    BY <2>2
  <2>. QED BY <2>1, <2>2, <2>3 DEF ClientInv
<1>2. ASSUME NEW n \in 1..Chunks, Notify(n) PROVE ClientInv'
  <2>1. /\ method' = "next" /\ purpose' = "notify" /\ todo' = Audience /\ size' = n
        /\ shown' = [d \in Audience |-> <<>>] /\ n \in Nat /\ UNCHANGED <<chunk, attempt>>
    BY <1>2, ClientAssumption DEF Notify
  <2>2. shown' \in [Audience -> Seq(Nat)] /\ \A d \in Audience : shown'[d] = <<>>
    BY <2>1
  <2>. QED BY <2>1, <2>2 DEF ClientInv
<1>3. CASE NotifyNext
  <2>1. /\ method = "next" /\ size \in Nat /\ size > 0 /\ purpose = "notify"
        /\ UNCHANGED <<purpose, shown, failed>>
    BY <1>3 DEF NotifyNext, ClientInv
  <2>2. PICK c \in todo : /\ todo' = todo \ {c} /\ method' = "sendMessage" /\ chat' = c
                          /\ chunk' = 1 /\ size' = size /\ attempt' = 1
    BY <1>3 DEF NotifyNext, Starts
  <2>3. /\ c \in Audience /\ shown[c] = <<>> /\ Len(shown[c]) = 0
        /\ todo' \subseteq Audience /\ c \notin todo' /\ 1 \in 1..size
    BY <2>1, <2>2 DEF ClientInv
  <2>4. \A d \in Audience \ todo' : d = c \/ d \in Audience \ todo
    BY <2>2
  <2>5. \A d \in Audience \ todo' : d \in failed \/ Len(shown[d]) = size \/ d = c
    BY <2>1, <2>4 DEF ClientInv
  <2>. QED BY <2>1, <2>2, <2>3, <2>5 DEF ClientInv
<1>4. CASE NotifyEnds
  BY <1>4 DEF NotifyEnds, ClientInv, Requests
<1>5. CASE SendOk
  <2>1. /\ method = "sendMessage" /\ Shows /\ size \in Nat /\ chunk \in 1..size /\ purpose # "none"
        /\ UNCHANGED <<purpose, chat, size, todo, failed>>
        /\ chat \in Audience \ todo
    BY <1>5 DEF SendOk, ClientInv
  <2>2. /\ shown' \in [Audience -> Seq(Nat)]
        /\ \A c \in Audience : \A i \in 1..Len(shown'[c]) : shown'[c][i] = i
        /\ Len(shown'[chat]) = chunk /\ \A c \in Audience : c # chat => shown'[c] = shown[c]
    BY <2>1, ShowsChunk
  <2>3. \A c \in todo : shown'[c] = <<>>
    BY <2>1, <2>2 DEF ClientInv
  <2>4. CASE chunk < size
    <3>1. method' = method /\ chunk' = chunk + 1 /\ attempt' = 1 /\ chunk' \in 1..size
      BY <1>5, <2>1, <2>4 DEF SendOk
    <3>. QED BY <2>1, <2>2, <2>3, <3>1 DEF ClientInv
  <2>5. CASE chunk = size
    <3>1. method' = AfterChat /\ UNCHANGED <<chunk, attempt>>
      BY <1>5, <2>1, <2>5 DEF SendOk
    <3>2. purpose = "notify" => \A c \in Audience \ todo : c \in failed \/ Len(shown'[c]) = size
      BY <2>1, <2>2, <2>5 DEF ClientInv
    <3>. QED BY <2>1, <2>2, <2>3, <3>1, <3>2 DEF ClientInv, AfterChat, Requests
  <2>. QED BY <2>1, <2>4, <2>5
<1>6. ASSUME NEW m \in Requests, Request(m) PROVE ClientInv'
  BY <1>6 DEF Request, ClientInv, Requests
<1>7. ASSUME NEW result, RequestEnds(result) PROVE ClientInv'
  BY <1>7 DEF RequestEnds, ClientInv, Requests
<1>8. ASSUME NEW why \in Failure, SendRetried(why) PROVE ClientInv'
  <2>1. why = "limited"
    BY <1>8 DEF SendRetried, Retry, CanRetry, RetryTransient
  <2>2. Retry(why) /\ UNCHANGED shown
    BY <1>8, <2>1 DEF SendRetried, MayBeShown
  <2>. QED BY <2>2, RetryKeeps
<1>9. ASSUME NEW why \in Failure, SendFails(why) PROVE ClientInv'
  <2>1. /\ method = "sendMessage" /\ chunk \in Nat /\ method' = AfterChat /\ purpose # "none"
        /\ failed' = failed \cup {chat} /\ UNCHANGED <<purpose, chat, chunk, size, todo, attempt>>
        /\ chat \in Audience \ todo
    BY <1>9 DEF SendFails, ClientInv
  <2>2. UNCHANGED shown \/ Shows
    BY <1>9 DEF SendFails, MayBeShown
  <2>3. /\ shown' \in [Audience -> Seq(Nat)]
        /\ \A c \in Audience : \A i \in 1..Len(shown'[c]) : shown'[c][i] = i
        /\ \A c \in Audience : c # chat => shown'[c] = shown[c]
    BY <2>1, <2>2, ShowsChunk DEF ClientInv
  <2>4. \A c \in todo : shown'[c] = <<>>
    BY <2>1, <2>3 DEF ClientInv
  <2>5. purpose = "notify" => \A c \in Audience \ todo : c \in failed' \/ Len(shown'[c]) = size
    BY <2>1, <2>3 DEF ClientInv
  <2>6. size > 0
    BY <2>1 DEF ClientInv
  <2>7. /\ size \in Nat /\ attempt \in Nat /\ todo \subseteq Audience
        /\ (purpose = "reply" => todo = {}) /\ purpose \in {"reply", "notify"}
    BY <2>1 DEF ClientInv
  <2>. QED BY <2>1, <2>3, <2>4, <2>5, <2>6, <2>7 DEF ClientInv, AfterChat, Requests
<1>10. ASSUME NEW why \in Failure, RequestRetried(why) PROVE ClientInv'
  BY <1>10, RetryKeeps DEF RequestRetried
<1>11. ASSUME NEW why \in Failure, RequestFails(why) PROVE ClientInv'
  BY <1>11, <1>7 DEF RequestFails
<1>12. CASE UNCHANGED client
  BY <1>12 DEF client, ClientInv
<1>. QED
  BY <1>1, <1>2, <1>3, <1>4, <1>5, <1>6, <1>7, <1>8, <1>9, <1>10, <1>11, <1>12 DEF ClientNext

LEMMA ClientInvariant == Spec => []ClientInv
<1>1. Init => ClientInv
  BY ClientStart DEF Init
<1>2. ClientInv /\ [Next]_cvars => ClientInv'
  BY ClientStep, StepOfOne
<1>. QED BY <1>1, <1>2, PTL DEF Spec

\* _call: no retry shows a chunk twice, and every chat that does not fail gets the
\* whole of a notification.
THEOREM SentOnceTheorem == Spec => []SentOnce
<1>1. ClientInv => SentOnce
  <2>1. ASSUME ClientInv, NEW c \in Audience PROVE shown[c] = [i \in 1..Len(shown[c]) |-> i]
    <3>1. shown[c] \in Seq(Nat) /\ \A i \in 1..Len(shown[c]) : shown[c][i] = i
      BY <2>1 DEF ClientInv
    <3>. QED BY <3>1
  <2>. QED BY <2>1 DEF ClientInv, SentOnce
<1>. QED BY <1>1, ClientInvariant, PTL

-----------------------------------------------------------------------------
(* The Telegram channel.                                                   *)

TelegramType ==
  /\ offset \in Nat /\ dropped \in Nat \ {0} /\ batch \in Seq(Nat)
  /\ handled \in [Number -> Nat] /\ restarts \in Nat
  /\ day \in 1..MaxDays /\ lastSent \in 0..day /\ begun \in [1..MaxDays -> Nat]

\* A batch goes on where the offset is, and the offset and the server have left
\* nothing behind; what is at the offset or after it was handled before a restart
\* only.
PollInv ==
  /\ \A i \in 1..Len(batch) : /\ batch[i] = Larger(dropped, offset) + i - 1
                              /\ batch[i] \in Number
  /\ \A u \in Number :
       /\ u < dropped \/ u < offset => handled[u] >= 1
       /\ handled[u] <= 1 + restarts
       /\ u >= offset => handled[u] <= restarts

\* The briefing of a day that is not marked was begun before a restart only.
BriefingInv ==
  /\ \A d \in 1..MaxDays : /\ begun[d] <= 1 + restarts
                           /\ d > day => begun[d] = 0
  /\ lastSent # day => begun[day] <= restarts

TelegramInv == TelegramType /\ PollInv /\ BriefingInv

LEMMA TelegramStart == TelegramInit => TelegramInv
<1>. SUFFICES ASSUME TelegramInit PROVE TelegramInv
  OBVIOUS
<1>. USE TelegramAssumption DEF TelegramInit, Number
<1>1. TelegramType
  BY DEF TelegramType
<1>2. PollInv /\ BriefingInv
  BY DEF PollInv, BriefingInv
<1>. QED BY <1>1, <1>2 DEF TelegramInv

LEMMA Positive == ASSUME NEW m \in Nat, m > 0, NEW n \in Nat, n > 0 PROVE m + n - 1 \in Nat \ {0}
OBVIOUS

LEMMA GetKeeps ==
  ASSUME TelegramInv, NEW arrives \in BOOLEAN, GetUpdates(arrives)
  PROVE  TelegramInv'
<1>1. /\ dropped' = Larger(dropped, offset)
      /\ UNCHANGED <<offset, handled, restarts, day, lastSent, begun>>
  BY DEF GetUpdates, briefing
<1>2. /\ offset \in Nat /\ dropped \in Nat \ {0} /\ Len(Updates) \in Nat /\ Number = 1..Len(Updates)
      /\ Batch \in Nat
  BY TelegramAssumption DEF TelegramInv, TelegramType, Number
<1>3. /\ dropped' \in Nat \ {0} /\ Larger(dropped, offset)' = dropped'
      /\ \A u \in Number : u < dropped' => u < dropped \/ u < offset
  BY <1>1, <1>2 DEF Larger
<1>4. PICK n \in 0..Batch :
        /\ dropped' + n - 1 <= Len(Updates)
        /\ batch' = IF arrives THEN [i \in 1..n |-> dropped' + i - 1] ELSE <<>>
  BY DEF GetUpdates
<1>5. batch' \in Seq(Nat) /\ \A i \in 1..Len(batch') : batch'[i] = dropped' + i - 1 /\ batch'[i] \in Number
  <2>1. CASE arrives
    <3>1. batch' = [i \in 1..n |-> dropped' + i - 1] /\ n \in Nat
      BY <1>2, <1>4, <2>1
    <3>2. ASSUME NEW i \in 1..n PROVE dropped' + i - 1 \in Nat /\ dropped' + i - 1 \in Number
      <4>1. dropped' \in Nat /\ dropped' > 0 /\ i \in Nat /\ i > 0 /\ i <= n /\ n \in Nat
        BY <1>2, <1>3
      <4>2. dropped' + n - 1 <= Len(Updates)
        BY <1>4
      <4>3. dropped' + i - 1 \in Nat \ {0}
        BY <4>1, Positive
      <4>4. dropped' + i - 1 <= Len(Updates)
        BY <1>2, <4>1, <4>2
      <4>. QED BY <1>2, <4>3, <4>4
    <3>3. batch' \in [1..n -> Nat]
      BY <3>1, <3>2
    <3>4. batch' \in Seq(Nat)
      BY <3>1, <3>3, SeqDef
    <3>5. Len(batch') = n /\ \A i \in 1..n : batch'[i] = dropped' + i - 1
      BY <3>1, <3>4
    <3>. QED BY <3>2, <3>4, <3>5
  <2>2. CASE ~arrives
    BY <1>4, <2>2
  <2>. QED BY <2>1, <2>2
<1>6. TelegramType'
  BY <1>1, <1>3, <1>5 DEF TelegramInv, TelegramType
<1>7. PollInv'
  BY <1>1, <1>3, <1>5 DEF TelegramInv, PollInv
<1>8. BriefingInv'
  BY <1>1 DEF TelegramInv, BriefingInv
<1>. QED BY <1>6, <1>7, <1>8 DEF TelegramInv

LEMMA HandleKeeps == ASSUME TelegramInv, Handle PROVE TelegramInv'
<1>. DEFINE u == Head(batch)
<1>1. /\ batch # <<>> /\ offset' = u + 1 /\ handled' = [handled EXCEPT ![u] = @ + 1]
      /\ batch' = <<>> \/ batch' = Tail(batch)
      /\ UNCHANGED <<dropped, restarts, day, lastSent, begun>>
  BY DEF Handle, OffsetAfter, briefing
<1>2. /\ offset \in Nat /\ dropped \in Nat \ {0} /\ batch \in Seq(Nat) /\ restarts \in Nat
      /\ handled \in [Number -> Nat] /\ Number \subseteq Nat
  BY TelegramAssumption DEF TelegramInv, TelegramType, Number
<1>3. Len(batch) \in Nat \ {0} /\ u = batch[1] /\ u = Larger(dropped, offset) /\ u \in Number
  BY <1>1, <1>2 DEF TelegramInv, PollInv, Larger
<1>. HIDE DEF u
<1>4. /\ u \in Nat /\ u >= dropped /\ u >= offset /\ Larger(dropped', offset') = u + 1
      /\ \A w \in Number : w < u => w < dropped \/ w < offset
  BY <1>1, <1>2, <1>3 DEF Larger
<1>5. /\ handled' \in [Number -> Nat] /\ handled'[u] = handled[u] + 1
      /\ \A w \in Number : w # u => handled'[w] = handled[w]
  BY <1>1, <1>2, <1>3
<1>6. batch' \in Seq(Nat) /\ \A i \in 1..Len(batch') : batch'[i] = u + 1 + i - 1 /\ batch'[i] \in Number
  <2>1. CASE batch' = <<>>
    BY <2>1
  <2>2. CASE batch' = Tail(batch)
    <3>1. /\ batch' \in Seq(Nat) /\ Len(batch') = Len(batch) - 1
          /\ \A i \in 1..Len(batch') : i + 1 \in 1..Len(batch) /\ batch'[i] = batch[i + 1]
      BY <1>1, <1>2, <2>2
    <3>2. ASSUME NEW i \in 1..Len(batch') PROVE batch'[i] = u + 1 + i - 1 /\ batch'[i] \in Number
      <4>1. i \in Nat /\ i + 1 \in 1..Len(batch) /\ batch'[i] = batch[i + 1]
        BY <3>1
      <4>2. batch[i + 1] = Larger(dropped, offset) + (i + 1) - 1 /\ batch[i + 1] \in Number
        BY <4>1 DEF TelegramInv, PollInv
      <4>. QED BY <1>3, <1>4, <4>1, <4>2
    <3>. QED BY <3>1, <3>2
  <2>. QED BY <1>1, <2>1, <2>2
<1>7. TelegramType'
  BY <1>1, <1>4, <1>5, <1>6 DEF TelegramInv, TelegramType
<1>8. ASSUME NEW w \in Number
      PROVE  /\ w < dropped' \/ w < offset' => handled'[w] >= 1
             /\ handled'[w] <= 1 + restarts'
             /\ w >= offset' => handled'[w] <= restarts'
  <2>1. /\ w \in Nat /\ handled[w] \in Nat
        /\ (w < dropped \/ w < offset => handled[w] >= 1)
        /\ handled[w] <= 1 + restarts /\ (w >= offset => handled[w] <= restarts)
    BY <1>2 DEF TelegramInv, PollInv
  <2>2. CASE w = u
    BY <1>1, <1>2, <1>4, <1>5, <2>1, <2>2
  <2>3. CASE w # u
    BY <1>1, <1>2, <1>4, <1>5, <2>1, <2>3
  <2>. QED BY <2>2, <2>3
<1>9. PollInv'
  BY <1>1, <1>4, <1>6, <1>8 DEF PollInv
<1>10. BriefingInv'
  BY <1>1 DEF TelegramInv, BriefingInv
<1>. QED BY <1>7, <1>9, <1>10 DEF TelegramInv

LEMMA TelegramStep == ASSUME TelegramInv, TelegramNext \/ UNCHANGED telegram PROVE TelegramInv'
<1>0. /\ MaxDays \in Nat \ {0} /\ day \in 1..MaxDays /\ lastSent \in 0..day /\ restarts \in Nat
      /\ begun \in [1..MaxDays -> Nat]
  BY TelegramAssumption DEF TelegramInv, TelegramType
<1>1. CASE Handle \/ \E arrives \in BOOLEAN : GetUpdates(arrives)
  BY <1>1, HandleKeeps, GetKeeps
<1>2. ASSUME UNCHANGED <<offset, batch, dropped, handled, restarts, day, lastSent, begun>>
      PROVE  TelegramInv'
  <2>1. TelegramType'
    BY <1>2 DEF TelegramInv, TelegramType
  <2>. QED BY <1>2, <2>1 DEF TelegramInv, PollInv, BriefingInv
<1>3. CASE Midnight
  <2>1. day < MaxDays /\ day' = day + 1 /\ UNCHANGED <<offset, batch, dropped, handled, restarts, lastSent, begun>>
    BY <1>3 DEF Midnight, polling
  <2>2. TelegramType'
    BY <1>0, <2>1 DEF TelegramInv, TelegramType
  <2>3. PollInv'
    BY <2>1 DEF TelegramInv, PollInv
  <2>4. BriefingInv'
    BY <1>0, <2>1 DEF TelegramInv, BriefingInv
  <2>. QED BY <2>2, <2>3, <2>4 DEF TelegramInv
<1>4. CASE BeginBriefing
  <2>1. /\ lastSent # day /\ lastSent' = day /\ begun' = [begun EXCEPT ![day] = @ + 1]
        /\ UNCHANGED <<offset, batch, dropped, handled, restarts, day>>
    BY <1>4 DEF BeginBriefing, BriefingDue, polling
  <2>2. TelegramType'
    BY <1>0, <2>1 DEF TelegramInv, TelegramType
  <2>3. PollInv'
    BY <2>1 DEF TelegramInv, PollInv
  <2>4. BriefingInv'
    BY <1>0, <2>1 DEF TelegramInv, BriefingInv
  <2>. QED BY <2>2, <2>3, <2>4 DEF TelegramInv
<1>5. CASE TgRestart
  <2>1. /\ restarts' = restarts + 1 /\ offset' = 0 /\ batch' = <<>> /\ lastSent' = 0
        /\ UNCHANGED <<dropped, handled, day, begun>>
    BY <1>5 DEF TgRestart
  <2>2. batch' \in Seq(Nat)
    BY <2>1
  <2>3. TelegramType'
    BY <1>0, <2>1, <2>2 DEF TelegramInv, TelegramType
  <2>4. ASSUME NEW u \in Number
        PROVE  /\ u < dropped' \/ u < offset' => handled'[u] >= 1
               /\ handled'[u] <= 1 + restarts'
               /\ u >= offset' => handled'[u] <= restarts'
    <3>1. u \in Nat \ {0} /\ handled[u] \in Nat /\ handled[u] <= 1 + restarts
      BY TelegramAssumption DEF TelegramInv, TelegramType, PollInv, Number
    <3>. QED BY <1>0, <2>1, <3>1 DEF TelegramInv, PollInv
  <2>5. PollInv'
    BY <2>1, <2>4 DEF PollInv
  <2>6. BriefingInv'
    BY <1>0, <2>1 DEF TelegramInv, BriefingInv
  <2>. QED BY <2>3, <2>5, <2>6 DEF TelegramInv
<1>6. CASE \/ TgTurn \/ TgTurnEnds \/ TgSend \/ HourComes \/ Build \/ BuildRaises \/ EndBriefing
           \/ TgShutdown \/ UNCHANGED telegram \/ \E c \in paired : Tell(c)
  <2>1. UNCHANGED <<offset, batch, dropped, handled, restarts, day, lastSent, begun>>
    BY <1>6 DEF TgTurn, TgTurnEnds, TgSend, HourComes, Build, BuildRaises, EndBriefing, TgShutdown,
                Tell, telegram, polling, briefing
  <2>. QED BY <1>2, <2>1
<1>. QED BY <1>1, <1>3, <1>4, <1>5, <1>6 DEF TelegramNext

LEMMA TelegramInvariant == Spec => []TelegramInv
<1>1. Init => TelegramInv
  BY TelegramStart DEF Init
<1>2. TelegramInv /\ [Next]_cvars => TelegramInv'
  BY TelegramStep, StepOfOne
<1>. QED BY <1>1, <1>2, PTL DEF Spec

\* poll_once: an offset that moves past an update has it handled, and only a restart
\* brings one back; the briefing of a day likewise.
THEOREM UpdatesOnceTheorem == Spec => []UpdatesOnce
<1>1. TelegramInv => UpdatesOnce
  BY DEF TelegramInv, TelegramType, PollInv, BriefingInv, UpdatesOnce
<1>. QED BY <1>1, TelegramInvariant, PTL

=============================================================================
