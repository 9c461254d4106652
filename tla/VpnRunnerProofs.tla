-------------------------- MODULE VpnRunnerProofs --------------------------
(***************************************************************************)
(* Proofs about VpnRunner, for any number of threads, profiles and         *)
(* attempts: the types, and the safety invariants by one inductive         *)
(* invariant that says who holds which lock, with what in hand; and that   *)
(* no call goes back and no threads wait for each other's locks.           *)
(***************************************************************************)
EXTENDS VpnRunner, TLAPS

Handling == {"start", "up", "term", "kill"}

\* The holder of a lock is where it holds it, and nobody else is.
Locks ==
  /\ \A w \in Worker, p \in Profile :
       lock[p] = w <=> call[w].at \in Held /\ call[w].profile = p
  /\ \A p \in Profile :
       lock[p] = Closer <=> closer.at \in {"term", "kill"} /\ closer.profile = p

\* What a worker has in its hands, and the state of its profile's session then.
HandOf(w) ==
  /\ call[w].at # "idle" => call[w].profile \in Profile
  /\ call[w].at \in Handling \cup {"using"} =>
       call[w].hand \in Attempt /\ profileOf[call[w].hand] = call[w].profile
  /\ call[w].at \notin Handling \cup {"using"} => call[w].hand = Free
  /\ call[w].at \in {"open", "start", "term", "kill"} => session[call[w].profile] = Free
  /\ call[w].at = "start" => proc[call[w].hand] = "none" /\ sig[call[w].hand] = "none"
  /\ call[w].at = "up" => session[call[w].profile] = call[w].hand
  /\ call[w].at = "kill" => sig[call[w].hand] = "KILL"
  /\ call[w].at = "using" => proc[call[w].hand] # "none"

Hands == \A w \in Worker : HandOf(w)

CloserHands ==
  closer.at \in {"term", "kill"} =>
    /\ closer.profile \in Profile /\ closer.hand \in Attempt
    /\ profileOf[closer.hand] = closer.profile
    /\ session[closer.profile] = Free
    /\ closer.at = "kill" => sig[closer.hand] = "KILL"

\* A registered attempt is of its profile, and ready unless its maker still waits.
Sessions ==
  \A p \in Profile : session[p] # Free =>
    /\ profileOf[session[p]] = p
    /\ session[p] \in ready \/ (lock[p] \in Worker /\ call[lock[p]].at = "up")

\* An unused name has no child, no signal and no files.
Fresh ==
  \A a \in Attempt : profileOf[a] = Free => proc[a] = "none" /\ sig[a] = "none" /\ a \notin files

\* A profile close() is done with has a session only while somebody waits for it.
Closing ==
  /\ closer.at = "off" => closer.left = Profile
  /\ closer.at = "done" => closer.left = {}
  /\ closer.at # "off" => closed
  /\ closer.at # "off" => \A p \in Profile \ closer.left :
       session[p] # Free => lock[p] \in Worker /\ call[lock[p]].at = "up"

IInv ==
  /\ TypeOK
  /\ Locks /\ Hands /\ CloserHands /\ Sessions /\ Fresh /\ Closing
  /\ NoOrphan /\ CredentialsGone /\ PromiseKept

-----------------------------------------------------------------------------
LEMMA CallType ==
  /\ Idle \in Call
  /\ \A c \in Call, s \in {"idle", "using"} \cup DOMAIN Waits \cup Held :
       [c EXCEPT !.at = s] \in Call
  /\ \A c \in Call, s \in Held \cup {"using"}, h \in Attempt \cup {Free} :
       [c EXCEPT !.at = s, !.hand = h] \in Call
  /\ \A c \in Call, s \in Held, h \in Attempt \cup {Free}, t \in {"open", "return"} :
       [c EXCEPT !.at = s, !.hand = h, !.then = t] \in Call
BY DEF Call, Idle, Held

\* Who holds a lock knows its profile, and what has a name in use has a profile.
LEMMA Facts ==
  ASSUME IInv
  PROVE  /\ \A w \in Worker : call[w] \in Call /\ (call[w].at # "idle" => call[w].profile \in Profile)
         /\ \A p \in Profile : lock[p] \in Worker =>
              call[lock[p]].at \in Held /\ call[lock[p]].profile = p
         /\ \A w \in Worker, p \in Profile : call[w].at \notin Held => lock[p] # w
         /\ \A w \in Worker : call[w].at \in Held =>
              call[w].profile \in Profile /\ lock[call[w].profile] = w
         /\ \A v, w \in Worker : call[v].at \in Held /\ call[w].at \in Held /\ v # w =>
              call[v].profile # call[w].profile
         /\ \A a \in Attempt : Alive(a) \/ a \in files => profileOf[a] \in Profile
<1>1. \A w \in Worker : call[w] \in Call /\ (call[w].at # "idle" => call[w].profile \in Profile)
  BY DEF IInv, TypeOK, Hands, HandOf
<1>2. \A a \in Attempt : Alive(a) \/ a \in files => profileOf[a] \in Profile
  BY DEF IInv, TypeOK, Fresh, Alive
<1>. QED BY <1>1, <1>2 DEF IInv, Locks, Held

\* What is in hand has its holder's profile, so that no two hands hold one attempt.
LEMMA HandFacts ==
  ASSUME IInv
  PROVE  /\ \A w \in Worker : call[w].at \in Handling =>
              /\ call[w].hand \in Attempt
              /\ profileOf[call[w].hand] = call[w].profile /\ call[w].profile \in Profile
         /\ closer.at \in {"term", "kill"} =>
              /\ closer.hand \in Attempt /\ closer.profile \in Profile
              /\ profileOf[closer.hand] = closer.profile
         /\ \A w \in Worker : call[w].at \in Handling /\ closer.at \in {"term", "kill"} =>
              call[w].hand # closer.hand /\ call[w].profile # closer.profile
         /\ \A p \in Profile : session[p] # Free =>
              session[p] \in Attempt /\ profileOf[session[p]] = p
<1>1. \A p \in Profile : session[p] # Free => session[p] \in Attempt /\ profileOf[session[p]] = p
  BY DEF IInv, TypeOK, Sessions
<1>2. \A w \in Worker : call[w].at \in Handling =>
        lock[call[w].profile] = w /\ call[w].profile \in Profile
  BY Facts DEF Handling, Held
<1>3. closer.at \in {"term", "kill"} => lock[closer.profile] = Closer
  BY DEF IInv, Locks, CloserHands
<1>. QED BY <1>1, <1>2, <1>3, NamesDiffer DEF IInv, Hands, HandOf, CloserHands

\* The ends of an operation.
LEMMA ReturnFacts ==
  ASSUME IInv, NEW w \in Worker, call[w].at \in Held, Return(w)
  PROVE  /\ call' \in [Worker -> Call] /\ call'[w] = Idle
         /\ \A v \in Worker \ {w} : call'[v] = call[v]
         /\ lock' = [lock EXCEPT ![call[w].profile] = Free]
         /\ cancelled' \subseteq Worker
BY CallType DEF IInv, TypeOK, Return, Release

LEMMA ReturnUpFacts ==
  ASSUME IInv, NEW w \in Worker, call[w].at \in Held, NEW a \in Attempt, ReturnUp(w, a)
  PROVE  /\ call' \in [Worker -> Call]
         /\ call'[w].at = "using" /\ call'[w].hand = a /\ call'[w].profile = call[w].profile
         /\ \A v \in Worker \ {w} : call'[v] = call[v]
         /\ lock' = [lock EXCEPT ![call[w].profile] = Free]
         /\ cancelled' \subseteq Worker
<1>1. call' = [call EXCEPT ![w] = [call[w] EXCEPT !.at = "using", !.hand = a]]
  BY DEF ReturnUp, IInv, TypeOK, Call
<1>2. call[w] \in Call
  BY Facts
<1>3. [call[w] EXCEPT !.at = "using", !.hand = a] \in Call
  BY <1>2, CallType
<1>4. call' \in [Worker -> Call] /\ \A v \in Worker \ {w} : call'[v] = call[v]
  BY <1>1, <1>3 DEF IInv, TypeOK
<1>5. call'[w].at = "using" /\ call'[w].hand = a /\ call'[w].profile = call[w].profile
  BY <1>1, <1>2 DEF IInv, TypeOK, Call
<1>. QED BY <1>4, <1>5 DEF IInv, TypeOK, ReturnUp, Release

LEMMA AfterFacts ==
  ASSUME IInv, NEW w \in Worker, call[w].at \in Held, NEW then \in {"open", "return"}, After(w, then)
  PROVE  /\ call' \in [Worker -> Call]
         /\ \A v \in Worker \ {w} : call'[v] = call[v]
         /\ cancelled' \subseteq Worker
         /\ \/ /\ call'[w].at = "open" /\ call'[w].hand = Free /\ call'[w].profile = call[w].profile
              /\ lock' = lock
           \/ /\ call'[w] = Idle
              /\ lock' = [lock EXCEPT ![call[w].profile] = Free]
<1>1. CASE then = "open"
  <2>1. call' = [call EXCEPT ![w] = [call[w] EXCEPT !.at = "open", !.hand = Free, !.then = "return"]]
    BY <1>1 DEF After, IInv, TypeOK, Call
  <2>2. call[w] \in Call /\ "open" \in Held
    BY Facts DEF Held
  <2>3. [call[w] EXCEPT !.at = "open", !.hand = Free, !.then = "return"] \in Call
    BY <2>2, CallType
  <2>4. call' \in [Worker -> Call] /\ \A v \in Worker \ {w} : call'[v] = call[v]
    BY <2>1, <2>3 DEF IInv, TypeOK
  <2>5. call'[w].at = "open" /\ call'[w].hand = Free /\ call'[w].profile = call[w].profile
    BY <2>1, <2>2 DEF IInv, TypeOK, Call
  <2>. QED BY <1>1, <2>4, <2>5 DEF IInv, TypeOK, After
<1>2. CASE then = "return"
  BY <1>2, ReturnFacts DEF After
<1>. QED BY <1>1, <1>2

LEMMA BeginKeeps ==
  ASSUME IInv, NEW w \in Worker, NEW p \in Profile, NEW op \in {"ensure", "status", "disconnect"}, Begin(w, op, p)
  PROVE  IInv'
<1>0. [Idle EXCEPT !.op = op, !.profile = p, !.at = IF op = "disconnect" THEN "leave" ELSE "ask"] \in Call
  BY DEF Idle, Call, Waits
<1>. USE <1>0, NamesDiffer, Facts, HandFacts DEF IInv, TypeOK, Held, Handling, Alive, runner,
      children, workers, Idle, Begin
<1>1. TypeOK'
  <2>1. call' \in [Worker -> Call]
    OBVIOUS
  <2>2. \A v \in Worker : call'[v].at \in {"start", "up", "term", "kill", "using"} => call'[v].hand # Free
    OBVIOUS
  <2>3. calls' \in 0 .. MaxCalls
    BY CallsNat
  <2>. QED BY <2>1, <2>2, <2>3
<1>2. Locks'
  BY DEF Locks
<1>3. Hands'
  BY DEF Hands, HandOf, Locks
<1>4. CloserHands' /\ Sessions' /\ Fresh' /\ Closing'
  BY DEF CloserHands, Sessions, Locks, Hands, HandOf, Fresh, Closing
<1>5. NoOrphan'
  <2> SUFFICES ASSUME NEW b \in Attempt, Alive(b)', sig'[b] # "KILL"
               PROVE  session'[profileOf'[b]] = b \/ InHand(b, profileOf[b])'
    BY DEF NoOrphan
  <2>1. \/ /\ Alive(b) /\ profileOf[b] \in Profile
           /\ sig[b] = "KILL" \/ session[profileOf[b]] = b \/ InHand(b, profileOf[b])
        \/ /\ proc[b] = "none"
           /\ \E v \in Worker : call[v].at = "start" /\ call[v].hand = b
    BY DEF NoOrphan, Hands, HandOf
  <2>. QED
    BY <2>1 DEF Hands, HandOf, InHand, Locks, Sessions, CloserHands
<1>6. CredentialsGone'
  <2> SUFFICES ASSUME NEW b \in files' PROVE InHand(b, profileOf[b])'
    BY DEF CredentialsGone
  <2>. QED
    BY DEF Hands, HandOf, InHand, Locks, Sessions, CloserHands, CredentialsGone
<1>7. PromiseKept'
  BY DEF PromiseKept, Sessions, Hands, HandOf, Locks
<1>. QED BY <1>1, <1>2, <1>3, <1>4, <1>5, <1>6, <1>7 DEF IInv

LEMMA CancelKeeps ==
  ASSUME IInv, NEW w \in Worker, Cancel(w)
  PROVE  IInv'
<1>. USE NamesDiffer, Facts, HandFacts DEF IInv, TypeOK, Held, Handling, Alive, runner,
      children, workers, Cancel
<1>1. TypeOK'
  BY DEF Call
<1>2. Locks'
  BY DEF Locks
<1>3. Hands'
  BY DEF Hands, HandOf, Locks
<1>4. CloserHands' /\ Sessions' /\ Fresh' /\ Closing'
  BY DEF CloserHands, Sessions, Locks, Hands, HandOf, Fresh, Closing
<1>5. NoOrphan'
  <2> SUFFICES ASSUME NEW b \in Attempt, Alive(b)', sig'[b] # "KILL"
               PROVE  session'[profileOf'[b]] = b \/ InHand(b, profileOf[b])'
    BY DEF NoOrphan
  <2>1. \/ /\ Alive(b) /\ profileOf[b] \in Profile
           /\ sig[b] = "KILL" \/ session[profileOf[b]] = b \/ InHand(b, profileOf[b])
        \/ /\ proc[b] = "none"
           /\ \E v \in Worker : call[v].at = "start" /\ call[v].hand = b
    BY DEF NoOrphan, Hands, HandOf
  <2>. QED
    BY <2>1 DEF Hands, HandOf, InHand, Locks, Sessions, CloserHands
<1>6. CredentialsGone'
  <2> SUFFICES ASSUME NEW b \in files' PROVE InHand(b, profileOf[b])'
    BY DEF CredentialsGone
  <2>. QED
    BY DEF Hands, HandOf, InHand, Locks, Sessions, CloserHands, CredentialsGone
<1>7. PromiseKept'
  BY DEF PromiseKept, Sessions, Hands, HandOf, Locks
<1>. QED BY <1>1, <1>2, <1>3, <1>4, <1>5, <1>6, <1>7 DEF IInv

LEMMA AcquireKeeps ==
  ASSUME IInv, NEW w \in Worker, Acquire(w)
  PROVE  IInv'
<1>0. /\ call' \in [Worker -> Call]
      /\ \A v \in Worker \ {w} : call'[v] = call[v]
      /\ call'[w].at = Waits[call[w].at] /\ call'[w].hand = call[w].hand
      /\ call'[w].profile = call[w].profile
  <2>1. call[w] \in Call
    BY Facts, HandFacts DEF Acquire, Waits
  <2>2. call' = [call EXCEPT ![w] = [call[w] EXCEPT !.at = Waits[call[w].at]]]
    BY <2>1 DEF Acquire, IInv, TypeOK, Call
  <2>3. [call[w] EXCEPT !.at = Waits[call[w].at]] \in Call
    <3>1. Waits[call[w].at] \in Held
      BY DEF Acquire, Waits, Held
    <3>. QED BY <2>1, <3>1, CallType
  <2>4. call' \in [Worker -> Call] /\ \A v \in Worker \ {w} : call'[v] = call[v]
    BY <2>2, <2>3 DEF IInv, TypeOK
  <2>5. /\ call'[w].at = Waits[call[w].at] /\ call'[w].hand = call[w].hand
        /\ call'[w].profile = call[w].profile
    BY <2>1, <2>2 DEF IInv, TypeOK, Call
  <2>. QED BY <2>4, <2>5
<1>. USE <1>0, NamesDiffer, Facts, HandFacts DEF IInv, TypeOK, Held, Handling, Alive, runner,
      children, workers, Waits, Acquire
<1>1. TypeOK'
  OBVIOUS
<1>2. Locks'
  BY DEF Locks
<1>3. Hands'
  <2> SUFFICES ASSUME NEW v \in Worker PROVE HandOf(v)'
    BY DEF Hands
  <2>1. CASE v = w
    BY <2>1 DEF Hands, HandOf, Sessions
  <2>2. CASE v # w
    BY <2>2 DEF Hands, HandOf
  <2>. QED BY <2>1, <2>2
<1>4. CloserHands' /\ Sessions' /\ Fresh' /\ Closing'
  BY DEF CloserHands, Sessions, Locks, Hands, HandOf, Fresh, Closing
<1>5. NoOrphan'
  <2> SUFFICES ASSUME NEW b \in Attempt, Alive(b)', sig'[b] # "KILL"
               PROVE  session'[profileOf'[b]] = b \/ InHand(b, profileOf[b])'
    BY DEF NoOrphan
  <2>1. \/ /\ Alive(b) /\ profileOf[b] \in Profile
           /\ sig[b] = "KILL" \/ session[profileOf[b]] = b \/ InHand(b, profileOf[b])
        \/ /\ proc[b] = "none"
           /\ \E v \in Worker : call[v].at = "start" /\ call[v].hand = b
    BY DEF NoOrphan, Hands, HandOf
  <2>. QED
    BY <2>1 DEF Hands, HandOf, InHand, Locks, Sessions, CloserHands
<1>6. CredentialsGone'
  <2> SUFFICES ASSUME NEW b \in files' PROVE InHand(b, profileOf[b])'
    BY DEF CredentialsGone
  <2>. QED
    BY DEF Hands, HandOf, InHand, Locks, Sessions, CloserHands, CredentialsGone
<1>7. PromiseKept'
  BY DEF PromiseKept, Sessions, Hands, HandOf, Locks
<1>. QED BY <1>1, <1>2, <1>3, <1>4, <1>5, <1>6, <1>7 DEF IInv

LEMMA StopWaitingKeeps ==
  ASSUME IInv, NEW w \in Worker, StopWaiting(w)
  PROVE  IInv'
<1>. USE NamesDiffer, Facts, HandFacts DEF IInv, TypeOK, Held, Handling, Alive, runner,
      children, workers, Waits, Idle, StopWaiting
<1>1. TypeOK'
  BY DEF Call
<1>2. Locks'
  BY DEF Locks
<1>3. Hands'
  BY DEF Hands, HandOf, Locks
<1>4. CloserHands' /\ Sessions' /\ Fresh' /\ Closing'
  BY DEF CloserHands, Sessions, Locks, Hands, HandOf, Fresh, Closing
<1>5. NoOrphan'
  <2> SUFFICES ASSUME NEW b \in Attempt, Alive(b)', sig'[b] # "KILL"
               PROVE  session'[profileOf'[b]] = b \/ InHand(b, profileOf[b])'
    BY DEF NoOrphan
  <2>1. \/ /\ Alive(b) /\ profileOf[b] \in Profile
           /\ sig[b] = "KILL" \/ session[profileOf[b]] = b \/ InHand(b, profileOf[b])
        \/ /\ proc[b] = "none"
           /\ \E v \in Worker : call[v].at = "start" /\ call[v].hand = b
    BY DEF NoOrphan, Hands, HandOf
  <2>. QED
    BY <2>1 DEF Hands, HandOf, InHand, Locks, Sessions, CloserHands
<1>6. CredentialsGone'
  <2> SUFFICES ASSUME NEW b \in files' PROVE InHand(b, profileOf[b])'
    BY DEF CredentialsGone
  <2>. QED
    BY DEF Hands, HandOf, InHand, Locks, Sessions, CloserHands, CredentialsGone
<1>7. PromiseKept'
  BY DEF PromiseKept, Sessions, Hands, HandOf, Locks
<1>. QED BY <1>1, <1>2, <1>3, <1>4, <1>5, <1>6, <1>7 DEF IInv

\* A step of another thread that ends no session of v's and signals no child of its.
LEMMA HandFrame ==
  ASSUME NEW v \in Worker, HandOf(v), call'[v] = call[v], proc' = proc, profileOf' = profileOf,
         call[v].at \in Handling =>
           session'[call[v].profile] = session[call[v].profile] /\ sig'[call[v].hand] = sig[call[v].hand],
         call[v].at = "open" => session'[call[v].profile] = Free
  PROVE  HandOf(v)'
BY DEF HandOf, Handling

LEMMA DropAliveKeeps ==
  ASSUME IInv, NEW w \in Worker, NEW then \in {"open", "return"}, call[w].at \in {"connect", "disconnect", "up"},
         session[call[w].profile] # Free, DropAlive(w, then)
  PROVE  IInv'
<1>0. /\ call' \in [Worker -> Call]
      /\ \A v \in Worker \ {w} : call'[v] = call[v]
      /\ call'[w].at = "term" /\ call'[w].hand = session[call[w].profile]
      /\ call'[w].profile = call[w].profile
  <2>1. call[w] \in Call /\ call[w].profile \in Profile /\ session[call[w].profile] \in Attempt
    BY Facts, HandFacts DEF DropAlive, Held
  <2>2. call' = [call EXCEPT ![w] = [call[w] EXCEPT !.at = "term", !.hand = session[call[w].profile], !.then = then]]
    BY <2>1 DEF DropAlive, IInv, TypeOK, Call
  <2>3. [call[w] EXCEPT !.at = "term", !.hand = session[call[w].profile], !.then = then] \in Call
    BY <2>1, CallType DEF Held, Waits
  <2>4. call' \in [Worker -> Call] /\ \A v \in Worker \ {w} : call'[v] = call[v]
    BY <2>2, <2>3 DEF IInv, TypeOK
  <2>5. /\ call'[w].at = "term" /\ call'[w].hand = session[call[w].profile]
        /\ call'[w].profile = call[w].profile
    BY <2>1, <2>2 DEF IInv, TypeOK, Call
  <2>. QED BY <2>1, <2>4, <2>5
<1>. USE <1>0, NamesDiffer, Facts, HandFacts DEF IInv, TypeOK, Held, Handling, Alive, runner,
      children, workers, Signal, Pop, DropAlive
<1>1. TypeOK'
  OBVIOUS
<1>2. Locks'
  BY DEF Locks
<1>3. Hands'
  <2> SUFFICES ASSUME NEW v \in Worker PROVE HandOf(v)'
    BY DEF Hands
  <2>1. CASE v = w
    BY <2>1 DEF Hands, HandOf, Sessions
  <2>2. CASE v # w
    <3>1. call'[v] = call[v] /\ HandOf(v) /\ proc' = proc /\ profileOf' = profileOf
      BY <2>2 DEF Hands
    <3>2. profileOf[session[call[w].profile]] = call[w].profile
      BY DEF Sessions
    <3>3. call[v].at \in Handling =>
             /\ call[v].profile # call[w].profile /\ call[v].hand # session[call[w].profile]
      BY <2>2, <3>2
    <3>4. call[v].at \in Handling =>
             session'[call[v].profile] = session[call[v].profile] /\ sig'[call[v].hand] = sig[call[v].hand]
      BY <3>3
    <3>5. call[v].at = "open" => session'[call[v].profile] = Free
      BY <3>1 DEF HandOf
    <3>. QED BY <3>1, <3>4, <3>5, HandFrame
  <2>. QED BY <2>1, <2>2
<1>4. CloserHands' /\ Sessions' /\ Fresh' /\ Closing'
  BY DEF CloserHands, Sessions, Locks, Hands, HandOf, Fresh, Closing
<1>5. NoOrphan'
  <2> SUFFICES ASSUME NEW b \in Attempt, Alive(b)', sig'[b] # "KILL"
               PROVE  session'[profileOf'[b]] = b \/ InHand(b, profileOf[b])'
    BY DEF NoOrphan
  <2>1. \/ /\ Alive(b) /\ profileOf[b] \in Profile
           /\ sig[b] = "KILL" \/ session[profileOf[b]] = b \/ InHand(b, profileOf[b])
        \/ /\ proc[b] = "none"
           /\ \E v \in Worker : call[v].at = "start" /\ call[v].hand = b
    BY DEF NoOrphan, Hands, HandOf
  <2>. QED
    BY <2>1 DEF Hands, HandOf, InHand, Locks, Sessions, CloserHands
<1>6. CredentialsGone'
  <2> SUFFICES ASSUME NEW b \in files' PROVE InHand(b, profileOf[b])'
    BY DEF CredentialsGone
  <2>. QED
    BY DEF Hands, HandOf, InHand, Locks, Sessions, CloserHands, CredentialsGone
<1>7. PromiseKept'
  BY DEF PromiseKept, Sessions, Hands, HandOf, Locks
<1>. QED BY <1>1, <1>2, <1>3, <1>4, <1>5, <1>6, <1>7 DEF IInv

LEMMA DropDeadKeeps ==
  ASSUME IInv, NEW w \in Worker, NEW then \in {"open", "return"}, call[w].at \in {"connect", "disconnect", "up"},
         session[call[w].profile] # Free, DropDead(w, then)
  PROVE  IInv'
<1>0. /\ call' \in [Worker -> Call] /\ cancelled' \subseteq Worker
      /\ \A v \in Worker \ {w} : call'[v] = call[v]
      /\ call[w].at \in Held
      /\ \/ /\ call'[w].at = "open" /\ call'[w].hand = Free /\ call'[w].profile = call[w].profile
            /\ lock' = lock
         \/ call'[w] = Idle /\ lock' = [lock EXCEPT ![call[w].profile] = Free]
  BY AfterFacts, Facts DEF DropDead, Held, Call
<1>a. /\ session' = [session EXCEPT ![call[w].profile] = Free]
      /\ ready' = ready \ {session[call[w].profile]}
      /\ files' = files \ {session[call[w].profile]}
      /\ UNCHANGED <<closed, profileOf, proc, sig, calls, closer>> /\ ~Alive(session[call[w].profile])
  BY DEF DropDead, children, Clean, Pop
<1>. USE <1>0, <1>a, NamesDiffer, Facts, HandFacts DEF IInv, TypeOK, Held, Handling, Alive,
      runner, children, workers, Pop, Clean, After, Return, Release, Idle, DropDead
<1>1. TypeOK'
  <2>1. lock' \in [Profile -> Worker \cup {Closer, Free}]
    OBVIOUS
  <2>2. /\ session' \in [Profile -> Attempt \cup {Free}]
        /\ ready' \subseteq Attempt /\ files' \subseteq Attempt
    OBVIOUS
  <2>3. ASSUME NEW v \in Worker, call'[v].at \in {"start", "up", "term", "kill", "using"}
        PROVE  call'[v].hand # Free
    <3>1. CASE v = w
      BY <2>3, <3>1
    <3>2. CASE v # w
      BY <2>3, <3>2
    <3>. QED BY <3>1, <3>2
  <2>. QED BY <2>1, <2>2, <2>3
<1>2. Locks'
  BY DEF Locks
<1>3. Hands'
  <2> SUFFICES ASSUME NEW v \in Worker PROVE HandOf(v)'
    BY DEF Hands
  <2>1. CASE v = w
    BY <2>1 DEF Hands, HandOf, Locks, Sessions
  <2>2. CASE v # w
    BY <2>2 DEF Hands, HandOf, Locks
  <2>. QED BY <2>1, <2>2
<1>4. CloserHands' /\ Sessions' /\ Fresh' /\ Closing'
  BY DEF CloserHands, Sessions, Locks, Hands, HandOf, Fresh, Closing
<1>5. NoOrphan'
  <2> SUFFICES ASSUME NEW b \in Attempt, Alive(b)', sig'[b] # "KILL"
               PROVE  session'[profileOf'[b]] = b \/ InHand(b, profileOf[b])'
    BY DEF NoOrphan
  <2>1. \/ /\ Alive(b) /\ profileOf[b] \in Profile
           /\ sig[b] = "KILL" \/ session[profileOf[b]] = b \/ InHand(b, profileOf[b])
        \/ /\ proc[b] = "none"
           /\ \E v \in Worker : call[v].at = "start" /\ call[v].hand = b
    BY DEF NoOrphan, Hands, HandOf
  <2>. QED
    BY <2>1 DEF Hands, HandOf, InHand, Locks, Sessions, CloserHands
<1>6. CredentialsGone'
  <2> SUFFICES ASSUME NEW b \in files' PROVE InHand(b, profileOf[b])'
    BY DEF CredentialsGone
  <2>. QED
    BY DEF Hands, HandOf, InHand, Locks, Sessions, CloserHands, CredentialsGone
<1>7. PromiseKept'
  BY DEF PromiseKept, Sessions, Hands, HandOf, Locks
<1>. QED BY <1>1, <1>2, <1>3, <1>4, <1>5, <1>6, <1>7 DEF IInv

LEMMA StatusUpKeeps ==
  ASSUME IInv, NEW w \in Worker, StatusUp(w)
  PROVE  IInv'
<1>0. /\ call' \in [Worker -> Call] /\ cancelled' \subseteq Worker
      /\ \A v \in Worker \ {w} : call'[v] = call[v]
      /\ lock' = [lock EXCEPT ![call[w].profile] = Free]
      /\ call[w].at \in Held /\ session[call[w].profile] \in Attempt
      /\ \/ call'[w] = Idle
         \/ /\ call'[w].at = "using" /\ call'[w].hand = session[call[w].profile]
            /\ call'[w].profile = call[w].profile
  BY ReturnFacts, ReturnUpFacts, Facts, HandFacts DEF StatusUp, Alive, Held
<1>a. session' = session /\ ready' = ready /\ UNCHANGED <<closed, files, profileOf, proc, sig, calls, closer>>
       /\ session[call[w].profile] \in ready /\ Alive(session[call[w].profile]) /\ call[w].at = "status"
  BY DEF StatusUp, children
<1>. USE <1>0, <1>a, NamesDiffer, Facts, HandFacts DEF IInv, TypeOK, Held, Handling, Alive,
      runner, children, workers, Return, ReturnUp, Release, Idle, StatusUp
<1>1. TypeOK'
  <2>1. lock' \in [Profile -> Worker \cup {Closer, Free}]
    OBVIOUS
  <2>2. /\ session' \in [Profile -> Attempt \cup {Free}]
        /\ ready' \subseteq Attempt /\ files' \subseteq Attempt
    OBVIOUS
  <2>3. ASSUME NEW v \in Worker, call'[v].at \in {"start", "up", "term", "kill", "using"}
        PROVE  call'[v].hand # Free
    <3>1. CASE v = w
      BY <2>3, <3>1
    <3>2. CASE v # w
      BY <2>3, <3>2
    <3>. QED BY <3>1, <3>2
  <2>. QED BY <2>1, <2>2, <2>3
<1>2. Locks'
  BY DEF Locks
<1>3. Hands'
  <2> SUFFICES ASSUME NEW v \in Worker PROVE HandOf(v)'
    BY DEF Hands
  <2>1. CASE v = w
    BY <2>1 DEF Hands, HandOf, Locks, Sessions
  <2>2. CASE v # w
    BY <2>2 DEF Hands, HandOf, Locks
  <2>. QED BY <2>1, <2>2
<1>4. CloserHands' /\ Sessions' /\ Fresh' /\ Closing'
  BY DEF CloserHands, Sessions, Locks, Hands, HandOf, Fresh, Closing
<1>5. NoOrphan'
  <2> SUFFICES ASSUME NEW b \in Attempt, Alive(b)', sig'[b] # "KILL"
               PROVE  session'[profileOf'[b]] = b \/ InHand(b, profileOf[b])'
    BY DEF NoOrphan
  <2>1. \/ /\ Alive(b) /\ profileOf[b] \in Profile
           /\ sig[b] = "KILL" \/ session[profileOf[b]] = b \/ InHand(b, profileOf[b])
        \/ /\ proc[b] = "none"
           /\ \E v \in Worker : call[v].at = "start" /\ call[v].hand = b
    BY DEF NoOrphan, Hands, HandOf
  <2>. QED
    BY <2>1 DEF Hands, HandOf, InHand, Locks, Sessions, CloserHands
<1>6. CredentialsGone'
  <2> SUFFICES ASSUME NEW b \in files' PROVE InHand(b, profileOf[b])'
    BY DEF CredentialsGone
  <2>. QED
    BY DEF Hands, HandOf, InHand, Locks, Sessions, CloserHands, CredentialsGone
<1>7. PromiseKept'
  BY DEF PromiseKept, Sessions, Hands, HandOf, Locks
<1>. QED BY <1>1, <1>2, <1>3, <1>4, <1>5, <1>6, <1>7 DEF IInv

LEMMA StatusDownKeeps ==
  ASSUME IInv, NEW w \in Worker, StatusDown(w)
  PROVE  IInv'
<1>0. /\ call' \in [Worker -> Call] /\ cancelled' \subseteq Worker
      /\ \A v \in Worker \ {w} : call'[v] = call[v]
      /\ lock' = [lock EXCEPT ![call[w].profile] = Free]
      /\ call[w].at \in Held
      /\ \/ call'[w] = Idle
         \/ /\ call'[w].at = "want" /\ call'[w].hand = call[w].hand
            /\ call'[w].profile = call[w].profile
  <2>1. call[w].at \in Held /\ call[w] \in Call
    BY Facts DEF StatusDown, Held
  <2>2. CASE Return(w)
    BY <2>1, <2>2, ReturnFacts
  <2>3. CASE /\ Release(w) /\ call' = [call EXCEPT ![w].at = "want"] /\ UNCHANGED cancelled
    <3>1. call' = [call EXCEPT ![w] = [call[w] EXCEPT !.at = "want"]]
      BY <2>1, <2>3 DEF IInv, TypeOK, Call
    <3>2. [call[w] EXCEPT !.at = "want"] \in Call
      BY <2>1, CallType DEF Waits
    <3>3. call' \in [Worker -> Call] /\ \A v \in Worker \ {w} : call'[v] = call[v]
      BY <3>1, <3>2 DEF IInv, TypeOK
    <3>4. /\ call'[w].at = "want" /\ call'[w].hand = call[w].hand
          /\ call'[w].profile = call[w].profile
      BY <2>1, <3>1 DEF IInv, TypeOK, Call
    <3>. QED BY <2>1, <2>3, <3>3, <3>4 DEF IInv, TypeOK, Release
  <2>. QED BY <2>2, <2>3 DEF StatusDown
<1>a. /\ call[w].at = "status" /\ call[w].hand = Free
      /\ session' = [session EXCEPT ![call[w].profile] = Free]
      /\ ready' = ready \ {session[call[w].profile]} /\ files' = files \ {session[call[w].profile]}
      /\ UNCHANGED <<closed, profileOf, proc, sig, calls, closer>> /\ ~Alive(session[call[w].profile])
  <2>1. call[w].at = "status" /\ call[w].profile \in Profile /\ lock[call[w].profile] = w
    BY Facts DEF StatusDown, Held
  <2>2. call[w].hand = Free
    BY <2>1 DEF IInv, Hands, HandOf, Held, Handling
  <2>3. ~Alive(session[call[w].profile])
    <3>1. session[call[w].profile] # Free => session[call[w].profile] \in ready
      BY <2>1 DEF IInv, Sessions
    <3>. QED BY <3>1 DEF StatusDown, Alive
  <2>. QED BY <2>1, <2>2, <2>3 DEF StatusDown, Pop, Clean, children
<1>. USE <1>0, <1>a, NamesDiffer, Facts, HandFacts DEF IInv, TypeOK, Held, Handling, Alive,
      runner, children, workers, Pop, Clean, Return, Release, Idle, StatusDown
<1>1. TypeOK'
  <2>1. lock' \in [Profile -> Worker \cup {Closer, Free}]
    OBVIOUS
  <2>2. /\ session' \in [Profile -> Attempt \cup {Free}]
        /\ ready' \subseteq Attempt /\ files' \subseteq Attempt
    OBVIOUS
  <2>3. ASSUME NEW v \in Worker, call'[v].at \in {"start", "up", "term", "kill", "using"}
        PROVE  call'[v].hand # Free
    <3>1. CASE v = w
      BY <2>3, <3>1
    <3>2. CASE v # w
      BY <2>3, <3>2
    <3>. QED BY <3>1, <3>2
  <2>. QED BY <2>1, <2>2, <2>3
<1>2. Locks'
  BY DEF Locks
<1>3. Hands'
  <2> SUFFICES ASSUME NEW v \in Worker PROVE HandOf(v)'
    BY DEF Hands
  <2>1. CASE v = w
    BY <2>1 DEF Hands, HandOf, Locks, Sessions
  <2>2. CASE v # w
    BY <2>2 DEF Hands, HandOf, Locks
  <2>. QED BY <2>1, <2>2
<1>4. CloserHands' /\ Sessions' /\ Fresh' /\ Closing'
  BY DEF CloserHands, Sessions, Locks, Hands, HandOf, Fresh, Closing
<1>5. NoOrphan'
  <2> SUFFICES ASSUME NEW b \in Attempt, Alive(b)', sig'[b] # "KILL"
               PROVE  session'[profileOf'[b]] = b \/ InHand(b, profileOf[b])'
    BY DEF NoOrphan
  <2>1. \/ /\ Alive(b) /\ profileOf[b] \in Profile
           /\ sig[b] = "KILL" \/ session[profileOf[b]] = b \/ InHand(b, profileOf[b])
        \/ /\ proc[b] = "none"
           /\ \E v \in Worker : call[v].at = "start" /\ call[v].hand = b
    BY DEF NoOrphan, Hands, HandOf
  <2>. QED
    BY <2>1 DEF Hands, HandOf, InHand, Locks, Sessions, CloserHands
<1>6. CredentialsGone'
  <2> SUFFICES ASSUME NEW b \in files' PROVE InHand(b, profileOf[b])'
    BY DEF CredentialsGone
  <2>. QED
    BY DEF Hands, HandOf, InHand, Locks, Sessions, CloserHands, CredentialsGone
<1>7. PromiseKept'
  BY DEF PromiseKept, Sessions, Hands, HandOf, Locks
<1>. QED BY <1>1, <1>2, <1>3, <1>4, <1>5, <1>6, <1>7 DEF IInv

LEMMA NotOwnedKeeps ==
  ASSUME IInv, NEW w \in Worker, NotOwned(w)
  PROVE  IInv'
<1>0. /\ call' \in [Worker -> Call] /\ cancelled' \subseteq Worker
      /\ \A v \in Worker \ {w} : call'[v] = call[v]
      /\ lock' = [lock EXCEPT ![call[w].profile] = Free]
      /\ call[w].at \in Held /\ call'[w] = Idle
  BY ReturnFacts DEF NotOwned, Held
<1>a. session' = session /\ ready' = ready /\ UNCHANGED <<closed, files, profileOf, proc, sig, calls, closer>>
       /\ call[w].at \in {"disconnect", "open"}
  BY DEF NotOwned, children
<1>. USE <1>0, <1>a, NamesDiffer, Facts, HandFacts DEF IInv, TypeOK, Held, Handling, Alive,
      runner, children, workers, Return, Release, Idle, NotOwned
<1>1. TypeOK'
  <2>1. lock' \in [Profile -> Worker \cup {Closer, Free}]
    OBVIOUS
  <2>2. /\ session' \in [Profile -> Attempt \cup {Free}]
        /\ ready' \subseteq Attempt /\ files' \subseteq Attempt
    OBVIOUS
  <2>3. ASSUME NEW v \in Worker, call'[v].at \in {"start", "up", "term", "kill", "using"}
        PROVE  call'[v].hand # Free
    <3>1. CASE v = w
      BY <2>3, <3>1
    <3>2. CASE v # w
      BY <2>3, <3>2
    <3>. QED BY <3>1, <3>2
  <2>. QED BY <2>1, <2>2, <2>3
<1>2. Locks'
  BY DEF Locks
<1>3. Hands'
  <2> SUFFICES ASSUME NEW v \in Worker PROVE HandOf(v)'
    BY DEF Hands
  <2>1. CASE v = w
    BY <2>1 DEF Hands, HandOf, Locks, Sessions
  <2>2. CASE v # w
    BY <2>2 DEF Hands, HandOf, Locks
  <2>. QED BY <2>1, <2>2
<1>4. CloserHands' /\ Sessions' /\ Fresh' /\ Closing'
  BY DEF CloserHands, Sessions, Locks, Hands, HandOf, Fresh, Closing
<1>5. NoOrphan'
  <2> SUFFICES ASSUME NEW b \in Attempt, Alive(b)', sig'[b] # "KILL"
               PROVE  session'[profileOf'[b]] = b \/ InHand(b, profileOf[b])'
    BY DEF NoOrphan
  <2>1. \/ /\ Alive(b) /\ profileOf[b] \in Profile
           /\ sig[b] = "KILL" \/ session[profileOf[b]] = b \/ InHand(b, profileOf[b])
        \/ /\ proc[b] = "none"
           /\ \E v \in Worker : call[v].at = "start" /\ call[v].hand = b
    BY DEF NoOrphan, Hands, HandOf
  <2>. QED
    BY <2>1 DEF Hands, HandOf, InHand, Locks, Sessions, CloserHands
<1>6. CredentialsGone'
  <2> SUFFICES ASSUME NEW b \in files' PROVE InHand(b, profileOf[b])'
    BY DEF CredentialsGone
  <2>. QED
    BY DEF Hands, HandOf, InHand, Locks, Sessions, CloserHands, CredentialsGone
<1>7. PromiseKept'
  BY DEF PromiseKept, Sessions, Hands, HandOf, Locks
<1>. QED BY <1>1, <1>2, <1>3, <1>4, <1>5, <1>6, <1>7 DEF IInv

LEMMA DropKeeps ==
  ASSUME IInv, NEW w \in Worker, NEW then \in {"open", "return"},
         call[w].at \in {"connect", "disconnect", "up"}, session[call[w].profile] # Free, Drop(w, then)
  PROVE  IInv'
BY DropAliveKeeps, DropDeadKeeps DEF Drop

LEMMA DisconnectKeeps ==
  ASSUME IInv, NEW w \in Worker, Disconnect(w)
  PROVE  IInv'
BY DropKeeps DEF Disconnect

LEMMA ReuseKeeps ==
  ASSUME IInv, NEW w \in Worker, Reuse(w)
  PROVE  IInv'
<1>0. /\ call' \in [Worker -> Call] /\ cancelled' \subseteq Worker
      /\ \A v \in Worker \ {w} : call'[v] = call[v]
      /\ lock' = [lock EXCEPT ![call[w].profile] = Free]
      /\ call[w].at \in Held /\ session[call[w].profile] \in Attempt
      /\ call'[w].at = "using" /\ call'[w].hand = session[call[w].profile]
      /\ call'[w].profile = call[w].profile
  BY ReturnUpFacts, Facts, HandFacts DEF Reuse, Alive, Held
<1>a. session' = session /\ ready' = ready /\ UNCHANGED <<closed, files, profileOf, proc, sig, calls, closer>>
       /\ session[call[w].profile] \in ready /\ Alive(session[call[w].profile])
  BY DEF Reuse, children
<1>. USE <1>0, <1>a, NamesDiffer, Facts, HandFacts DEF IInv, TypeOK, Held, Handling, Alive,
      runner, children, workers, ReturnUp, Release, Reuse
<1>1. TypeOK'
  <2>1. lock' \in [Profile -> Worker \cup {Closer, Free}]
    OBVIOUS
  <2>2. /\ session' \in [Profile -> Attempt \cup {Free}]
        /\ ready' \subseteq Attempt /\ files' \subseteq Attempt
    OBVIOUS
  <2>3. ASSUME NEW v \in Worker, call'[v].at \in {"start", "up", "term", "kill", "using"}
        PROVE  call'[v].hand # Free
    <3>1. CASE v = w
      BY <2>3, <3>1 DEF Idle
    <3>2. CASE v # w
      BY <2>3, <3>2
    <3>. QED BY <3>1, <3>2
  <2>. QED BY <2>1, <2>2, <2>3
<1>2. Locks'
  BY DEF Locks, Idle
<1>3. Hands'
  <2> SUFFICES ASSUME NEW v \in Worker PROVE HandOf(v)'
    BY DEF Hands
  <2>1. CASE v = w
    BY <2>1 DEF Hands, HandOf, Locks, Idle, Sessions
  <2>2. CASE v # w
    BY <2>2 DEF Hands, HandOf, Locks, Idle
  <2>. QED BY <2>1, <2>2
<1>4. CloserHands' /\ Sessions' /\ Fresh' /\ Closing'
  BY DEF CloserHands, Sessions, Locks, Hands, HandOf, Fresh, Closing
<1>5. NoOrphan'
  <2> SUFFICES ASSUME NEW b \in Attempt, Alive(b)', sig'[b] # "KILL"
               PROVE  session'[profileOf'[b]] = b \/ InHand(b, profileOf[b])'
    BY DEF NoOrphan
  <2>1. \/ /\ Alive(b) /\ profileOf[b] \in Profile
           /\ sig[b] = "KILL" \/ session[profileOf[b]] = b \/ InHand(b, profileOf[b])
        \/ /\ proc[b] = "none"
           /\ \E v \in Worker : call[v].at = "start" /\ call[v].hand = b
    BY DEF NoOrphan, Hands, HandOf
  <2>. QED
    BY <2>1 DEF Hands, HandOf, InHand, Locks, Sessions, CloserHands
<1>6. CredentialsGone'
  <2> SUFFICES ASSUME NEW b \in files' PROVE InHand(b, profileOf[b])'
    BY DEF CredentialsGone
  <2>. QED
    BY DEF Hands, HandOf, InHand, Locks, Sessions, CloserHands, CredentialsGone
<1>7. PromiseKept'
  BY DEF PromiseKept, Sessions, Hands, HandOf, Locks, Idle
<1>. QED BY <1>1, <1>2, <1>3, <1>4, <1>5, <1>6, <1>7 DEF IInv

LEMMA ReplaceKeeps ==
  ASSUME IInv, NEW w \in Worker, Replace(w)
  PROVE  IInv'
BY DropKeeps DEF Replace

LEMMA ConnectKeeps ==
  ASSUME IInv, NEW w \in Worker, Connect(w)
  PROVE  IInv'
<1>0. /\ call' \in [Worker -> Call]
      /\ \A v \in Worker \ {w} : call'[v] = call[v]
      /\ call'[w].at = "open" /\ call'[w].hand = call[w].hand
      /\ call'[w].profile = call[w].profile
  <2>1. call[w] \in Call
    BY Facts, HandFacts DEF Connect
  <2>2. call' = [call EXCEPT ![w] = [call[w] EXCEPT !.at = "open"]]
    BY <2>1 DEF Connect, IInv, TypeOK, Call
  <2>3. [call[w] EXCEPT !.at = "open"] \in Call
    BY <2>1, CallType DEF Held, Waits
  <2>4. call' \in [Worker -> Call] /\ \A v \in Worker \ {w} : call'[v] = call[v]
    BY <2>2, <2>3 DEF IInv, TypeOK
  <2>5. /\ call'[w].at = "open" /\ call'[w].hand = call[w].hand
        /\ call'[w].profile = call[w].profile
    BY <2>1, <2>2 DEF IInv, TypeOK, Call
  <2>. QED BY <2>4, <2>5
<1>. USE <1>0, NamesDiffer, Facts, HandFacts DEF IInv, TypeOK, Held, Handling, Alive, runner,
      children, workers, Connect
<1>1. TypeOK'
  BY DEF Call
<1>2. Locks'
  BY DEF Locks
<1>3. Hands'
  BY DEF Hands, HandOf, Locks
<1>4. CloserHands' /\ Sessions' /\ Fresh' /\ Closing'
  BY DEF CloserHands, Sessions, Locks, Hands, HandOf, Fresh, Closing
<1>5. NoOrphan'
  <2> SUFFICES ASSUME NEW b \in Attempt, Alive(b)', sig'[b] # "KILL"
               PROVE  session'[profileOf'[b]] = b \/ InHand(b, profileOf[b])'
    BY DEF NoOrphan
  <2>1. \/ /\ Alive(b) /\ profileOf[b] \in Profile
           /\ sig[b] = "KILL" \/ session[profileOf[b]] = b \/ InHand(b, profileOf[b])
        \/ /\ proc[b] = "none"
           /\ \E v \in Worker : call[v].at = "start" /\ call[v].hand = b
    BY DEF NoOrphan, Hands, HandOf
  <2>. QED
    BY <2>1 DEF Hands, HandOf, InHand, Locks, Sessions, CloserHands
<1>6. CredentialsGone'
  <2> SUFFICES ASSUME NEW b \in files' PROVE InHand(b, profileOf[b])'
    BY DEF CredentialsGone
  <2>. QED
    BY DEF Hands, HandOf, InHand, Locks, Sessions, CloserHands, CredentialsGone
<1>7. PromiseKept'
  BY DEF PromiseKept, Sessions, Hands, HandOf, Locks
<1>. QED BY <1>1, <1>2, <1>3, <1>4, <1>5, <1>6, <1>7 DEF IInv

LEMMA RefusedKeeps ==
  ASSUME IInv, NEW w \in Worker, Refused(w)
  PROVE  IInv'
<1>0. /\ call' \in [Worker -> Call] /\ cancelled' \subseteq Worker
      /\ \A v \in Worker \ {w} : call'[v] = call[v]
      /\ lock' = [lock EXCEPT ![call[w].profile] = Free]
      /\ call[w].at \in Held /\ call'[w] = Idle
  BY ReturnFacts DEF Refused, Held
<1>a. session' = session /\ ready' = ready /\ UNCHANGED <<closed, files, profileOf, proc, sig, calls, closer>>
       /\ call[w].at \in {"disconnect", "open"}
  BY DEF Refused, children
<1>. USE <1>0, <1>a, NamesDiffer, Facts, HandFacts DEF IInv, TypeOK, Held, Handling, Alive,
      runner, children, workers, Return, Release, Idle, Refused
<1>1. TypeOK'
  <2>1. lock' \in [Profile -> Worker \cup {Closer, Free}]
    OBVIOUS
  <2>2. /\ session' \in [Profile -> Attempt \cup {Free}]
        /\ ready' \subseteq Attempt /\ files' \subseteq Attempt
    OBVIOUS
  <2>3. ASSUME NEW v \in Worker, call'[v].at \in {"start", "up", "term", "kill", "using"}
        PROVE  call'[v].hand # Free
    <3>1. CASE v = w
      BY <2>3, <3>1
    <3>2. CASE v # w
      BY <2>3, <3>2
    <3>. QED BY <3>1, <3>2
  <2>. QED BY <2>1, <2>2, <2>3
<1>2. Locks'
  BY DEF Locks
<1>3. Hands'
  <2> SUFFICES ASSUME NEW v \in Worker PROVE HandOf(v)'
    BY DEF Hands
  <2>1. CASE v = w
    BY <2>1 DEF Hands, HandOf, Locks, Sessions
  <2>2. CASE v # w
    BY <2>2 DEF Hands, HandOf, Locks
  <2>. QED BY <2>1, <2>2
<1>4. CloserHands' /\ Sessions' /\ Fresh' /\ Closing'
  BY DEF CloserHands, Sessions, Locks, Hands, HandOf, Fresh, Closing
<1>5. NoOrphan'
  <2> SUFFICES ASSUME NEW b \in Attempt, Alive(b)', sig'[b] # "KILL"
               PROVE  session'[profileOf'[b]] = b \/ InHand(b, profileOf[b])'
    BY DEF NoOrphan
  <2>1. \/ /\ Alive(b) /\ profileOf[b] \in Profile
           /\ sig[b] = "KILL" \/ session[profileOf[b]] = b \/ InHand(b, profileOf[b])
        \/ /\ proc[b] = "none"
           /\ \E v \in Worker : call[v].at = "start" /\ call[v].hand = b
    BY DEF NoOrphan, Hands, HandOf
  <2>. QED
    BY <2>1 DEF Hands, HandOf, InHand, Locks, Sessions, CloserHands
<1>6. CredentialsGone'
  <2> SUFFICES ASSUME NEW b \in files' PROVE InHand(b, profileOf[b])'
    BY DEF CredentialsGone
  <2>. QED
    BY DEF Hands, HandOf, InHand, Locks, Sessions, CloserHands, CredentialsGone
<1>7. PromiseKept'
  BY DEF PromiseKept, Sessions, Hands, HandOf, Locks
<1>. QED BY <1>1, <1>2, <1>3, <1>4, <1>5, <1>6, <1>7 DEF IInv

LEMMA OpenKeeps ==
  ASSUME IInv, NEW w \in Worker, Open(w)
  PROVE  IInv'
<1>0. /\ call' \in [Worker -> Call]
      /\ \A v \in Worker \ {w} : call'[v] = call[v]
      /\ call'[w].at = "start" /\ call'[w].hand = CHOOSE a \in Unused : TRUE
      /\ call'[w].profile = call[w].profile
  <2>1. call[w] \in Call /\ (CHOOSE a \in Unused : TRUE) \in Attempt
    BY Facts, HandFacts DEF Open, Unused
  <2>2. call' = [call EXCEPT ![w] = [call[w] EXCEPT !.at = "start", !.hand = CHOOSE a \in Unused : TRUE]]
    BY <2>1 DEF Open, IInv, TypeOK, Call
  <2>3. [call[w] EXCEPT !.at = "start", !.hand = CHOOSE a \in Unused : TRUE] \in Call
    BY <2>1, CallType DEF Held, Waits, Unused
  <2>4. call' \in [Worker -> Call] /\ \A v \in Worker \ {w} : call'[v] = call[v]
    BY <2>2, <2>3 DEF IInv, TypeOK
  <2>5. /\ call'[w].at = "start" /\ call'[w].hand = CHOOSE a \in Unused : TRUE
        /\ call'[w].profile = call[w].profile
    BY <2>1, <2>2 DEF IInv, TypeOK, Call
  <2>. QED BY <2>1, <2>4, <2>5
<1>. USE <1>0, NamesDiffer, Facts, HandFacts DEF IInv, TypeOK, Held, Handling, Alive, runner,
      children, workers, Unused, Open
<1>1. TypeOK'
  BY DEF Call
<1>2. Locks'
  BY DEF Locks
<1>3. Hands'
  <2> SUFFICES ASSUME NEW v \in Worker PROVE HandOf(v)'
    BY DEF Hands
  <2>1. CASE v = w
    <3> DEFINE a == CHOOSE a \in Unused : TRUE
    <3>1. a \in Attempt /\ profileOf[a] = Free
      OBVIOUS
    <3>2. proc[a] = "none" /\ sig[a] = "none"
      BY <3>1 DEF Fresh
    <3>3. call[w].profile \in Profile /\ session[call[w].profile] = Free
      BY DEF Hands, HandOf
    <3>4. profileOf' = [profileOf EXCEPT ![a] = call[w].profile] /\ UNCHANGED <<session, proc, sig>>
      OBVIOUS
    <3>5. call'[w].at = "start" /\ call'[w].hand = a /\ call'[w].profile = call[w].profile
      OBVIOUS
    <3>. HIDE DEF a
    <3>. QED BY <2>1, <3>1, <3>2, <3>3, <3>4, <3>5 DEF HandOf
  <2>2. CASE v # w
    BY <2>2 DEF Hands, HandOf
  <2>. QED BY <2>1, <2>2
<1>4. CloserHands' /\ Sessions' /\ Fresh' /\ Closing'
  BY DEF CloserHands, Sessions, Locks, Hands, HandOf, Fresh, Closing
<1>5. NoOrphan'
  <2> SUFFICES ASSUME NEW b \in Attempt, Alive(b)', sig'[b] # "KILL"
               PROVE  session'[profileOf'[b]] = b \/ InHand(b, profileOf[b])'
    BY DEF NoOrphan
  <2>1. \/ /\ Alive(b) /\ profileOf[b] \in Profile
           /\ sig[b] = "KILL" \/ session[profileOf[b]] = b \/ InHand(b, profileOf[b])
        \/ /\ proc[b] = "none"
           /\ \E v \in Worker : call[v].at = "start" /\ call[v].hand = b
    BY DEF NoOrphan, Hands, HandOf
  <2>. QED
    BY <2>1 DEF Hands, HandOf, InHand, Locks, Sessions, CloserHands
<1>6. CredentialsGone'
  <2> SUFFICES ASSUME NEW b \in files' PROVE InHand(b, profileOf[b])'
    BY DEF CredentialsGone
  <2>. QED
    BY DEF Hands, HandOf, InHand, Locks, Sessions, CloserHands, CredentialsGone
<1>7. PromiseKept'
  BY DEF PromiseKept, Sessions, Hands, HandOf, Locks
<1>. QED BY <1>1, <1>2, <1>3, <1>4, <1>5, <1>6, <1>7 DEF IInv

LEMMA StartKeeps ==
  ASSUME IInv, NEW w \in Worker, Start(w)
  PROVE  IInv'
<1>0. /\ call' \in [Worker -> Call]
      /\ \A v \in Worker \ {w} : call'[v] = call[v]
      /\ call'[w].at = "up" /\ call'[w].hand = call[w].hand
      /\ call'[w].profile = call[w].profile
  <2>1. call[w] \in Call
    BY Facts, HandFacts DEF Start
  <2>2. call' = [call EXCEPT ![w] = [call[w] EXCEPT !.at = "up"]]
    BY <2>1 DEF Start, IInv, TypeOK, Call
  <2>3. [call[w] EXCEPT !.at = "up"] \in Call
    BY <2>1, CallType DEF Held, Waits
  <2>4. call' \in [Worker -> Call] /\ \A v \in Worker \ {w} : call'[v] = call[v]
    BY <2>2, <2>3 DEF IInv, TypeOK
  <2>5. /\ call'[w].at = "up" /\ call'[w].hand = call[w].hand
        /\ call'[w].profile = call[w].profile
    BY <2>1, <2>2 DEF IInv, TypeOK, Call
  <2>. QED BY <2>4, <2>5
<1>. USE <1>0, NamesDiffer, Facts, HandFacts DEF IInv, TypeOK, Held, Handling, Alive, runner,
      children, workers, Start
<1>1. TypeOK'
  OBVIOUS
<1>2. Locks'
  BY DEF Locks
<1>3. Hands'
  <2> SUFFICES ASSUME NEW v \in Worker PROVE HandOf(v)'
    BY DEF Hands
  <2>1. CASE v = w
    BY <2>1 DEF Hands, HandOf, Sessions
  <2>2. CASE v # w
    BY <2>2 DEF Hands, HandOf
  <2>. QED BY <2>1, <2>2
<1>4. CloserHands' /\ Sessions' /\ Fresh' /\ Closing'
  BY DEF CloserHands, Sessions, Locks, Hands, HandOf, Fresh, Closing
<1>5. NoOrphan'
  <2> SUFFICES ASSUME NEW b \in Attempt, Alive(b)', sig'[b] # "KILL"
               PROVE  session'[profileOf'[b]] = b \/ InHand(b, profileOf[b])'
    BY DEF NoOrphan
  <2>1. \/ /\ Alive(b) /\ profileOf[b] \in Profile
           /\ sig[b] = "KILL" \/ session[profileOf[b]] = b \/ InHand(b, profileOf[b])
        \/ /\ proc[b] = "none"
           /\ \E v \in Worker : call[v].at = "start" /\ call[v].hand = b
    BY DEF NoOrphan, Hands, HandOf
  <2>. QED
    BY <2>1 DEF Hands, HandOf, InHand, Locks, Sessions, CloserHands
<1>6. CredentialsGone'
  <2> SUFFICES ASSUME NEW b \in files' PROVE InHand(b, profileOf[b])'
    BY DEF CredentialsGone
  <2>. QED
    BY DEF Hands, HandOf, InHand, Locks, Sessions, CloserHands, CredentialsGone
<1>7. PromiseKept'
  BY DEF PromiseKept, Sessions, Hands, HandOf, Locks
<1>. QED BY <1>1, <1>2, <1>3, <1>4, <1>5, <1>6, <1>7 DEF IInv

LEMMA StartFailsKeeps ==
  ASSUME IInv, NEW w \in Worker, StartFails(w)
  PROVE  IInv'
<1>0. /\ call' \in [Worker -> Call] /\ cancelled' \subseteq Worker
      /\ \A v \in Worker \ {w} : call'[v] = call[v]
      /\ lock' = [lock EXCEPT ![call[w].profile] = Free]
      /\ call[w].at \in Held /\ call'[w] = Idle
  BY ReturnFacts DEF StartFails, Held
<1>. USE <1>0, NamesDiffer, Facts, HandFacts DEF IInv, TypeOK, Held, Handling, Alive, runner,
      children, workers, Clean, Signal, Return, Release, Idle, StartFails
<1>1. TypeOK'
  OBVIOUS
<1>2. Locks'
  BY DEF Locks
<1>3. Hands'
  <2> SUFFICES ASSUME NEW v \in Worker PROVE HandOf(v)'
    BY DEF Hands
  <2>1. CASE v = w
    BY <2>1 DEF Hands, HandOf, Sessions
  <2>2. CASE v # w
    BY <2>2 DEF Hands, HandOf
  <2>. QED BY <2>1, <2>2
<1>4. CloserHands' /\ Sessions' /\ Fresh' /\ Closing'
  BY DEF CloserHands, Sessions, Locks, Hands, HandOf, Fresh, Closing
<1>5. NoOrphan'
  <2> SUFFICES ASSUME NEW b \in Attempt, Alive(b)', sig'[b] # "KILL"
               PROVE  session'[profileOf'[b]] = b \/ InHand(b, profileOf[b])'
    BY DEF NoOrphan
  <2>1. \/ /\ Alive(b) /\ profileOf[b] \in Profile
           /\ sig[b] = "KILL" \/ session[profileOf[b]] = b \/ InHand(b, profileOf[b])
        \/ /\ proc[b] = "none"
           /\ \E v \in Worker : call[v].at = "start" /\ call[v].hand = b
    BY DEF NoOrphan, Hands, HandOf
  <2>. QED
    BY <2>1 DEF Hands, HandOf, InHand, Locks, Sessions, CloserHands
<1>6. CredentialsGone'
  <2> SUFFICES ASSUME NEW b \in files' PROVE InHand(b, profileOf[b])'
    BY DEF CredentialsGone
  <2>. QED
    BY DEF Hands, HandOf, InHand, Locks, Sessions, CloserHands, CredentialsGone
<1>7. PromiseKept'
  BY DEF PromiseKept, Sessions, Hands, HandOf, Locks
<1>. QED BY <1>1, <1>2, <1>3, <1>4, <1>5, <1>6, <1>7 DEF IInv

LEMMA CameUpKeeps ==
  ASSUME IInv, NEW w \in Worker, CameUp(w)
  PROVE  IInv'
<1>0. /\ call' \in [Worker -> Call] /\ cancelled' \subseteq Worker
      /\ \A v \in Worker \ {w} : call'[v] = call[v]
      /\ lock' = [lock EXCEPT ![call[w].profile] = Free]
      /\ call[w].hand \in Attempt
      /\ call'[w].at = "using" /\ call'[w].hand = call[w].hand
      /\ call'[w].profile = call[w].profile
  BY ReturnUpFacts, HandFacts DEF CameUp, Handling, Held
<1>. USE <1>0, NamesDiffer, Facts, HandFacts DEF IInv, TypeOK, Held, Handling, Alive, runner,
      children, workers, Clean, ReturnUp, Release, CameUp
<1>1. TypeOK'
  OBVIOUS
<1>2. Locks'
  BY DEF Locks
<1>3. Hands'
  BY DEF Hands, HandOf, Locks
<1>4. CloserHands' /\ Sessions' /\ Fresh' /\ Closing'
  BY DEF CloserHands, Sessions, Locks, Hands, HandOf, Fresh, Closing
<1>5. NoOrphan'
  <2> SUFFICES ASSUME NEW b \in Attempt, Alive(b)', sig'[b] # "KILL"
               PROVE  session'[profileOf'[b]] = b \/ InHand(b, profileOf[b])'
    BY DEF NoOrphan
  <2>1. \/ /\ Alive(b) /\ profileOf[b] \in Profile
           /\ sig[b] = "KILL" \/ session[profileOf[b]] = b \/ InHand(b, profileOf[b])
        \/ /\ proc[b] = "none"
           /\ \E v \in Worker : call[v].at = "start" /\ call[v].hand = b
    BY DEF NoOrphan, Hands, HandOf
  <2>. QED
    BY <2>1 DEF Hands, HandOf, InHand, Locks, Sessions, CloserHands
<1>6. CredentialsGone'
  <2> SUFFICES ASSUME NEW b \in files' PROVE InHand(b, profileOf[b])'
    BY DEF CredentialsGone
  <2>. QED
    BY DEF Hands, HandOf, InHand, Locks, Sessions, CloserHands, CredentialsGone
<1>7. PromiseKept'
  BY DEF PromiseKept, Sessions, Hands, HandOf, Locks
<1>. QED BY <1>1, <1>2, <1>3, <1>4, <1>5, <1>6, <1>7 DEF IInv

LEMMA GaveUpKeeps ==
  ASSUME IInv, NEW w \in Worker, GaveUp(w)
  PROVE  IInv'
<1>1. call[w].at = "up" /\ session[call[w].profile] # Free /\ Drop(w, "return")
  BY NamesDiffer DEF GaveUp, IInv, Hands, HandOf, Handling
<1>. QED BY <1>1, DropKeeps

LEMMA TermTimeoutKeeps ==
  ASSUME IInv, NEW w \in Worker, TermTimeout(w)
  PROVE  IInv'
<1>0. /\ call' \in [Worker -> Call]
      /\ \A v \in Worker \ {w} : call'[v] = call[v]
      /\ call'[w].at = "kill" /\ call'[w].hand = call[w].hand
      /\ call'[w].profile = call[w].profile
  <2>1. call[w] \in Call
    BY Facts, HandFacts DEF TermTimeout
  <2>2. call' = [call EXCEPT ![w] = [call[w] EXCEPT !.at = "kill"]]
    BY <2>1 DEF TermTimeout, IInv, TypeOK, Call
  <2>3. [call[w] EXCEPT !.at = "kill"] \in Call
    BY <2>1, CallType DEF Held, Waits
  <2>4. call' \in [Worker -> Call] /\ \A v \in Worker \ {w} : call'[v] = call[v]
    BY <2>2, <2>3 DEF IInv, TypeOK
  <2>5. /\ call'[w].at = "kill" /\ call'[w].hand = call[w].hand
        /\ call'[w].profile = call[w].profile
    BY <2>1, <2>2 DEF IInv, TypeOK, Call
  <2>. QED BY <2>4, <2>5
<1>. USE <1>0, NamesDiffer, Facts, HandFacts DEF IInv, TypeOK, Held, Handling, Alive, runner,
      children, workers, Signal, TermTimeout
<1>1. TypeOK'
  BY DEF Call
<1>2. Locks'
  BY DEF Locks
<1>3. Hands'
  BY DEF Hands, HandOf, Locks
<1>4. CloserHands' /\ Sessions' /\ Fresh' /\ Closing'
  BY DEF CloserHands, Sessions, Locks, Hands, HandOf, Fresh, Closing
<1>5. NoOrphan'
  <2> SUFFICES ASSUME NEW b \in Attempt, Alive(b)', sig'[b] # "KILL"
               PROVE  session'[profileOf'[b]] = b \/ InHand(b, profileOf[b])'
    BY DEF NoOrphan
  <2>1. \/ /\ Alive(b) /\ profileOf[b] \in Profile
           /\ sig[b] = "KILL" \/ session[profileOf[b]] = b \/ InHand(b, profileOf[b])
        \/ /\ proc[b] = "none"
           /\ \E v \in Worker : call[v].at = "start" /\ call[v].hand = b
    BY DEF NoOrphan, Hands, HandOf
  <2>. QED
    BY <2>1 DEF Hands, HandOf, InHand, Locks, Sessions, CloserHands
<1>6. CredentialsGone'
  <2> SUFFICES ASSUME NEW b \in files' PROVE InHand(b, profileOf[b])'
    BY DEF CredentialsGone
  <2>. QED
    BY DEF Hands, HandOf, InHand, Locks, Sessions, CloserHands, CredentialsGone
<1>7. PromiseKept'
  BY DEF PromiseKept, Sessions, Hands, HandOf, Locks
<1>. QED BY <1>1, <1>2, <1>3, <1>4, <1>5, <1>6, <1>7 DEF IInv

LEMMA DroppedKeeps ==
  ASSUME IInv, NEW w \in Worker, Dropped(w)
  PROVE  IInv'
<1>0. /\ call' \in [Worker -> Call] /\ cancelled' \subseteq Worker
      /\ \A v \in Worker \ {w} : call'[v] = call[v]
      /\ call[w].at \in Held
      /\ \/ /\ call'[w].at = "open" /\ call'[w].hand = Free /\ call'[w].profile = call[w].profile
            /\ lock' = lock
         \/ call'[w] = Idle /\ lock' = [lock EXCEPT ![call[w].profile] = Free]
  BY AfterFacts, Facts DEF Dropped, Held, Call
<1>a. session' = session /\ ready' = ready /\ files' = files \ {call[w].hand}
       /\ UNCHANGED <<closed, profileOf, proc, sig, calls, closer>> /\ call[w].at \in {"term", "kill"}
  BY DEF Dropped, children, Clean
<1>. USE <1>0, <1>a, NamesDiffer, Facts, HandFacts DEF IInv, TypeOK, Held, Handling, Alive,
      runner, children, workers, Clean, After, Return, Release, Idle, Dropped
<1>1. TypeOK'
  <2>1. lock' \in [Profile -> Worker \cup {Closer, Free}]
    OBVIOUS
  <2>2. /\ session' \in [Profile -> Attempt \cup {Free}]
        /\ ready' \subseteq Attempt /\ files' \subseteq Attempt
    OBVIOUS
  <2>3. ASSUME NEW v \in Worker, call'[v].at \in {"start", "up", "term", "kill", "using"}
        PROVE  call'[v].hand # Free
    <3>1. CASE v = w
      BY <2>3, <3>1
    <3>2. CASE v # w
      BY <2>3, <3>2
    <3>. QED BY <3>1, <3>2
  <2>. QED BY <2>1, <2>2, <2>3
<1>2. Locks'
  BY DEF Locks
<1>3. Hands'
  <2> SUFFICES ASSUME NEW v \in Worker PROVE HandOf(v)'
    BY DEF Hands
  <2>1. CASE v = w
    BY <2>1 DEF Hands, HandOf, Locks, Sessions
  <2>2. CASE v # w
    BY <2>2 DEF Hands, HandOf, Locks
  <2>. QED BY <2>1, <2>2
<1>4. CloserHands' /\ Sessions' /\ Fresh' /\ Closing'
  BY DEF CloserHands, Sessions, Locks, Hands, HandOf, Fresh, Closing
<1>5. NoOrphan'
  <2> SUFFICES ASSUME NEW b \in Attempt, Alive(b)', sig'[b] # "KILL"
               PROVE  session'[profileOf'[b]] = b \/ InHand(b, profileOf[b])'
    BY DEF NoOrphan
  <2>1. \/ /\ Alive(b) /\ profileOf[b] \in Profile
           /\ sig[b] = "KILL" \/ session[profileOf[b]] = b \/ InHand(b, profileOf[b])
        \/ /\ proc[b] = "none"
           /\ \E v \in Worker : call[v].at = "start" /\ call[v].hand = b
    BY DEF NoOrphan, Hands, HandOf
  <2>. QED
    BY <2>1 DEF Hands, HandOf, InHand, Locks, Sessions, CloserHands
<1>6. CredentialsGone'
  <2> SUFFICES ASSUME NEW b \in files' PROVE InHand(b, profileOf[b])'
    BY DEF CredentialsGone
  <2>. QED
    BY DEF Hands, HandOf, InHand, Locks, Sessions, CloserHands, CredentialsGone
<1>7. PromiseKept'
  BY DEF PromiseKept, Sessions, Hands, HandOf, Locks
<1>. QED BY <1>1, <1>2, <1>3, <1>4, <1>5, <1>6, <1>7 DEF IInv

LEMMA UsedKeeps ==
  ASSUME IInv, NEW w \in Worker, Used(w)
  PROVE  IInv'
<1>. USE NamesDiffer, Facts, HandFacts DEF IInv, TypeOK, Held, Handling, Alive, runner,
      children, workers, Idle, Used
<1>1. TypeOK'
  BY DEF Call
<1>2. Locks'
  BY DEF Locks
<1>3. Hands'
  BY DEF Hands, HandOf, Locks
<1>4. CloserHands' /\ Sessions' /\ Fresh' /\ Closing'
  BY DEF CloserHands, Sessions, Locks, Hands, HandOf, Fresh, Closing
<1>5. NoOrphan'
  <2> SUFFICES ASSUME NEW b \in Attempt, Alive(b)', sig'[b] # "KILL"
               PROVE  session'[profileOf'[b]] = b \/ InHand(b, profileOf[b])'
    BY DEF NoOrphan
  <2>1. \/ /\ Alive(b) /\ profileOf[b] \in Profile
           /\ sig[b] = "KILL" \/ session[profileOf[b]] = b \/ InHand(b, profileOf[b])
        \/ /\ proc[b] = "none"
           /\ \E v \in Worker : call[v].at = "start" /\ call[v].hand = b
    BY DEF NoOrphan, Hands, HandOf
  <2>. QED
    BY <2>1 DEF Hands, HandOf, InHand, Locks, Sessions, CloserHands
<1>6. CredentialsGone'
  <2> SUFFICES ASSUME NEW b \in files' PROVE InHand(b, profileOf[b])'
    BY DEF CredentialsGone
  <2>. QED
    BY DEF Hands, HandOf, InHand, Locks, Sessions, CloserHands, CredentialsGone
<1>7. PromiseKept'
  BY DEF PromiseKept, Sessions, Hands, HandOf, Locks
<1>. QED BY <1>1, <1>2, <1>3, <1>4, <1>5, <1>6, <1>7 DEF IInv

LEMMA CloseKeeps ==
  ASSUME IInv, Close
  PROVE  IInv'
<1>. USE NamesDiffer, Facts, HandFacts DEF IInv, TypeOK, Held, Handling, Alive, runner,
      children, workers, Close
<1>1. TypeOK'
  BY DEF Call
<1>2. Locks'
  BY DEF Locks
<1>3. Hands'
  BY DEF Hands, HandOf, Locks
<1>4. CloserHands' /\ Sessions' /\ Fresh' /\ Closing'
  BY DEF CloserHands, Sessions, Locks, Hands, HandOf, Fresh, Closing
<1>5. NoOrphan'
  <2> SUFFICES ASSUME NEW b \in Attempt, Alive(b)', sig'[b] # "KILL"
               PROVE  session'[profileOf'[b]] = b \/ InHand(b, profileOf[b])'
    BY DEF NoOrphan
  <2>1. \/ /\ Alive(b) /\ profileOf[b] \in Profile
           /\ sig[b] = "KILL" \/ session[profileOf[b]] = b \/ InHand(b, profileOf[b])
        \/ /\ proc[b] = "none"
           /\ \E v \in Worker : call[v].at = "start" /\ call[v].hand = b
    BY DEF NoOrphan, Hands, HandOf
  <2>. QED
    BY <2>1 DEF Hands, HandOf, InHand, Locks, Sessions, CloserHands
<1>6. CredentialsGone'
  <2> SUFFICES ASSUME NEW b \in files' PROVE InHand(b, profileOf[b])'
    BY DEF CredentialsGone
  <2>. QED
    BY DEF Hands, HandOf, InHand, Locks, Sessions, CloserHands, CredentialsGone
<1>7. PromiseKept'
  BY DEF PromiseKept, Sessions, Hands, HandOf, Locks
<1>. QED BY <1>1, <1>2, <1>3, <1>4, <1>5, <1>6, <1>7 DEF IInv

LEMMA CloseNextKeeps ==
  ASSUME IInv, NEW p \in Profile, CloseNext(p)
  PROVE  IInv'
<1>. USE NamesDiffer, Facts, HandFacts DEF IInv, TypeOK, Held, Handling, Alive, runner,
      children, workers, Signal, Pop, CloseNext
<1>1. TypeOK'
  BY DEF Call
<1>2. Locks'
  BY DEF Locks
<1>3. Hands'
  <2> SUFFICES ASSUME NEW v \in Worker PROVE HandOf(v)'
    BY DEF Hands
  <2>. QED
    BY DEF Hands, HandOf
<1>4. CloserHands' /\ Sessions' /\ Fresh' /\ Closing'
  BY DEF CloserHands, Sessions, Locks, Hands, HandOf, Fresh, Closing
<1>5. NoOrphan'
  <2> SUFFICES ASSUME NEW b \in Attempt, Alive(b)', sig'[b] # "KILL"
               PROVE  session'[profileOf'[b]] = b \/ InHand(b, profileOf[b])'
    BY DEF NoOrphan
  <2>1. \/ /\ Alive(b) /\ profileOf[b] \in Profile
           /\ sig[b] = "KILL" \/ session[profileOf[b]] = b \/ InHand(b, profileOf[b])
        \/ /\ proc[b] = "none"
           /\ \E v \in Worker : call[v].at = "start" /\ call[v].hand = b
    BY DEF NoOrphan, Hands, HandOf
  <2>. QED
    BY <2>1 DEF Hands, HandOf, InHand, Locks, Sessions, CloserHands
<1>6. CredentialsGone'
  <2> SUFFICES ASSUME NEW b \in files' PROVE InHand(b, profileOf[b])'
    BY DEF CredentialsGone
  <2>. QED
    BY DEF Hands, HandOf, InHand, Locks, Sessions, CloserHands, CredentialsGone
<1>7. PromiseKept'
  BY DEF PromiseKept, Sessions, Hands, HandOf, Locks
<1>. QED BY <1>1, <1>2, <1>3, <1>4, <1>5, <1>6, <1>7 DEF IInv

LEMMA CloseSkipsKeeps ==
  ASSUME IInv, NEW p \in Profile, CloseSkips(p)
  PROVE  IInv'
<1>. USE NamesDiffer, Facts, HandFacts DEF IInv, TypeOK, Held, Handling, Alive, runner,
      children, workers, Pop, Clean, NextProfile, CloseSkips
<1>1. TypeOK'
  BY DEF Call
<1>2. Locks'
  BY DEF Locks
<1>3. Hands'
  BY DEF Hands, HandOf, Locks
<1>4. CloserHands' /\ Sessions' /\ Fresh' /\ Closing'
  BY DEF CloserHands, Sessions, Locks, Hands, HandOf, Fresh, Closing
<1>5. NoOrphan'
  <2> SUFFICES ASSUME NEW b \in Attempt, Alive(b)', sig'[b] # "KILL"
               PROVE  session'[profileOf'[b]] = b \/ InHand(b, profileOf[b])'
    BY DEF NoOrphan
  <2>1. \/ /\ Alive(b) /\ profileOf[b] \in Profile
           /\ sig[b] = "KILL" \/ session[profileOf[b]] = b \/ InHand(b, profileOf[b])
        \/ /\ proc[b] = "none"
           /\ \E v \in Worker : call[v].at = "start" /\ call[v].hand = b
    BY DEF NoOrphan, Hands, HandOf
  <2>. QED
    BY <2>1 DEF Hands, HandOf, InHand, Locks, Sessions, CloserHands
<1>6. CredentialsGone'
  <2> SUFFICES ASSUME NEW b \in files' PROVE InHand(b, profileOf[b])'
    BY DEF CredentialsGone
  <2>. QED
    BY DEF Hands, HandOf, InHand, Locks, Sessions, CloserHands, CredentialsGone
<1>7. PromiseKept'
  BY DEF PromiseKept, Sessions, Hands, HandOf, Locks
<1>. QED BY <1>1, <1>2, <1>3, <1>4, <1>5, <1>6, <1>7 DEF IInv

LEMMA CloseGivesUpKeeps ==
  ASSUME IInv, NEW p \in Profile, CloseGivesUp(p)
  PROVE  IInv'
<1>. USE NamesDiffer, Facts, HandFacts DEF IInv, TypeOK, Held, Handling, Alive, runner,
      children, workers, NextProfile, CloseGivesUp
<1>1. TypeOK'
  BY DEF Call
<1>2. Locks'
  BY DEF Locks
<1>3. Hands'
  BY DEF Hands, HandOf, Locks
<1>4. CloserHands' /\ Sessions' /\ Fresh' /\ Closing'
  BY DEF CloserHands, Sessions, Locks, Hands, HandOf, Fresh, Closing
<1>5. NoOrphan'
  <2> SUFFICES ASSUME NEW b \in Attempt, Alive(b)', sig'[b] # "KILL"
               PROVE  session'[profileOf'[b]] = b \/ InHand(b, profileOf[b])'
    BY DEF NoOrphan
  <2>1. \/ /\ Alive(b) /\ profileOf[b] \in Profile
           /\ sig[b] = "KILL" \/ session[profileOf[b]] = b \/ InHand(b, profileOf[b])
        \/ /\ proc[b] = "none"
           /\ \E v \in Worker : call[v].at = "start" /\ call[v].hand = b
    BY DEF NoOrphan, Hands, HandOf
  <2>. QED
    BY <2>1 DEF Hands, HandOf, InHand, Locks, Sessions, CloserHands
<1>6. CredentialsGone'
  <2> SUFFICES ASSUME NEW b \in files' PROVE InHand(b, profileOf[b])'
    BY DEF CredentialsGone
  <2>. QED
    BY DEF Hands, HandOf, InHand, Locks, Sessions, CloserHands, CredentialsGone
<1>7. PromiseKept'
  BY DEF PromiseKept, Sessions, Hands, HandOf, Locks
<1>. QED BY <1>1, <1>2, <1>3, <1>4, <1>5, <1>6, <1>7 DEF IInv

LEMMA CloseKillsKeeps ==
  ASSUME IInv, CloseKills
  PROVE  IInv'
<1>. USE NamesDiffer, Facts, HandFacts DEF IInv, TypeOK, Held, Handling, Alive, runner,
      children, workers, Signal, CloseKills
<1>1. TypeOK'
  BY DEF Call
<1>2. Locks'
  BY DEF Locks
<1>3. Hands'
  <2> SUFFICES ASSUME NEW v \in Worker PROVE HandOf(v)'
    BY DEF Hands
  <2>. QED
    BY DEF Hands, HandOf
<1>4. CloserHands' /\ Sessions' /\ Fresh' /\ Closing'
  BY DEF CloserHands, Sessions, Locks, Hands, HandOf, Fresh, Closing
<1>5. NoOrphan'
  <2> SUFFICES ASSUME NEW b \in Attempt, Alive(b)', sig'[b] # "KILL"
               PROVE  session'[profileOf'[b]] = b \/ InHand(b, profileOf[b])'
    BY DEF NoOrphan
  <2>1. \/ /\ Alive(b) /\ profileOf[b] \in Profile
           /\ sig[b] = "KILL" \/ session[profileOf[b]] = b \/ InHand(b, profileOf[b])
        \/ /\ proc[b] = "none"
           /\ \E v \in Worker : call[v].at = "start" /\ call[v].hand = b
    BY DEF NoOrphan, Hands, HandOf
  <2>. QED
    BY <2>1 DEF Hands, HandOf, InHand, Locks, Sessions, CloserHands
<1>6. CredentialsGone'
  <2> SUFFICES ASSUME NEW b \in files' PROVE InHand(b, profileOf[b])'
    BY DEF CredentialsGone
  <2>. QED
    BY DEF Hands, HandOf, InHand, Locks, Sessions, CloserHands, CredentialsGone
<1>7. PromiseKept'
  BY DEF PromiseKept, Sessions, Hands, HandOf, Locks
<1>. QED BY <1>1, <1>2, <1>3, <1>4, <1>5, <1>6, <1>7 DEF IInv

LEMMA CloseReleasesKeeps ==
  ASSUME IInv, CloseReleases
  PROVE  IInv'
<1>. USE NamesDiffer, Facts, HandFacts DEF IInv, TypeOK, Held, Handling, Alive, runner,
      children, workers, Clean, NextProfile, CloseReleases
<1>1. TypeOK'
  BY DEF Call
<1>2. Locks'
  BY DEF Locks
<1>3. Hands'
  BY DEF Hands, HandOf, Locks
<1>4. CloserHands' /\ Sessions' /\ Fresh' /\ Closing'
  BY DEF CloserHands, Sessions, Locks, Hands, HandOf, Fresh, Closing
<1>5. NoOrphan'
  <2> SUFFICES ASSUME NEW b \in Attempt, Alive(b)', sig'[b] # "KILL"
               PROVE  session'[profileOf'[b]] = b \/ InHand(b, profileOf[b])'
    BY DEF NoOrphan
  <2>1. \/ /\ Alive(b) /\ profileOf[b] \in Profile
           /\ sig[b] = "KILL" \/ session[profileOf[b]] = b \/ InHand(b, profileOf[b])
        \/ /\ proc[b] = "none"
           /\ \E v \in Worker : call[v].at = "start" /\ call[v].hand = b
    BY DEF NoOrphan, Hands, HandOf
  <2>. QED
    BY <2>1 DEF Hands, HandOf, InHand, Locks, Sessions, CloserHands
<1>6. CredentialsGone'
  <2> SUFFICES ASSUME NEW b \in files' PROVE InHand(b, profileOf[b])'
    BY DEF CredentialsGone
  <2>. QED
    BY DEF Hands, HandOf, InHand, Locks, Sessions, CloserHands, CredentialsGone
<1>7. PromiseKept'
  BY DEF PromiseKept, Sessions, Hands, HandOf, Locks
<1>. QED BY <1>1, <1>2, <1>3, <1>4, <1>5, <1>6, <1>7 DEF IInv

LEMMA MarkKeeps ==
  ASSUME IInv, NEW a \in Attempt, Mark(a)
  PROVE  IInv'
<1>. USE NamesDiffer, Facts, HandFacts DEF IInv, TypeOK, Held, Handling, Alive, runner,
      children, workers, Mark
<1>1. TypeOK'
  BY DEF Call
<1>2. Locks'
  BY DEF Locks
<1>3. Hands'
  BY DEF Hands, HandOf, Locks
<1>4. CloserHands' /\ Sessions' /\ Fresh' /\ Closing'
  BY DEF CloserHands, Sessions, Locks, Hands, HandOf, Fresh, Closing
<1>5. NoOrphan'
  <2> SUFFICES ASSUME NEW b \in Attempt, Alive(b)', sig'[b] # "KILL"
               PROVE  session'[profileOf'[b]] = b \/ InHand(b, profileOf[b])'
    BY DEF NoOrphan
  <2>1. \/ /\ Alive(b) /\ profileOf[b] \in Profile
           /\ sig[b] = "KILL" \/ session[profileOf[b]] = b \/ InHand(b, profileOf[b])
        \/ /\ proc[b] = "none"
           /\ \E v \in Worker : call[v].at = "start" /\ call[v].hand = b
    BY DEF NoOrphan, Hands, HandOf
  <2>. QED
    BY <2>1 DEF Hands, HandOf, InHand, Locks, Sessions, CloserHands
<1>6. CredentialsGone'
  <2> SUFFICES ASSUME NEW b \in files' PROVE InHand(b, profileOf[b])'
    BY DEF CredentialsGone
  <2>. QED
    BY DEF Hands, HandOf, InHand, Locks, Sessions, CloserHands, CredentialsGone
<1>7. PromiseKept'
  BY DEF PromiseKept, Sessions, Hands, HandOf, Locks
<1>. QED BY <1>1, <1>2, <1>3, <1>4, <1>5, <1>6, <1>7 DEF IInv

LEMMA ExitKeeps ==
  ASSUME IInv, NEW a \in Attempt, Exit(a)
  PROVE  IInv'
<1>. USE NamesDiffer, Facts, HandFacts DEF IInv, TypeOK, Held, Handling, Alive, runner,
      children, workers, Exit
<1>1. TypeOK'
  BY DEF Call
<1>2. Locks'
  BY DEF Locks
<1>3. Hands'
  BY DEF Hands, HandOf, Locks
<1>4. CloserHands' /\ Sessions' /\ Fresh' /\ Closing'
  BY DEF CloserHands, Sessions, Locks, Hands, HandOf, Fresh, Closing
<1>5. NoOrphan'
  <2> SUFFICES ASSUME NEW b \in Attempt, Alive(b)', sig'[b] # "KILL"
               PROVE  session'[profileOf'[b]] = b \/ InHand(b, profileOf[b])'
    BY DEF NoOrphan
  <2>1. \/ /\ Alive(b) /\ profileOf[b] \in Profile
           /\ sig[b] = "KILL" \/ session[profileOf[b]] = b \/ InHand(b, profileOf[b])
        \/ /\ proc[b] = "none"
           /\ \E v \in Worker : call[v].at = "start" /\ call[v].hand = b
    BY DEF NoOrphan, Hands, HandOf
  <2>. QED
    BY <2>1 DEF Hands, HandOf, InHand, Locks, Sessions, CloserHands
<1>6. CredentialsGone'
  <2> SUFFICES ASSUME NEW b \in files' PROVE InHand(b, profileOf[b])'
    BY DEF CredentialsGone
  <2>. QED
    BY DEF Hands, HandOf, InHand, Locks, Sessions, CloserHands, CredentialsGone
<1>7. PromiseKept'
  BY DEF PromiseKept, Sessions, Hands, HandOf, Locks
<1>. QED BY <1>1, <1>2, <1>3, <1>4, <1>5, <1>6, <1>7 DEF IInv

-----------------------------------------------------------------------------
LEMMA InitHolds == Init => IInv
<1> SUFFICES ASSUME Init PROVE IInv
  OBVIOUS
<1>. USE NamesDiffer DEF Init
<1>1. TypeOK
  <2>1. Idle \in Call
    BY CallType
  <2>2. call \in [Worker -> Call] /\ \A w \in Worker : call[w].at = "idle"
    BY <2>1 DEF Idle
  <2>3. calls \in 0 .. MaxCalls
    BY CallsNat
  <2>. QED BY <2>2, <2>3 DEF TypeOK
<1>2. Locks /\ Hands /\ CloserHands
  BY DEF Locks, Hands, HandOf, CloserHands, Idle, Held, Handling
<1>3. Sessions /\ Fresh /\ Closing
  BY DEF Sessions, Fresh, Closing
<1>4. NoOrphan /\ CredentialsGone /\ PromiseKept
  BY DEF NoOrphan, CredentialsGone, PromiseKept, Alive, Idle
<1>. QED BY <1>1, <1>2, <1>3, <1>4 DEF IInv

LEMMA StepKeeps == IInv /\ [Next]_vars => IInv'
<1> SUFFICES ASSUME IInv, [Next]_vars PROVE IInv'
  OBVIOUS
<1>1. CASE \E w \in Worker : Step(w)
  BY <1>1, AcquireKeeps, StopWaitingKeeps, StatusUpKeeps, StatusDownKeeps, NotOwnedKeeps,
    DisconnectKeeps, ReuseKeeps, ReplaceKeeps, ConnectKeeps, RefusedKeeps, OpenKeeps,
    StartKeeps, StartFailsKeeps, CameUpKeeps, GaveUpKeeps, TermTimeoutKeeps, DroppedKeeps,
    UsedKeeps DEF Step
<1>2. CASE \E w \in Worker : Cancel(w)
  BY <1>2, CancelKeeps
<1>3. CASE \E w \in Worker, p \in Profile, op \in {"ensure", "status", "disconnect"} : Begin(w, op, p)
  BY <1>3, BeginKeeps
<1>4. CASE Close \/ CloseStep
  BY <1>4, CloseKeeps, CloseNextKeeps, CloseSkipsKeeps, CloseGivesUpKeeps, CloseKillsKeeps,
    CloseReleasesKeeps DEF CloseStep
<1>5. CASE \E a \in Attempt : Mark(a) \/ Exit(a)
  BY <1>5, MarkKeeps, ExitKeeps
<1>6. CASE UNCHANGED vars
  BY <1>6 DEF vars, runner, children, workers, IInv, TypeOK, Locks, Hands, HandOf, CloserHands,
    Sessions, Fresh, Closing, NoOrphan, InHand, CredentialsGone, PromiseKept, Alive
<1>. QED BY <1>1, <1>2, <1>3, <1>4, <1>5, <1>6 DEF Next

THEOREM Invariant == Spec => []IInv
BY InitHolds, StepKeeps, PTL DEF Spec

\* What is alive and not killed is registered or in the hand of one holder, and a
\* holder with another attempt in hand has no session registered.
LEMMA OneHolder == IInv => OneTunnel
<1> SUFFICES ASSUME IInv, NEW a \in Attempt, NEW b \in Attempt,
                    Alive(a), Alive(b), sig[a] # "KILL", sig[b] # "KILL", profileOf[a] = profileOf[b]
             PROVE  a = b
  BY DEF OneTunnel
<1> DEFINE p == profileOf[a]
<1>1. p \in Profile /\ profileOf[b] = p
  BY Facts
<1>2. (session[p] = a \/ InHand(a, p)) /\ (session[p] = b \/ InHand(b, p))
  BY <1>1 DEF IInv, NoOrphan
<1>3. ASSUME NEW c \in Attempt, NEW d \in Attempt, Alive(c), session[p] = d, InHand(c, p)
      PROVE  c = d
  <2>1. d # Free /\ c # Free /\ proc[c] # "none"
    BY <1>3, NamesDiffer DEF Alive
  <2>2. CASE lock[p] \in Worker /\ call[lock[p]].hand = c
    <3> DEFINE w == lock[p]
    <3>1. w \in Worker /\ call[w].at \in Held /\ call[w].profile = p /\ call[w].hand = c
      BY <1>1, <2>2, Facts
    <3>2. HandOf(w)
      BY <3>1 DEF IInv, Hands
    <3>. HIDE DEF w, p
    <3>. QED BY <1>3, <2>1, <3>1, <3>2 DEF HandOf, Held, Handling
  <2>3. CASE lock[p] = Closer /\ closer.hand = c
    BY <1>1, <1>3, <2>1, <2>3 DEF IInv, Locks, CloserHands
  <2>. QED BY <1>3, <2>2, <2>3 DEF InHand
<1>4. CASE InHand(a, p) /\ InHand(b, p)
  BY <1>4, NamesDiffer DEF InHand
<1>. QED BY <1>2, <1>3, <1>4

\* Type correctness.
THEOREM TypeCorrect == Spec => []TypeOK
BY Invariant, PTL DEF IInv

\* No child is lost: whatever raises, is cancelled or dies between the dictionary and
\* the child's end, somebody is left who ends it (_drop_session, connect).
THEOREM NoOrphanTheorem == Spec => []NoOrphan
BY Invariant, PTL DEF IInv

\* There is one tunnel for a profile, however many turns ask for it (connect).
THEOREM OneTunnelTheorem == Spec => []OneTunnel
BY Invariant, OneHolder, PTL

\* Credential files do not outlive the operation that wrote them (_cleanup_paths).
THEOREM CredentialsGoneTheorem == Spec => []CredentialsGone
BY Invariant, PTL DEF IInv

\* The tunnel a tool was promised stays registered and ready (ensure).
THEOREM PromiseKeptTheorem == Spec => []PromiseKept
BY Invariant, PTL DEF IInv

\* What close() leaves behind belongs to an operation that will see it (close).
THEOREM LeftByCloseTheorem == Spec => []LeftByClose
<1>1. IInv => LeftByClose
  BY DEF IInv, Closing, LeftByClose
<1>. QED BY <1>1, Invariant, PTL

\* All three: nothing the runner started is left without somebody who ends it.
THEOREM NothingLeftTheorem == Spec => []NothingLeft
<1>1. NoOrphan /\ CredentialsGone /\ LeftByClose => NothingLeft
  BY DEF NothingLeft
<1>. QED BY <1>1, NoOrphanTheorem, CredentialsGoneTheorem, LeftByCloseTheorem, PTL

-----------------------------------------------------------------------------
(* A call goes forward: each place lies behind the ones it is reached from,   *)
(* the end of the session connect replaces before the start of its own.  With *)
(* the fairness of the threads, and nobody waiting while holding a lock, this *)
(* is why a call ends, however many threads ask for the same profile.         *)

Rank(c) ==
  CASE c.at \in {"ask", "leave"} -> 12
    [] c.at \in {"status", "disconnect"} -> 11
    [] c.at = "want" -> 10
    [] c.at = "connect" -> 9
    [] c.at = "term" -> IF c.then = "open" THEN 8 ELSE 3
    [] c.at = "kill" -> IF c.then = "open" THEN 7 ELSE 2
    [] c.at = "open" -> 6
    [] c.at = "start" -> 5
    [] c.at = "up" -> 4
    [] c.at = "using" -> 1
    [] OTHER -> 0

\* What a step of a worker may make of the calls.
Onward(w) ==
  /\ Rank(call'[w]) < Rank(call[w])
  /\ \A v \in Worker \ {w} : call'[v] = call[v]

\* A call is set to one that is further on.
LEMMA OnwardTo ==
  ASSUME IInv, NEW w \in Worker, NEW c, call' = [call EXCEPT ![w] = c], Rank(c) < Rank(call[w])
  PROVE  Onward(w)
<1>1. call'[w] = c /\ \A v \in Worker \ {w} : call'[v] = call[v]
  BY DEF IInv, TypeOK
<1>. QED BY <1>1 DEF Onward

LEMMA OnwardReturn ==
  ASSUME IInv, NEW w \in Worker, call[w].at # "idle",
         call' = [call EXCEPT ![w] = Idle]
  PROVE  Onward(w)
<1>1. Rank(Idle) = 0
  BY DEF Rank, Idle
<1>2. call[w] \in Call
  BY Facts
<1>3. Rank(call[w]) > 0
  BY <1>2 DEF Rank, Call, Held, Waits
<1>. QED BY <1>1, <1>3, OnwardTo

LEMMA OnwardReturnUp ==
  ASSUME IInv, NEW w \in Worker, call[w].at \in {"status", "connect", "up"},
         NEW a \in Attempt, ReturnUp(w, a)
  PROVE  Onward(w)
<1>1. call'[w].at = "using" /\ \A v \in Worker \ {w} : call'[v] = call[v]
  BY ReturnUpFacts DEF Held
<1>. QED BY <1>1 DEF Onward, Rank

LEMMA OnwardAfter ==
  ASSUME IInv, NEW w \in Worker, NEW then \in {"open", "return"}, After(w, then),
         call[w].at \in Held, then = "open" => Rank(call[w]) > 6
  PROVE  Onward(w)
<1>1. CASE then = "open"
  <2>1. call' = [call EXCEPT ![w] = [call[w] EXCEPT !.at = "open", !.hand = Free, !.then = "return"]]
    BY <1>1 DEF After, IInv, TypeOK, Call
  <2>2. call[w] \in Call
    BY Facts
  <2>3. Rank([call[w] EXCEPT !.at = "open", !.hand = Free, !.then = "return"]) = 6
    BY <2>2 DEF Rank, Call
  <2>. QED BY <1>1, <2>1, <2>3, OnwardTo
<1>2. CASE then = "return"
  <2>1. call' = [call EXCEPT ![w] = Idle] /\ call[w].at # "idle"
    BY <1>2 DEF After, Return, Held
  <2>. QED BY <2>1, OnwardReturn
<1>. QED BY <1>1, <1>2

LEMMA OnwardDrop ==
  ASSUME IInv, NEW w \in Worker, NEW then \in {"open", "return"}, Drop(w, then),
         call[w].at \in Held,
         Rank(call[w]) > IF then = "open" THEN 8 ELSE 3
  PROVE  Onward(w)
<1> DEFINE a == session[call[w].profile]
<1>1. CASE DropAlive(w, then)
  <2>1. call' = [call EXCEPT ![w] = [call[w] EXCEPT !.at = "term", !.hand = a, !.then = then]]
    BY <1>1 DEF DropAlive, IInv, TypeOK, Call
  <2>2. call[w] \in Call
    BY Facts
  <2>3. Rank([call[w] EXCEPT !.at = "term", !.hand = a, !.then = then])
          = IF then = "open" THEN 8 ELSE 3
    BY <2>2 DEF Rank, Call
  <2>. QED BY <2>1, <2>3, OnwardTo
<1>2. CASE DropDead(w, then)
  <2>1. then = "open" => Rank(call[w]) > 6
    <3>1. Rank(call[w]) \in Nat
      BY DEF Rank
    <3>. QED BY <3>1
  <2>. QED BY <1>2, <2>1, OnwardAfter DEF DropDead
<1>. QED BY <1>1, <1>2 DEF Drop

LEMMA StepOnward ==
  ASSUME IInv, NEW w \in Worker, Step(w)
  PROVE  Onward(w)
<1>t. call[w] \in Call
  BY Facts
<1>1. CASE Acquire(w)
  <2>1. call' = [call EXCEPT ![w] = [call[w] EXCEPT !.at = Waits[call[w].at]]]
    BY <1>1 DEF Acquire, IInv, TypeOK, Call
  <2>2. [call[w] EXCEPT !.at = Waits[call[w].at]].at = Waits[call[w].at]
    BY <1>t DEF Call
  <2>3. Rank([call[w] EXCEPT !.at = Waits[call[w].at]]) < Rank(call[w])
    BY <1>1, <2>2 DEF Acquire, Waits, Rank
  <2>. QED BY <2>1, <2>3, OnwardTo
<1>2. CASE StopWaiting(w) \/ NotOwned(w) \/ Refused(w) \/ StartFails(w) \/ Used(w)
  <2>1. call' = [call EXCEPT ![w] = Idle] /\ call[w].at # "idle"
    BY <1>2 DEF StopWaiting, NotOwned, Refused, StartFails, Used, Return, Waits
  <2>. QED BY <2>1, OnwardReturn
<1>3. CASE StatusUp(w) \/ Reuse(w)
  <2>1. call[w].at \in {"status", "connect"}
    BY <1>3 DEF StatusUp, Reuse
  <2>2. session[call[w].profile] \in Attempt \/ Return(w)
    BY <1>3, <2>1, Facts DEF StatusUp, Reuse, IInv, TypeOK, Alive
  <2>3. CASE Return(w)
    BY <2>1, <2>3, OnwardReturn DEF Return
  <2>4. CASE session[call[w].profile] \in Attempt /\ ~Return(w)
    BY <1>3, <2>1, <2>4, OnwardReturnUp DEF StatusUp, Reuse
  <2>. QED BY <2>2, <2>3, <2>4
<1>4. CASE StatusDown(w)
  <2>1. call[w].at = "status"
    BY <1>4 DEF StatusDown
  <2>2. CASE Return(w)
    BY <2>1, <2>2, OnwardReturn DEF Return
  <2>3. CASE call' = [call EXCEPT ![w].at = "want"]
    <3>1. call' = [call EXCEPT ![w] = [call[w] EXCEPT !.at = "want"]]
      BY <2>3 DEF IInv, TypeOK, Call
    <3>2. Rank([call[w] EXCEPT !.at = "want"]) = 10
      BY <1>t DEF Rank, Call
    <3>3. Rank(call[w]) = 11
      BY <2>1 DEF Rank
    <3>4. Rank([call[w] EXCEPT !.at = "want"]) < Rank(call[w])
      BY <3>2, <3>3
    <3>. QED BY <3>1, <3>4, OnwardTo
  <2>. QED BY <1>4, <2>2, <2>3 DEF StatusDown
<1>5. CASE Disconnect(w)
  <2>1. call[w].at = "disconnect" /\ Drop(w, "return")
    BY <1>5 DEF Disconnect
  <2>. QED BY <2>1, OnwardDrop DEF Rank, Held
<1>6. CASE Replace(w)
  <2>1. call[w].at = "connect" /\ Drop(w, "open")
    BY <1>6 DEF Replace
  <2>. QED BY <2>1, OnwardDrop DEF Rank, Held
<1>7. CASE GaveUp(w)
  <2>1. call[w].at = "up" /\ Drop(w, "return")
    BY <1>7 DEF GaveUp
  <2>. QED BY <2>1, OnwardDrop DEF Rank, Held
<1>8. CASE Connect(w)
  <2>1. call[w].at = "connect" /\ call' = [call EXCEPT ![w] = [call[w] EXCEPT !.at = "open"]]
    BY <1>8 DEF Connect, IInv, TypeOK, Call
  <2>2. Rank([call[w] EXCEPT !.at = "open"]) = 6
    BY <1>t DEF Rank, Call
  <2>3. Rank(call[w]) = 9
    BY <2>1 DEF Rank
  <2>4. Rank([call[w] EXCEPT !.at = "open"]) < Rank(call[w])
    BY <2>2, <2>3
  <2>. QED BY <2>1, <2>4, OnwardTo
<1>9. CASE Open(w)
  <2> DEFINE a == CHOOSE x \in Unused : TRUE
  <2>1. /\ call[w].at = "open"
        /\ call' = [call EXCEPT ![w] = [call[w] EXCEPT !.at = "start", !.hand = a]]
    BY <1>9 DEF Open, IInv, TypeOK, Call
  <2>2. Rank([call[w] EXCEPT !.at = "start", !.hand = a]) = 5
    BY <1>t DEF Rank, Call
  <2>3. Rank(call[w]) = 6
    BY <2>1 DEF Rank
  <2>4. Rank([call[w] EXCEPT !.at = "start", !.hand = a]) < Rank(call[w])
    BY <2>2, <2>3
  <2>. QED BY <2>1, <2>4, OnwardTo
<1>10. CASE Start(w)
  <2>1. call[w].at = "start" /\ call' = [call EXCEPT ![w] = [call[w] EXCEPT !.at = "up"]]
    BY <1>10 DEF Start, IInv, TypeOK, Call
  <2>2. Rank([call[w] EXCEPT !.at = "up"]) = 4
    BY <1>t DEF Rank, Call
  <2>3. Rank(call[w]) = 5
    BY <2>1 DEF Rank
  <2>4. Rank([call[w] EXCEPT !.at = "up"]) < Rank(call[w])
    BY <2>2, <2>3
  <2>. QED BY <2>1, <2>4, OnwardTo
<1>11. CASE CameUp(w)
  <2>1. call[w].at = "up" /\ ReturnUp(w, call[w].hand)
    BY <1>11 DEF CameUp
  <2>2. call[w].hand \in Attempt
    BY <2>1, HandFacts DEF Handling
  <2>. QED BY <2>1, <2>2, OnwardReturnUp
<1>12. CASE TermTimeout(w)
  <2>1. call[w].at = "term" /\ call' = [call EXCEPT ![w] = [call[w] EXCEPT !.at = "kill"]]
    BY <1>12 DEF TermTimeout, IInv, TypeOK, Call
  <2>2. Rank([call[w] EXCEPT !.at = "kill"]) = IF call[w].then = "open" THEN 7 ELSE 2
    BY <1>t DEF Rank, Call
  <2>3. Rank(call[w]) = IF call[w].then = "open" THEN 8 ELSE 3
    BY <2>1 DEF Rank
  <2>4. Rank([call[w] EXCEPT !.at = "kill"]) < Rank(call[w])
    BY <2>2, <2>3
  <2>. QED BY <2>1, <2>4, OnwardTo
<1>13. CASE Dropped(w)
  <2>1. call[w].at \in {"term", "kill"} /\ After(w, call[w].then)
    BY <1>13 DEF Dropped
  <2>2. call[w].then \in {"open", "return"}
    BY <1>t DEF Call
  <2>3. call[w].then = "open" => Rank(call[w]) > 6
    BY <2>1 DEF Rank
  <2>. QED BY <2>1, <2>2, <2>3, OnwardAfter DEF Held
<1>. QED BY <1>1, <1>2, <1>3, <1>4, <1>5, <1>6, <1>7, <1>8, <1>9, <1>10, <1>11, <1>12, <1>13
         DEF Step

\* Reconnects, undone attempts and lost locks included, no step of a call leads
\* back, and none touches another thread's call (ensure, connect, _drop_session).
CallsGoOnward == [][\A w \in Worker : Step(w) => Onward(w)]_vars

THEOREM CallsGoOnwardTheorem == Spec => CallsGoOnward
<1>1. IInv /\ [Next]_vars => [\A w \in Worker : Step(w) => Onward(w)]_vars
  BY StepOnward
<1>. QED BY <1>1, Invariant, PTL DEF Spec, CallsGoOnward

\* No deadlock over the locks: who waits for the lock of a profile holds none,
\* and a lock that is held has a holder that is past its waits, so that there is
\* no cycle of threads that wait for each other, close() included.
NobodyWaitsHolding ==
  /\ \A w \in Worker : call[w].at \in DOMAIN Waits => \A p \in Profile : lock[p] # w
  /\ closer.at \in {"off", "next", "done"} => \A p \in Profile : lock[p] # Closer
  /\ \A p \in Profile : lock[p] \in Worker => call[lock[p]].at \in Held

THEOREM NobodyWaitsHoldingTheorem == Spec => []NobodyWaitsHolding
<1>1. ASSUME IInv PROVE NobodyWaitsHolding
  <2>1. \A s \in DOMAIN Waits : s \notin Held
    BY DEF Waits, Held
  <2>2. closer.at \in {"off", "next", "done"} => \A p \in Profile : lock[p] # Closer
    BY <1>1 DEF IInv, Locks
  <2>. QED BY <1>1, <2>1, <2>2, Facts DEF NobodyWaitsHolding
<1>. QED BY <1>1, Invariant, PTL
=============================================================================
