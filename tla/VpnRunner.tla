------------------------------ MODULE VpnRunner ------------------------------
(***************************************************************************)
(* The owner of the VPN children (tools/remote/vpn.py): turns in several   *)
(* threads ask for a tunnel (ensure), its status or its end; every profile *)
(* has a lock that is polled; App.close() ends all of it from one more     *)
(* thread and waits for a lock a limited time only.  An attempt is one     *)
(* call of the commander: its child process and its credential files.      *)
(* VpnManager._connected is written and never read: it is left out.        *)
(***************************************************************************)
EXTENDS Naturals

CONSTANTS
  Worker,      \* threads with a turn that calls the vpn tool or an ssh tool
  Closer,      \* the thread in close()
  Profile,     \* the profiles of the configuration
  Attempt,     \* names for the children started: bounds their number
  Free,        \* nobody: a lock not held, a profile without session
  MaxCalls     \* bound: calls the workers make in all

ASSUME NamesDiffer == Closer \notin Worker /\ Free \notin Worker \cup {Closer} \cup Attempt \cup Profile
ASSUME CallsNat == MaxCalls \in Nat

VARIABLES
  closed,      \* the event _closed
  lock,        \* _locks: who holds the lock of a profile
  session,     \* _sessions: the attempt registered for a profile
  ready,       \* attempts whose session was set ready
  proc,        \* the children, as the operating system has them
  sig,         \* the strongest signal sent to each
  profileOf,   \* the profile an attempt was made for, Free when not made yet
  files,       \* attempts whose credential files exist
  call,        \* the call each worker is in
  cancelled,   \* workers whose cancel token is set
  calls,       \* calls made so far
  closer       \* where close() is

runner == <<closed, lock, session, ready, files, profileOf>>
children == <<proc, sig>>
workers == <<call, cancelled, calls>>
vars == <<runner, children, workers, closer>>

Waits == [ask |-> "status", want |-> "connect", leave |-> "disconnect"]
Held == {"status", "connect", "open", "start", "up", "disconnect", "term", "kill"}
Idle == [at |-> "idle", op |-> "none", profile |-> Free, hand |-> Free, then |-> "return"]

Call == [at : {"idle", "using"} \cup DOMAIN Waits \cup Held,
         op : {"none", "ensure", "status", "disconnect"},
         profile : Profile \cup {Free}, hand : Attempt \cup {Free},
         then : {"open", "return"}]

TypeOK ==
  /\ closed \in BOOLEAN
  /\ lock \in [Profile -> Worker \cup {Closer, Free}]
  /\ session \in [Profile -> Attempt \cup {Free}]
  /\ ready \subseteq Attempt
  /\ proc \in [Attempt -> {"none", "running", "marked", "dead"}]
  /\ sig \in [Attempt -> {"none", "TERM", "KILL"}]
  /\ profileOf \in [Attempt -> Profile \cup {Free}]
  /\ files \subseteq Attempt
  /\ call \in [Worker -> Call]
  /\ \A w \in Worker : call[w].at \in {"start", "up", "term", "kill", "using"} => call[w].hand # Free
  /\ cancelled \subseteq Worker
  /\ calls \in 0 .. MaxCalls
  /\ closer \in [at : {"off", "next", "term", "kill", "done"}, left : SUBSET Profile,
                 profile : Profile \cup {Free}, hand : Attempt \cup {Free}]

Init ==
  /\ closed = FALSE
  /\ lock = [p \in Profile |-> Free]
  /\ session = [p \in Profile |-> Free]
  /\ ready = {}
  /\ proc = [a \in Attempt |-> "none"]
  /\ sig = [a \in Attempt |-> "none"]
  /\ profileOf = [a \in Attempt |-> Free]
  /\ files = {}
  /\ call = [w \in Worker |-> Idle]
  /\ cancelled = {}
  /\ calls = 0
  /\ closer = [at |-> "off", left |-> Profile, profile |-> Free, hand |-> Free]

Alive(a) == a # Free /\ proc[a] \in {"running", "marked"}

\* A signal to the group of the child; a swallowed error of kill() is not modelled.
Signal(a, s) == sig' = [sig EXCEPT ![a] = s]

\* The temporary files of an attempt, removed without raising.
Clean(a) == files' = files \ {a}

-----------------------------------------------------------------------------
\* A worker in its call.

\* VpnTool.run and _ensure_vpn of the ssh tools: a call on a profile of the list.
Begin(w, op, p) ==
  /\ call[w].at = "idle" /\ calls < MaxCalls
  /\ call' = [call EXCEPT ![w] = [Idle EXCEPT !.op = op, !.profile = p,
                                    !.at = IF op = "disconnect" THEN "leave" ELSE "ask"]]
  /\ calls' = calls + 1
  /\ UNCHANGED <<runner, children, cancelled, closer>>

\* The turn is cancelled: the token is set, the worker sees it where it looks
\* (after the call nothing here looks at it any more).
Cancel(w) ==
  /\ call[w].op = "ensure" /\ call[w].at # "using" /\ w \notin cancelled
  /\ cancelled' = cancelled \cup {w}
  /\ UNCHANGED <<runner, children, call, calls, closer>>

Acquire(w) ==
  LET p == call[w].profile IN
  /\ call[w].at \in DOMAIN Waits
  /\ lock[p] = Free
  /\ lock' = [lock EXCEPT ![p] = w]
  /\ call' = [call EXCEPT ![w].at = Waits[@]]
  /\ UNCHANGED <<closed, session, ready, files, profileOf, children, cancelled, calls, closer>>

\* Between two polls: only connect was given the token.
StopWaiting(w) ==
  /\ call[w].at \in DOMAIN Waits
  /\ lock[call[w].profile] # Free
  /\ closed \/ (call[w].at = "want" /\ w \in cancelled)
  /\ call' = [call EXCEPT ![w] = Idle]
  /\ cancelled' = cancelled \ {w}
  /\ UNCHANGED <<runner, children, calls, closer>>

\* The end of an operation: the lock is released in every case.
Release(w) == lock' = [lock EXCEPT ![call[w].profile] = Free]

ForgetsLock(w) ==                                             \* faulty variant
  /\ UNCHANGED lock
  /\ call' = [call EXCEPT ![w] = Idle]
  /\ cancelled' = cancelled \ {w}

Return(w) ==
  /\ Release(w)
  /\ call' = [call EXCEPT ![w] = Idle]
  /\ cancelled' = cancelled \ {w}

\* The call found, or made, the tunnel: the tool goes on to use it.
ReturnUp(w, a) ==
  /\ Release(w)
  /\ call' = [call EXCEPT ![w].at = "using", ![w].hand = a]
  /\ cancelled' = cancelled \ {w}

\* After _drop_session: connect goes on, everything else returns.
After(w, then) ==
  IF then = "open"
  THEN /\ call' = [call EXCEPT ![w].at = "open", ![w].hand = Free, ![w].then = "return"]
       /\ UNCHANGED <<lock, cancelled>>
  ELSE Return(w)

\* The session of a profile is taken out of the dictionary.
Pop(p) ==
  /\ session' = [session EXCEPT ![p] = Free]
  /\ ready' = ready \ {session[p]}

\* _drop_session up to its first wait, of a child that runs and of one that does not.
DropAlive(w, then) ==
  LET a == session[call[w].profile] IN
  /\ Alive(a)
  /\ Pop(call[w].profile)
  /\ Signal(a, "TERM")
  /\ call' = [call EXCEPT ![w].at = "term", ![w].hand = a, ![w].then = then]
  /\ UNCHANGED <<closed, lock, files, profileOf, proc, cancelled, calls, closer>>

DropDead(w, then) ==
  LET a == session[call[w].profile] IN
  /\ ~Alive(a)
  /\ Pop(call[w].profile)
  /\ Clean(a)
  /\ After(w, then)
  /\ UNCHANGED <<closed, profileOf, children, calls, closer>>

Drop(w, then) == DropAlive(w, then) \/ DropDead(w, then)

SingleWait(w) ==                                              \* faulty variant
  /\ call[w].at = "term"
  /\ Clean(call[w].hand)
  /\ After(w, call[w].then)
  /\ UNCHANGED <<closed, session, ready, profileOf, children, calls, closer>>

\* A child that does not end on SIGTERM gets SIGKILL.
TermTimeout(w) ==
  /\ call[w].at = "term"
  /\ Signal(call[w].hand, "KILL")
  /\ call' = [call EXCEPT ![w].at = "kill"]
  /\ UNCHANGED <<runner, proc, cancelled, calls, closer>>

\* The wait is over, or the second one gave up; the files go in the finally.
Dropped(w) ==
  /\ \/ call[w].at = "term" /\ ~Alive(call[w].hand)
     \/ call[w].at = "kill"
  /\ Clean(call[w].hand)
  /\ After(w, call[w].then)
  /\ UNCHANGED <<closed, session, ready, profileOf, children, calls, closer>>

\* status of a tunnel that is up; ensure has what it wants.
StatusUp(w) ==
  LET a == session[call[w].profile] IN
  /\ call[w].at = "status"
  /\ Alive(a) /\ a \in ready
  /\ IF call[w].op = "ensure" THEN ReturnUp(w, a) ELSE Return(w)
  /\ UNCHANGED <<closed, session, ready, files, profileOf, children, calls, closer>>

\* No tunnel: a dead session is dropped; ensure goes on with the credentials, which
\* may be missing, and with connect.
StatusDown(w) ==
  LET a == session[call[w].profile] IN
  /\ call[w].at = "status"
  /\ ~(Alive(a) /\ a \in ready)
  /\ IF Alive(a) THEN UNCHANGED <<session, ready, files>> ELSE Pop(call[w].profile) /\ Clean(a)
  /\ \/ Return(w)
     \/ /\ call[w].op = "ensure"
        /\ Release(w)
        /\ call' = [call EXCEPT ![w].at = "want"]
        /\ UNCHANGED cancelled
  /\ UNCHANGED <<closed, profileOf, children, calls, closer>>

\* disconnect: only what this runner started.
NotOwned(w) ==
  /\ call[w].at = "disconnect"
  /\ session[call[w].profile] = Free
  /\ Return(w)
  /\ UNCHANGED <<closed, session, ready, files, profileOf, children, calls, closer>>

Disconnect(w) ==
  /\ call[w].at = "disconnect"
  /\ session[call[w].profile] # Free
  /\ Drop(w, "return")

\* connect, up to the second look at the session.
Reuse(w) ==
  LET a == session[call[w].profile] IN
  /\ call[w].at = "connect"
  /\ Alive(a) /\ a \in ready
  /\ ReturnUp(w, a)
  /\ UNCHANGED <<closed, session, ready, files, profileOf, children, calls, closer>>

Replace(w) ==
  LET a == session[call[w].profile] IN
  /\ call[w].at = "connect"
  /\ a # Free /\ ~(Alive(a) /\ a \in ready)
  /\ Drop(w, "open")

Reconnects(w) ==                                              \* faulty variant
  /\ call[w].at = "connect"
  /\ call' = [call EXCEPT ![w].at = "open"]
  /\ UNCHANGED <<runner, children, cancelled, calls, closer>>

Connect(w) ==
  /\ call[w].at = "connect"
  /\ session[call[w].profile] = Free
  /\ call' = [call EXCEPT ![w].at = "open"]
  /\ UNCHANGED <<runner, children, cancelled, calls, closer>>

\* Closed, no binary, a bad profile or credential: what was written is removed again.
Refused(w) ==
  /\ call[w].at = "open"
  /\ Return(w)
  /\ UNCHANGED <<closed, session, ready, files, profileOf, children, calls, closer>>

Unused == {a \in Attempt : profileOf[a] = Free}

\* The one look at _closed, then the credential files of a new attempt.
Open(w) ==
  LET a == CHOOSE a \in Unused : TRUE IN             \* one name is as good as another
  /\ call[w].at = "open"
  /\ ~closed /\ Unused # {}
  /\ profileOf' = [profileOf EXCEPT ![a] = call[w].profile]
  /\ files' = files \cup {a}
  /\ call' = [call EXCEPT ![w].at = "start", ![w].hand = a]
  /\ UNCHANGED <<closed, lock, session, ready, children, cancelled, calls, closer>>

\* The commander returns a child, which is registered.
Start(w) ==
  LET a == call[w].hand IN
  /\ call[w].at = "start"
  /\ proc' = [proc EXCEPT ![a] = "running"]
  /\ session' = [session EXCEPT ![call[w].profile] = a]
  /\ call' = [call EXCEPT ![w].at = "up"]
  /\ UNCHANGED <<closed, lock, ready, files, profileOf, sig, cancelled, calls, closer>>

\* It raises before there is a child, or after it killed it.
StartFails(w) ==
  LET a == call[w].hand IN
  /\ call[w].at = "start"
  /\ \/ UNCHANGED children
     \/ /\ proc' = [proc EXCEPT ![a] = "running"]
        /\ Signal(a, "KILL")
  /\ Clean(a)
  /\ Return(w)
  /\ UNCHANGED <<closed, session, ready, profileOf, calls, closer>>

\* The marker was there long enough and the child lives: ready, the files go.
CameUp(w) ==
  LET a == call[w].hand IN
  /\ call[w].at = "up" /\ w \notin cancelled /\ ~closed
  /\ proc[a] = "marked"
  /\ ready' = ready \cup {a}
  /\ Clean(a)
  /\ ReturnUp(w, a)
  /\ UNCHANGED <<closed, session, profileOf, children, calls, closer>>

\* Cancelled, closed, a dead child, the deadline: the attempt is undone.
GaveUp(w) ==
  /\ call[w].at = "up"
  /\ Drop(w, "return")

\* The command over the tunnel ends.
Used(w) ==
  /\ call[w].at = "using"
  /\ call' = [call EXCEPT ![w] = Idle]
  /\ UNCHANGED <<runner, children, cancelled, calls, closer>>

-----------------------------------------------------------------------------
\* close().

Close ==
  /\ closer.at = "off"
  /\ closed' = TRUE
  /\ closer' = [closer EXCEPT !.at = "next"]
  /\ UNCHANGED <<lock, session, ready, files, profileOf, children, workers>>

\* A profile is done with: its lock is not held by the closer any more.
NextProfile(p) == [closer EXCEPT !.at = IF closer.left = {p} THEN "done" ELSE "next",
                                 !.left = @ \ {p}, !.profile = Free, !.hand = Free]

CloseForgets(p) ==                                            \* faulty variant
  /\ closer.at = "next" /\ p \in closer.left
  /\ lock[p] = Free
  /\ Pop(p)
  /\ Clean(session[p])
  /\ closer' = NextProfile(p)
  /\ UNCHANGED <<closed, lock, profileOf, children, workers>>

\* The lock is free: a child that runs is told to end and waited for.
CloseNext(p) ==
  LET a == session[p] IN
  /\ closer.at = "next" /\ p \in closer.left
  /\ lock[p] = Free
  /\ Alive(a)
  /\ Pop(p)
  /\ Signal(a, "TERM")
  /\ lock' = [lock EXCEPT ![p] = Closer]
  /\ closer' = [closer EXCEPT !.at = "term", !.profile = p, !.hand = a]
  /\ UNCHANGED <<closed, files, profileOf, proc, workers>>

\* Nothing runs there.
CloseSkips(p) ==
  /\ closer.at = "next" /\ p \in closer.left
  /\ lock[p] = Free
  /\ ~Alive(session[p])
  /\ Pop(p)
  /\ Clean(session[p])
  /\ closer' = NextProfile(p)
  /\ UNCHANGED <<closed, lock, profileOf, children, workers>>

\* The timed acquire fails: seven seconds pass only while the holder is in the
\* commander or waits for a child to end; every other step looks or returns at once.
CloseGivesUp(p) ==
  /\ closer.at = "next" /\ p \in closer.left
  /\ lock[p] \in Worker
  /\ call[lock[p]].at \in {"start", "term", "kill"}
  /\ closer' = NextProfile(p)
  /\ UNCHANGED <<runner, children, workers>>

CloseKills ==
  /\ closer.at = "term"
  /\ Signal(closer.hand, "KILL")
  /\ closer' = [closer EXCEPT !.at = "kill"]
  /\ UNCHANGED <<runner, proc, workers>>

CloseReleases ==
  /\ \/ closer.at = "term" /\ ~Alive(closer.hand)
     \/ closer.at = "kill"
  /\ Clean(closer.hand)
  /\ lock' = [lock EXCEPT ![closer.profile] = Free]
  /\ closer' = NextProfile(closer.profile)
  /\ UNCHANGED <<closed, session, ready, profileOf, children, workers>>

-----------------------------------------------------------------------------
\* The children.

\* The child prints the marker of its kind; a deadline may pass before it does.
Mark(a) ==
  /\ proc[a] = "running"
  /\ proc' = [proc EXCEPT ![a] = "marked"]
  /\ UNCHANGED <<runner, sig, workers, closer>>

\* A child ends by itself or by a signal; only SIGKILL makes sure.
Exit(a) ==
  /\ Alive(a)
  /\ proc' = [proc EXCEPT ![a] = "dead"]
  /\ UNCHANGED <<runner, sig, workers, closer>>

-----------------------------------------------------------------------------
Step(w) ==
  \/ Acquire(w) \/ StopWaiting(w)
  \/ StatusUp(w) \/ StatusDown(w)
  \/ NotOwned(w) \/ Disconnect(w)
  \/ Reuse(w) \/ Replace(w) \/ Connect(w)
  \/ Refused(w) \/ Open(w) \/ Start(w) \/ StartFails(w)
  \/ CameUp(w) \/ GaveUp(w) \/ TermTimeout(w) \/ Dropped(w) \/ Used(w)

CloseStep ==
  \/ \E p \in Profile : CloseNext(p) \/ CloseSkips(p) \/ CloseGivesUp(p)
  \/ CloseKills \/ CloseReleases

Next ==
  \/ \E w \in Worker : Step(w) \/ Cancel(w)
  \/ \E w \in Worker, p \in Profile, op \in {"ensure", "status", "disconnect"} : Begin(w, op, p)
  \/ Close \/ CloseStep
  \/ \E a \in Attempt : Mark(a) \/ Exit(a)

Spec == Init /\ [][Next]_vars

\* The threads run on, and the operating system ends a child that got SIGKILL.
\* Nothing makes close() come, a child answer or end on SIGTERM.  The calls are
\* bounded, so that this much is enough: no thread can keep the others from a lock.
Fairness ==
  WF_vars(\/ \E w \in Worker : Step(w)
          \/ CloseStep
          \/ \E a \in Attempt : sig[a] = "KILL" /\ Exit(a))

FairSpec == Spec /\ Fairness

-----------------------------------------------------------------------------
\* Properties.

\* The worker, or the closer, that holds the lock of p has attempt a in its hands.
InHand(a, p) ==
  \/ lock[p] \in Worker /\ call[lock[p]].hand = a
  \/ lock[p] = Closer /\ closer.hand = a

\* No orphan: a child that may live on (no SIGKILL sent) is registered, or the
\* holder of its profile's lock still deals with it: the pop of _drop_session,
\* the registration after the commander and every error path of connect.
NoOrphan ==
  \A a \in Attempt : Alive(a) /\ sig[a] # "KILL" =>
    session[profileOf[a]] = a \/ InHand(a, profileOf[a])

\* One tunnel for a profile: two turns that ask at once do not start two, and a
\* reconnect starts its child after the old one is dead or got SIGKILL.
OneTunnel ==
  \A a, b \in Attempt :
    Alive(a) /\ Alive(b) /\ sig[a] # "KILL" /\ sig[b] # "KILL" /\ profileOf[a] = profileOf[b]
      => a = b

\* Credential files exist only while an operation deals with their attempt: ready
\* or failed, cancelled, closed, once the lock is released they are gone.
CredentialsGone ==
  \A a \in files : InHand(a, profileOf[a])

\* What a call was promised stays: the tunnel a tool uses is the registered, ready
\* one, unless its child died or somebody ended it with a signal.
PromiseKept ==
  \A w \in Worker : call[w].at = "using" =>
    LET a == call[w].hand IN
    Alive(a) /\ sig[a] = "none" => session[call[w].profile] = a /\ a \in ready

\* When close() is through, a session that is left belongs to an operation that
\* is still running (and will see _closed): giving up on a lock leaves no tunnel.
LeftByClose ==
  closer.at = "done" => \A p \in Profile : session[p] # Free => lock[p] \in Worker

\* What the runner started does not get out of hand: child, credential files and
\* session each have somebody who ends them.
NothingLeft == NoOrphan /\ CredentialsGone /\ LeftByClose

\* After close() no child stays: not the ready ones, not the one being started.
AllDown == closed ~> [](\A a \in Attempt : ~Alive(a))

\* Every call ends: no lock stays held, no wait is without end.
CallEnds == \A w \in Worker : call[w].at # "idle" ~> call[w].at = "idle"

\* Both, with close() and the calls waiting for each other's locks.
EndsWell == AllDown /\ CallEnds
=============================================================================
