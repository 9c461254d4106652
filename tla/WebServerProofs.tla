-------------------------- MODULE WebServerProofs --------------------------
(***************************************************************************)
(* Proofs about WebServer, for any number of connections, threads, slots   *)
(* and edits: the types, and every safety invariant by one inductive       *)
(* invariant: which stage belongs to whom, who holds the lock, which Apps  *)
(* are open and finished, and who will still apply the file; and what the  *)
(* fairness conditions rest on: slots, lock and stages come to an end.     *)
(***************************************************************************)
EXTENDS WebServer, FiniteSetTheorems, TLAPS

USE DEF Closed, Half

\* A request is where its kind of request goes, with the App it captured.
RequestInv ==
  \A r \in Request :
    /\ pc[r] \in {"queued", "accepted", "body"} => what[r] \in What
    /\ pc[r] \in {"write", "writing", "mtime"} \/ InSwap(r) => what[r] = "config"
    /\ pc[r] = "lock" => what[r] \in {"chat", "config"}
    /\ InTurn(r) => what[r] = "chat"
    /\ pc[r] \in {"body", "write", "writing", "lock"} => seen[r] # 0

OthersInv ==
  /\ \A b \in Background : pc[b] \in {"idle", "lock"} \/ InTurn(b)
  /\ pc[Watcher] \in {"idle", "noted", "lock"} \/ InSwap(Watcher)

StageInv == TypeOK /\ RequestInv /\ OthersInv

\* One thread goes to a stage, and one App is put into its hands.
LEMMA GoesTo ==
  ASSUME TypeOK, NEW t \in Thread, NEW to \in Stage, Goes(t, to)
  PROVE  /\ pc' \in [Thread -> Stage] /\ pc'[t] = to
         /\ \A u \in Thread : u # t => pc'[u] = pc[u]
BY DEF Goes, TypeOK

LEMMA HoldsApp ==
  ASSUME TypeOK, NEW t \in Thread, NEW n \in Nat, Holds(t, n)
  PROVE  /\ seen' \in [Thread -> Nat] /\ seen'[t] = n
         /\ \A u \in Thread : u # t => seen'[u] = seen[u]
BY DEF Holds, TypeOK

LEMMA Threads ==
  /\ Request \subseteq Thread /\ Background \subseteq Thread /\ Watcher \in Thread
  /\ Request \cap Background = {} /\ Watcher \notin Request /\ Watcher \notin Background
  /\ What \subseteq {"chat", "config", "approve", "use"} /\ None \notin Thread
BY ServerAssumption DEF Thread

\* One more App, or one App taken down.
LEMMA AppsGrow ==
  ASSUME NEW a \in Seq(Int), NEW n \in Int
  PROVE  /\ Append(a, n) \in Seq(Int) /\ Len(Append(a, n)) = Len(a) + 1 /\ Len(a) \in Nat
         /\ DOMAIN Append(a, n) = 1..Len(a) + 1 /\ DOMAIN a = 1..Len(a)
         /\ Append(a, n)[Len(a) + 1] = n
         /\ \A k \in DOMAIN a : Append(a, n)[k] = a[k] /\ k \in DOMAIN Append(a, n)
OBVIOUS

LEMMA AppsClose ==
  ASSUME NEW a \in Seq(Int), NEW k
  PROVE  /\ [a EXCEPT ![k] = 0] \in Seq(Int) /\ Len([a EXCEPT ![k] = 0]) = Len(a)
         /\ DOMAIN [a EXCEPT ![k] = 0] = DOMAIN a
         /\ \A n \in DOMAIN a : [a EXCEPT ![k] = 0][n] = IF n = k THEN 0 ELSE a[n]
<1> DEFINE b == [a EXCEPT ![k] = 0]
<1>1. DOMAIN a = 1..Len(a) /\ Len(a) \in Nat
  OBVIOUS
<1>2. b = [n \in 1..Len(a) |-> IF n = k THEN 0 ELSE a[n]]
  BY <1>1
<1>3. \A n \in 1..Len(a) : (IF n = k THEN 0 ELSE a[n]) \in Int
  BY <1>1
<1>4. b \in [1..Len(a) -> Int]
  BY <1>2, <1>3
<1>5. b \in Seq(Int) /\ Len(b) = Len(a)
  BY <1>1, <1>4
<1> QED BY <1>1, <1>2, <1>5

LEMMA StageInit == Init => StageInv
<1> SUFFICES ASSUME Init PROVE StageInv
  OBVIOUS
<1>1. apps \in Seq(Int) /\ Len(apps) = 1 /\ current \in DOMAIN apps
  BY DEF Init
<1>2. TypeOK
  <2>1. pc \in [Thread -> Stage]
    BY DEF Init, Stage
  <2>2. what \in [Request -> What \cup {"none"}] /\ seen \in [Thread -> Nat]
    BY DEF Init
  <2>3. free \in Int /\ wired \subseteq Nat /\ {known, stat, edits} \subseteq Nat
    BY ServerAssumption DEF Init
  <2>5. missed \in BOOLEAN
    BY DEF Init
  <2>4. text \in [version : Nat \ {0}, makes : Outcomes \cup {"ok"}]
    BY DEF Init
  <2> QED BY <1>1, <2>1, <2>2, <2>3, <2>4, <2>5 DEF Init, TypeOK
<1>3. /\ \A r \in Request : pc[r] = "new"
      /\ \A t \in Thread : t \notin Request => pc[t] = "idle"
  BY Threads DEF Init
<1>4. RequestInv
  BY <1>3 DEF RequestInv, InSwap, InTurn
<1>5. OthersInv
  BY <1>3, Threads DEF OthersInv
<1> QED BY <1>2, <1>4, <1>5 DEF StageInv

-----------------------------------------------------------------------------
LEMMA StageStep ==
  ASSUME StageInv, [Next]_vars
  PROVE  StageInv'
<1> USE Threads DEF requests, instances, config, vars
<1>t. TypeOK
  BY DEF StageInv
<1>k. /\ \A r \in Request : r \in Thread /\ r \notin Background /\ r # Watcher
      /\ \A b \in Background : b \in Thread /\ b # Watcher
  BY Threads
<1>1. ASSUME NEW r \in Request, NEW w \in What, Connect(r, w) PROVE StageInv'
  <2>1. /\ pc' \in [Thread -> Stage] /\ pc'[r] = "queued"
        /\ \A u \in Thread : u # r => pc'[u] = pc[u]
    BY <1>t, <1>k, <1>1, GoesTo DEF Connect, Stage
  <2>2. /\ what' \in [Request -> What \cup {"none"}] /\ what'[r] = w
        /\ \A u \in Request : u # r => what'[u] = what[u]
    BY <1>t, <1>1 DEF Connect, TypeOK
  <2>3. TypeOK'
    BY <1>t, <1>1, <2>1, <2>2 DEF Connect, TypeOK
  <2>4. RequestInv'
    BY <1>k, <1>1, <2>1, <2>2 DEF Connect, StageInv, RequestInv, InSwap, InTurn
  <2>5. OthersInv'
    BY <1>k, <2>1 DEF StageInv, OthersInv, InSwap, InTurn
  <2> QED BY <2>3, <2>4, <2>5 DEF StageInv
<1>2. ASSUME NEW r \in Request, Capture(r) PROVE StageInv'
  <2>0. current \in Nat /\ current # 0
    BY <1>t DEF TypeOK
  <2>1. /\ pc' \in [Thread -> Stage] /\ pc'[r] = "body"
        /\ \A u \in Thread : u # r => pc'[u] = pc[u]
    BY <1>t, <1>k, <1>2, GoesTo DEF Capture, Stage
  <2>2. /\ seen' \in [Thread -> Nat] /\ seen'[r] = current
        /\ \A u \in Thread : u # r => seen'[u] = seen[u]
    BY <1>t, <1>k, <1>2, <2>0, HoldsApp DEF Capture
  <2>3. TypeOK'
    BY <1>t, <1>2, <2>1, <2>2 DEF Capture, TypeOK
  <2>4. RequestInv'
    BY <1>k, <1>2, <2>0, <2>1, <2>2 DEF Capture, StageInv, RequestInv, InSwap, InTurn
  <2>5. OthersInv'
    BY <1>k, <2>1 DEF StageInv, OthersInv, InSwap, InTurn
  <2> QED BY <2>3, <2>4, <2>5 DEF StageInv
<1>3. ASSUME NEW r \in Request, AcceptFails(r) \/ Reply(r) PROVE StageInv'
  <2>1. /\ pc' \in [Thread -> Stage] /\ pc'[r] = "done"
        /\ \A u \in Thread : u # r => pc'[u] = pc[u]
    BY <1>t, <1>k, <1>3, GoesTo DEF AcceptFails, Reply, Stage
  <2>2. /\ what' \in [Request -> What \cup {"none"}]
        /\ \A u \in Request : u # r => what'[u] = what[u]
    BY <1>t, <1>3 DEF AcceptFails, Reply, TypeOK
  <2>3. /\ seen' \in [Thread -> Nat] /\ \A u \in Thread : u # r => seen'[u] = seen[u]
    <3>1. CASE AcceptFails(r)
      BY <1>t, <3>1 DEF AcceptFails, TypeOK
    <3>2. CASE Reply(r)
      BY <1>t, <1>k, <3>2, HoldsApp DEF Reply
    <3> QED BY <1>3, <3>1, <3>2
  <2>4. TypeOK'
    <3>1. free' \in Int
      BY <1>t, <1>3 DEF AcceptFails, Reply, TypeOK
    <3>2. UNCHANGED <<lock, answered, apps, current, wired, text, known, stat, edits, missed>>
      BY <1>3 DEF AcceptFails, Reply
    <3> QED BY <1>t, <2>1, <2>2, <2>3, <3>1, <3>2 DEF TypeOK
  <2>5. RequestInv'
    BY <1>k, <2>1, <2>2, <2>3 DEF StageInv, RequestInv, InSwap, InTurn
  <2>6. OthersInv'
    BY <1>k, <2>1 DEF StageInv, OthersInv, InSwap, InTurn
  <2> QED BY <2>4, <2>5, <2>6 DEF StageInv
<1>4. ASSUME NEW r \in Request,
             Accept(r) \/ BodyFails(r) \/ Dispatch(r) \/ UseApp(r) \/ Resolve(r) \/ WriteFails(r)
             \/ SetMtime(r)
      PROVE  StageInv'
  <2>1. PICK to \in {"accepted", "reply", "lock", "write", "resolve", "use"} :
          /\ Goes(r, to)
          /\ to = "accepted" => pc[r] = "queued"
          /\ to \in {"lock", "write", "resolve", "use"} => pc[r] = "body"
          /\ to = "lock" => what[r] = "chat"
          /\ to = "write" => what[r] = "config"
    <3>1. CASE Accept(r) \/ BodyFails(r) \/ UseApp(r) \/ Resolve(r) \/ WriteFails(r)
               \/ SetMtime(r)
      BY <3>1 DEF Accept, BodyFails, UseApp, Resolve, WriteFails, SetMtime
    <3>2. CASE Dispatch(r)
      <4>1. what[r] \in {"chat", "config", "approve", "use"}
        BY <3>2 DEF Dispatch, StageInv, RequestInv
      <4>2. CASE what[r] = "chat"
        BY <3>2, <4>2 DEF Dispatch
      <4>3. CASE what[r] = "config"
        BY <3>2, <4>3 DEF Dispatch
      <4>4. CASE what[r] = "approve"
        BY <3>2, <4>4 DEF Dispatch
      <4>5. CASE what[r] = "use"
        BY <3>2, <4>5 DEF Dispatch
      <4> QED BY <4>1, <4>2, <4>3, <4>4, <4>5
    <3> QED BY <1>4, <3>1, <3>2
  <2>2. /\ pc' \in [Thread -> Stage] /\ pc'[r] = to
        /\ \A u \in Thread : u # r => pc'[u] = pc[u]
    BY <1>t, <1>k, <2>1, GoesTo DEF Stage
  <2>3. what' = what /\ seen' = seen
    BY <1>4 DEF Accept, BodyFails, Dispatch, UseApp, Resolve, WriteFails, SetMtime
  <2>4. TypeOK'
    <3>1. free' \in Int
      BY <1>t, <1>4 DEF Accept, BodyFails, Dispatch, UseApp, Resolve, WriteFails, SetMtime, TypeOK
    <3>3. answered' \in BOOLEAN
      BY <1>t, <1>4 DEF Accept, BodyFails, Dispatch, UseApp, Resolve, WriteFails, SetMtime, TypeOK
    <3>4. known' \in Nat /\ missed' \in BOOLEAN
      BY <1>t, <1>4 DEF Accept, BodyFails, Dispatch, UseApp, Resolve, WriteFails, SetMtime, TypeOK,
         file
    <3>2. /\ lock' = lock /\ apps' = apps /\ current' = current /\ wired' = wired
          /\ text' = text /\ stat' = stat /\ edits' = edits
      BY <1>4 DEF Accept, BodyFails, Dispatch, UseApp, Resolve, WriteFails, SetMtime
    <3> QED BY <1>t, <2>2, <2>3, <3>1, <3>2, <3>3, <3>4 DEF TypeOK
  <2>5. RequestInv'
    BY <1>k, <2>1, <2>2, <2>3 DEF StageInv, RequestInv, InSwap, InTurn
  <2>6. OthersInv'
    BY <1>k, <2>2 DEF StageInv, OthersInv, InSwap, InTurn
  <2> QED BY <2>4, <2>5, <2>6 DEF StageInv
<1>5. ASSUME NEW r \in Request, NEW o \in Outcomes, WriteHalf(r, o) \/ WriteConfig(r, o)
      PROVE  StageInv'
  <2>1. /\ pc' \in [Thread -> Stage]
        /\ \/ pc[r] = "write" /\ pc'[r] = "writing"
           \/ pc[r] = "writing" /\ pc'[r] = "lock"
        /\ \A u \in Thread : u # r => pc'[u] = pc[u]
    BY <1>t, <1>k, <1>5, GoesTo DEF WriteHalf, WriteConfig, Stage
  <2>2. /\ file \in Nat /\ o \in Outcomes
        /\ text' = [version |-> file + 1, makes |-> o]
    BY <1>t, <1>5 DEF WriteHalf, WriteConfig, Written, TypeOK, file
  <2>3. /\ UNCHANGED <<what, seen, free, lock, answered, apps, current, wired, known, stat, edits>>
        /\ missed' \in BOOLEAN
    BY <1>5 DEF WriteHalf, WriteConfig, Written
  <2>4. text' \in [version : Nat \ {0}, makes : Outcomes \cup {"ok"}]
    BY <2>2
  <2>5. TypeOK'
    BY <1>t, <2>1, <2>3, <2>4 DEF TypeOK
  <2>6. RequestInv'
    BY <1>k, <2>1, <2>3 DEF StageInv, RequestInv, InSwap, InTurn
  <2>7. OthersInv'
    BY <1>k, <2>1 DEF StageInv, OthersInv, InSwap, InTurn
  <2> QED BY <2>5, <2>6, <2>7 DEF StageInv
<1>6. ASSUME NEW o \in Outcomes, Edit(o) PROVE StageInv'
  <2>1. /\ file \in Nat /\ text' = [version |-> file + 1, makes |-> o]
        /\ edits' \in Nat
    BY <1>t, <1>6 DEF Edit, Written, TypeOK, file
  <2>2. text' \in [version : Nat \ {0}, makes : Outcomes \cup {"ok"}]
    BY <2>1
  <2>3. /\ UNCHANGED <<pc, what, seen, free, lock, answered, apps, current, wired, known, stat>>
        /\ missed' \in BOOLEAN
    BY <1>6 DEF Edit, Written
  <2> QED BY <1>t, <2>1, <2>2, <2>3 DEF StageInv, TypeOK, RequestInv, OthersInv, InSwap, InTurn
<1>7. ASSUME NEW b \in Background, Wake(b) PROVE StageInv'
  <2>1. /\ pc' \in [Thread -> Stage] /\ pc'[b] = "lock"
        /\ \A u \in Thread : u # b => pc'[u] = pc[u]
    BY <1>t, <1>k, <1>7, GoesTo DEF Wake, Stage
  <2>2. UNCHANGED <<what, seen, free, lock, answered, instances, config>>
    BY <1>7 DEF Wake
  <2>3. TypeOK'
    BY <1>t, <2>1, <2>2 DEF TypeOK
  <2>4. RequestInv' /\ OthersInv'
    BY <1>k, <2>1, <2>2 DEF StageInv, RequestInv, OthersInv, InSwap, InTurn
  <2> QED BY <2>3, <2>4 DEF StageInv
<1>8. CASE Stat \/ NoteMtime
  <2>1. /\ pc' \in [Thread -> Stage] /\ pc'[Watcher] \in {"noted", "lock"}
        /\ \A u \in Thread : u # Watcher => pc'[u] = pc[u]
    BY <1>t, <1>8, GoesTo DEF Stat, NoteMtime, Stage
  <2>2. /\ UNCHANGED <<what, seen, free, lock, answered, apps, current, wired, text, edits,
                        missed>>
    BY <1>8 DEF Stat, NoteMtime
  <2>3. stat' \in Nat /\ known' \in Nat
    BY <1>t, <1>8 DEF Stat, NoteMtime, TypeOK, file
  <2>4. TypeOK'
    BY <1>t, <2>1, <2>2, <2>3 DEF TypeOK
  <2>5. RequestInv' /\ OthersInv'
    BY <1>k, <2>1, <2>2 DEF StageInv, RequestInv, OthersInv, InSwap, InTurn
  <2> QED BY <2>4, <2>5 DEF StageInv
<1>9. ASSUME NEW t \in Thread, BeginTurn(t) PROVE StageInv'
  <2>1. /\ pc' \in [Thread -> Stage] /\ pc'[t] = "turn" /\ pc[t] = "lock"
        /\ \A u \in Thread : u # t => pc'[u] = pc[u]
    BY <1>t, <1>9, GoesTo DEF BeginTurn, Stage
  <2>2. TurnApp(t) \in Nat
    BY <1>t DEF TurnApp, TypeOK
  <2>3. /\ seen' \in [Thread -> Nat]
        /\ \A u \in Thread : u # t => seen'[u] = seen[u]
    BY <1>t, <1>9, <2>2, HoldsApp DEF BeginTurn
  <2>4. /\ lock' = t /\ UNCHANGED <<what, free, answered, apps, current, wired, text, known, stat,
                                    edits, missed>>
        /\ t \in Background \/ (t \in Request /\ what[t] = "chat")
    BY <1>9 DEF BeginTurn, Chats
  <2>5. TypeOK'
    BY <1>t, <2>1, <2>3, <2>4 DEF TypeOK
  <2>6. RequestInv' /\ OthersInv'
    BY <1>k, <2>1, <2>3, <2>4 DEF StageInv, RequestInv, OthersInv, InSwap, InTurn
  <2> QED BY <2>5, <2>6 DEF StageInv
<1>10. ASSUME NEW t \in Thread, BeginSwap(t) PROVE StageInv'
  <2>1. /\ pc' \in [Thread -> Stage] /\ pc'[t] = "build" /\ pc[t] = "lock"
        /\ \A u \in Thread : u # t => pc'[u] = pc[u]
    BY <1>t, <1>10, GoesTo DEF BeginSwap, Stage
  <2>2. /\ lock' = t /\ UNCHANGED <<what, seen, free, answered, apps, current, wired, text, known,
                                    stat, edits, missed>>
        /\ t \notin Background /\ (t \in Request => what[t] # "chat")
    BY <1>10 DEF BeginSwap, Chats
  <2>3. TypeOK'
    BY <1>t, <2>1, <2>2 DEF TypeOK
  <2>4. RequestInv' /\ OthersInv'
    BY <1>k, <2>1, <2>2 DEF StageInv, RequestInv, OthersInv, InSwap, InTurn
  <2> QED BY <2>3, <2>4 DEF StageInv
<1>11. ASSUME NEW t \in Thread, Ask(t) \/ AskEnds(t) \/ TurnEnds(t) PROVE StageInv'
  <2>1. PICK to \in {"ask", "told", "reply", "idle"} :
          Goes(t, to) /\ (to = "reply" => t \in Request) /\ (to = "idle" => t \notin Request)
    BY <1>11 DEF Ask, AskEnds, TurnEnds
  <2>2. /\ pc' \in [Thread -> Stage] /\ pc'[t] = to /\ pc[t] \in {"turn", "ask", "told"}
        /\ \A u \in Thread : u # t => pc'[u] = pc[u]
    BY <1>t, <1>11, <2>1, GoesTo DEF Ask, AskEnds, TurnEnds, Stage
  <2>3. /\ seen' \in [Thread -> Nat]
        /\ \A u \in Thread : u # t => seen'[u] = seen[u]
    <3>1. CASE Ask(t) \/ AskEnds(t)
      BY <1>t, <3>1 DEF Ask, AskEnds, TypeOK
    <3>2. CASE TurnEnds(t)
      BY <1>t, <3>2, HoldsApp DEF TurnEnds
    <3> QED BY <1>11, <3>1, <3>2
  <2>4. UNCHANGED <<what, free, apps, current, wired, text, known, stat, edits, missed>>
    BY <1>11 DEF Ask, AskEnds, TurnEnds
  <2>5. lock' \in Thread \cup {None} /\ answered' \in BOOLEAN
    BY <1>t, <1>11 DEF Ask, AskEnds, TurnEnds, TypeOK
  <2>6. TypeOK'
    BY <1>t, <2>2, <2>3, <2>4, <2>5 DEF TypeOK
  <2>7. t # Watcher
    BY <2>2 DEF StageInv, OthersInv, InSwap
  <2>8. RequestInv' /\ OthersInv'
    BY <1>k, <2>1, <2>2, <2>3, <2>4, <2>7 DEF StageInv, RequestInv, OthersInv, InSwap, InTurn
  <2> QED BY <2>6, <2>8 DEF StageInv
<1>12. ASSUME NEW t \in Thread, Refuse(t) \/ Build(t) \/ Publish(t) \/ Wire(t) \/ CloseOld(t)
       PROVE  StageInv'
  <2>1. PICK to \in {"reply", "idle", "publish", "wire", "close", "mtime"} :
          /\ Goes(t, to)
          /\ to \in {"reply", "mtime"} => t \in Request
          /\ to = "idle" => t \notin Request
    BY <1>12 DEF Refuse, Build, Publish, Wire, CloseOld, AfterSwap
  <2>2. /\ pc' \in [Thread -> Stage] /\ pc'[t] = to /\ InSwap(t)
        /\ \A u \in Thread : u # t => pc'[u] = pc[u]
    BY <1>t, <1>12, <2>1, GoesTo DEF Refuse, Build, Publish, Wire, CloseOld, InSwap, Stage
  <2>3. /\ file \in Nat /\ apps \in Seq(Int) /\ current \in DOMAIN apps /\ current \in Nat
        /\ Len(apps) \in Nat /\ DOMAIN apps = 1..Len(apps)
    BY <1>t DEF TypeOK, file
  <2>4. /\ seen' \in [Thread -> Nat]
        /\ \A u \in Thread : u # t => seen'[u] = seen[u]
    <3>1. CASE Refuse(t) \/ Publish(t) \/ Wire(t)
      BY <1>t, <3>1 DEF Refuse, Publish, Wire, TypeOK
    <3>2. CASE Build(t)
      BY <1>t, <2>3, <3>2, HoldsApp DEF Build
    <3>3. CASE CloseOld(t)
      BY <1>t, <3>3, HoldsApp DEF CloseOld
    <3> QED BY <1>12, <3>1, <3>2, <3>3
  <2>5. UNCHANGED <<what, free, answered, text, known, stat, edits, missed>>
    BY <1>12 DEF Refuse, Build, Publish, Wire, CloseOld
  <2>6. lock' \in Thread \cup {None}
    BY <1>t, <1>12 DEF Refuse, Build, Publish, Wire, CloseOld, TypeOK
  <2>7. wired' \subseteq Nat
    BY <1>t, <1>12, <2>3 DEF Refuse, Build, Publish, Wire, CloseOld, TypeOK
  <2>8. apps' \in Seq(Int) /\ current' \in DOMAIN apps'
    <3>1. CASE Refuse(t)
      BY <2>3, <3>1, AppsGrow DEF Refuse, Discarded, HalfBuilt, Half
    <3>2. CASE Build(t)
      <4>1. apps' = Append(apps, file) /\ current' = current
        BY <3>2 DEF Build
      <4>2. file \in Int
        BY <2>3
      <4>3. Append(apps, file) \in Seq(Int) /\ current \in DOMAIN Append(apps, file)
        BY <2>3, <4>2, AppsGrow
      <4> QED BY <4>1, <4>3
    <3>3. CASE Publish(t)
      BY <2>3, <3>3 DEF Publish
    <3>4. CASE Wire(t)
      BY <2>3, <3>4 DEF Wire
    <3>5. CASE CloseOld(t)
      BY <2>3, <3>5, AppsClose DEF CloseOld
    <3> QED BY <1>12, <3>1, <3>2, <3>3, <3>4, <3>5
  <2>9. TypeOK'
    BY <1>t, <2>2, <2>4, <2>5, <2>6, <2>7, <2>8 DEF TypeOK
  <2>10. t \notin Background
    BY <2>2 DEF StageInv, OthersInv, InSwap, InTurn
  <2>11. RequestInv' /\ OthersInv'
    BY <1>k, <2>1, <2>2, <2>4, <2>5, <2>10 DEF StageInv, RequestInv, OthersInv, InSwap, InTurn
  <2> QED BY <2>9, <2>11 DEF StageInv
<1>13. ASSUME NEW t \in Thread, SetMtime(t) PROVE StageInv'
  <2>1. t \in Request
    BY <1>13, Threads DEF SetMtime, StageInv, OthersInv, InSwap, InTurn, Thread
  <2> QED BY <1>13, <2>1, <1>4
<1>14. CASE UNCHANGED vars
  BY <1>14 DEF StageInv, TypeOK, RequestInv, OthersInv, InSwap, InTurn
<1> QED BY <1>1, <1>2, <1>3, <1>4, <1>5, <1>6, <1>7, <1>8, <1>9, <1>10, <1>11, <1>12, <1>13,
           <1>14 DEF Next, Handler, Holder

\* In every reachable state every variable has its type.
THEOREM TypeCorrect == Spec => []TypeOK
<1>1. StageInv => TypeOK
  BY DEF StageInv
<1> QED BY <1>1, StageInit, StageStep, PTL DEF Spec
-----------------------------------------------------------------------------
\* Who is in a turn or a swap got the lock when nobody had it.
LEMMA SerializedInit == Init => Serialized
BY Threads DEF Init, Serialized, InTurn, InSwap

LEMMA SerializedStep ==
  ASSUME StageInv, Serialized, [Next]_vars
  PROVE  Serialized'
<1> USE DEF requests, instances, config, vars
<1>t. TypeOK /\ pc \in [Thread -> Stage]
  BY DEF StageInv, TypeOK
<1>1. ASSUME NEW t \in Thread, BeginTurn(t) \/ BeginSwap(t) PROVE Serialized'
  <2>1. lock = None /\ lock' = t /\ \A u \in Thread : u # t => pc'[u] = pc[u]
    BY <1>t, <1>1 DEF BeginTurn, BeginSwap, LockFree, Goes
  <2>2. \A u \in Thread : ~InTurn(u) /\ ~InSwap(u)
    BY <2>1, Threads DEF Serialized
  <2> QED BY <2>1, <2>2 DEF Serialized, InTurn, InSwap
<1>2. ASSUME NEW t \in Thread, Holder(t) PROVE Serialized'
  <2>1. InTurn(t) \/ InSwap(t)
    BY <1>2 DEF Holder, Ask, AskEnds, TurnEnds, Refuse, Build, Publish, Wire, CloseOld, InTurn,
       InSwap
  <2>2. lock = t /\ \A u \in Thread : u # t => ~InTurn(u) /\ ~InSwap(u)
    BY <2>1 DEF Serialized
  <2>3. /\ \A u \in Thread : u # t => pc'[u] = pc[u]
        /\ lock' = t \/ pc'[t] \in {"reply", "idle", "mtime"}
    BY <1>t, <1>2, <2>2 DEF Holder, Ask, AskEnds, TurnEnds, Refuse, Build, Publish, Wire,
       CloseOld, AfterSwap, Goes
  <2> QED BY <2>2, <2>3 DEF Serialized, InTurn, InSwap
<1>3. ASSUME NEW t \in Thread, lock' = lock, \A u \in Thread : u # t => pc'[u] = pc[u],
             ~InTurn(t)', ~InSwap(t)'
      PROVE  Serialized'
  BY <1>3 DEF Serialized, InTurn, InSwap
<1>4. ASSUME NEW r \in Request, NEW w \in What, Connect(r, w) PROVE Serialized'
  BY <1>t, <1>3, <1>4, Threads DEF Connect, Goes, InTurn, InSwap
<1>5. ASSUME NEW r \in Request,
             Accept(r) \/ AcceptFails(r) \/ Capture(r) \/ BodyFails(r) \/ UseApp(r) \/ Resolve(r)
             \/ Reply(r) \/ WriteFails(r)
      PROVE  Serialized'
  BY <1>t, <1>3, <1>5, Threads
     DEF Accept, AcceptFails, Capture, BodyFails, UseApp, Resolve, Reply, WriteFails, Goes,
         InTurn, InSwap
<1>6. ASSUME NEW r \in Request, Dispatch(r) PROVE Serialized'
  <2>1. what[r] \in {"chat", "config", "approve", "use"}
    BY <1>6, Threads DEF Dispatch, StageInv, RequestInv
  <2>2. pc'[r] \in {"lock", "write", "resolve", "use"}
    BY <1>t, <1>6, <2>1, Threads DEF Dispatch, Goes
  <2> QED BY <1>t, <1>3, <1>6, <2>2, Threads DEF Dispatch, Goes, InTurn, InSwap
<1>7. ASSUME NEW r \in Request, NEW o \in Outcomes, WriteHalf(r, o) \/ WriteConfig(r, o)
      PROVE  Serialized'
  BY <1>t, <1>3, <1>7, Threads DEF WriteHalf, WriteConfig, Goes, InTurn, InSwap
<1>8. ASSUME NEW b \in Background, Wake(b) PROVE Serialized'
  BY <1>t, <1>3, <1>8, Threads DEF Wake, Goes, InTurn, InSwap
<1>9. CASE Stat \/ NoteMtime
  BY <1>t, <1>3, <1>9, Threads DEF Stat, NoteMtime, Goes, InTurn, InSwap
<1>10. ASSUME NEW t \in Thread, SetMtime(t) PROVE Serialized'
  BY <1>t, <1>3, <1>10 DEF SetMtime, Goes, InTurn, InSwap
<1>11. CASE UNCHANGED vars \/ \E o \in Outcomes : Edit(o)
  BY <1>11 DEF Edit, Serialized, InTurn, InSwap
<1> QED BY <1>1, <1>2, <1>4, <1>5, <1>6, <1>7, <1>8, <1>9, <1>10, <1>11 DEF Next, Handler

\* For any number of threads, turns and swaps exclude each other.
THEOREM SerializedTheorem == Spec => []Serialized
BY StageInit, StageStep, SerializedInit, SerializedStep, PTL DEF Spec

-----------------------------------------------------------------------------
(* Apps.                                                                      *)

\* The running App is open, and a swap knows the new App and the old one.
OpenInv ==
  /\ apps[current] > 0
  /\ \A n \in DOMAIN apps : apps[n] <= file
  /\ \A t \in Thread :
       /\ pc[t] = "publish" => /\ seen[t] = current /\ current < Len(apps)
                              /\ apps[Len(apps)] > 0 /\ apps[current] <= apps[Len(apps)]
       /\ pc[t] \in {"wire", "close"} => current = Len(apps) /\ seen[t] \in 1..Len(apps) - 1

\* The running App is finished or just being so; what anybody has in hand is
\* the running App or a finished one, and a background turn has an open one.
FinishInv ==
  /\ current \in wired \/ \E t \in Thread : pc[t] = "wire"
  /\ \A r \in Request : seen[r] \in {0, current} \cup wired
  /\ \A t \in Thread : InTurn(t) => seen[t] \in wired
  /\ \A b \in Background : InTurn(b) => seen[b] \notin closed

AppInv == OpenInv /\ OnlyHalfBuiltLeak /\ FinishInv

LEMMA AppInit == Init => AppInv
<1> SUFFICES ASSUME Init PROVE AppInv
  OBVIOUS
<1>1. /\ DOMAIN apps = {1} /\ Len(apps) = 1 /\ apps[1] = 1 /\ current = 1 /\ file = 1 /\ wired = {1}
      /\ \A t \in Thread : pc[t] \in {"new", "idle"} /\ seen[t] = 0
  BY DEF Init, file
<1> QED BY <1>1, Threads DEF AppInv, OpenInv, OnlyHalfBuiltLeak, FinishInv, closed, halfBuilt, InTurn

\* Steps that leave the Apps alone.
LEMMA AppFrame ==
  ASSUME StageInv, Serialized, AppInv, UNCHANGED instances, file <= file', file' \in Nat,
         \A t \in Thread : /\ pc'[t] \in {"publish", "wire", "close"} => pc'[t] = pc[t]
                           /\ pc[t] \in {"publish", "wire", "close"}
                                => pc'[t] = pc[t] /\ seen'[t] = seen[t]
                           /\ InTurn(t)' => InTurn(t) /\ seen'[t] = seen[t],
         \A r \in Request : seen'[r] \in {0, current, seen[r]}
  PROVE  AppInv'
<1> USE DEF instances
<1>1. /\ apps' = apps /\ current' = current /\ wired' = wired /\ apps \in Seq(Int)
      /\ current \in DOMAIN apps /\ file \in Nat /\ closed' = closed /\ halfBuilt' = halfBuilt
  BY DEF StageInv, TypeOK, file, closed, halfBuilt
<1>2. OpenInv'
  BY <1>1 DEF AppInv, OpenInv
<1>3. OnlyHalfBuiltLeak'
  BY <1>1 DEF AppInv, OnlyHalfBuiltLeak
<1>4. FinishInv'
  BY <1>1, Threads DEF AppInv, FinishInv
<1> QED BY <1>2, <1>3, <1>4 DEF AppInv

\* The holder of the lock is alone in its turn or swap.
LEMMA Alone ==
  ASSUME StageInv, Serialized, NEW t \in Thread, InTurn(t) \/ InSwap(t),
         NEW to, Goes(t, to)
  PROVE  /\ pc'[t] = to
         /\ \A u \in Thread : u # t => pc'[u] = pc[u] /\ ~InTurn(u) /\ ~InSwap(u)
BY DEF StageInv, TypeOK, Serialized, Goes

\* A step of the swap: t alone is in it, and seen changes for t only.
LEMMA SwapStep ==
  ASSUME StageInv, Serialized, AppInv, NEW t \in Thread,
         Refuse(t) \/ Build(t) \/ Publish(t) \/ Wire(t) \/ CloseOld(t)
  PROVE  AppInv'
<1>t. /\ TypeOK /\ apps \in Seq(Int) /\ current \in DOMAIN apps /\ file \in Nat \ {0}
      /\ DOMAIN apps = 1..Len(apps) /\ Len(apps) \in Nat /\ seen \in [Thread -> Nat]
      /\ wired \subseteq Nat
  BY DEF StageInv, TypeOK, file
<1>0. InSwap(t) /\ text' = text
  BY DEF Refuse, Build, Publish, Wire, CloseOld, InSwap, config
<1>1. t \notin Background
  BY <1>0 DEF StageInv, OthersInv, InSwap, InTurn
<1>2. /\ \A u \in Thread : u # t => pc'[u] = pc[u] /\ ~InTurn(u) /\ ~InSwap(u)
      /\ file' = file
  BY <1>0, Alone DEF Refuse, Build, Publish, Wire, CloseOld, file
<1>3. \A u \in Thread : u # t => ~InTurn(u)' /\ ~InSwap(u)'
  BY <1>2 DEF InTurn, InSwap
<1>r. \A r \in Request : seen[r] \in {0, current} \cup wired
  BY DEF AppInv, FinishInv
<1>4. CASE Refuse(t)
  <2>1. /\ pc'[t] \in {"reply", "idle"} /\ pc[t] = "build" /\ UNCHANGED <<current, wired, seen>>
        /\ apps' = apps \/ apps' = Append(apps, Half)
    BY <1>4, <1>0, Alone DEF Refuse, Discarded, HalfBuilt
  <2>2. \A u \in Thread : ~InTurn(u)' /\ ~InSwap(u)'
    BY <1>3, <2>1 DEF InTurn, InSwap
  <2>3. \A u \in Thread : pc[u] \notin {"publish", "wire", "close"}
    BY <1>2, <2>1 DEF InSwap
  <2>4. /\ DOMAIN apps \subseteq DOMAIN apps' /\ \A n \in DOMAIN apps : apps'[n] = apps[n]
        /\ \A n \in DOMAIN apps' : n \notin DOMAIN apps => apps'[n] = Half
    BY <1>t, <2>1, AppsGrow
  <2>5. OpenInv'
    BY <1>t, <1>2, <2>1, <2>2, <2>4 DEF AppInv, OpenInv, InSwap
  <2>6. OnlyHalfBuiltLeak'
    BY <1>t, <2>1, <2>3, <2>4 DEF AppInv, OnlyHalfBuiltLeak, closed, halfBuilt
  <2>7. FinishInv'
    BY <1>r, <2>1, <2>2, <2>3, Threads DEF AppInv, FinishInv
  <2> QED BY <2>5, <2>6, <2>7 DEF AppInv
<1>5. CASE Build(t)
  <2>1. /\ pc'[t] = "publish" /\ pc[t] = "build" /\ UNCHANGED <<current, wired>>
        /\ apps' = Append(apps, file) /\ seen'[t] = current
        /\ \A u \in Thread : u # t => seen'[u] = seen[u]
    BY <1>5, <1>0, <1>t, Alone, HoldsApp DEF Build
  <2>2. \A u \in Thread : ~InTurn(u)'
    BY <1>3, <2>1 DEF InTurn
  <2>3. \A u \in Thread : pc[u] \notin {"publish", "wire", "close"}
    BY <1>2, <2>1 DEF InSwap
  <2>4. /\ DOMAIN apps' = 1..Len(apps) + 1 /\ \A n \in DOMAIN apps : apps'[n] = apps[n]
        /\ Len(apps') = Len(apps) + 1 /\ apps'[Len(apps) + 1] = file
    BY <1>t, <2>1, AppsGrow
  <2>5. OpenInv'
    <3>1. current' \in DOMAIN apps /\ current < Len(apps') /\ apps'[current'] = apps[current]
      BY <1>t, <2>1, <2>4
    <3>2. \A n \in DOMAIN apps' : apps'[n] <= file'
      BY <1>t, <1>2, <2>4 DEF AppInv, OpenInv
    <3>3. \A u \in Thread : u # t => pc'[u] \notin {"publish", "wire", "close"}
      BY <1>3 DEF InSwap
    <3> QED BY <1>t, <2>1, <2>4, <3>1, <3>2, <3>3 DEF AppInv, OpenInv
  <2>6. OnlyHalfBuiltLeak'
    <3>1. current' \notin closed' \cup halfBuilt'
      BY <1>t, <2>1, <2>4 DEF AppInv, OpenInv, closed, halfBuilt
    <3>2. ASSUME NEW n \in DOMAIN apps'
          PROVE  \/ n \in closed' \/ n = current' \/ n \in halfBuilt'
                 \/ pc'[t] = "publish" /\ n = Len(apps')
      <4>1. CASE n = Len(apps) + 1
        BY <2>1, <2>4, <4>1
      <4>2. CASE n \in DOMAIN apps
        <5>1. n \in closed \/ n = current \/ n \in halfBuilt
          BY <2>3, <4>2 DEF AppInv, OnlyHalfBuiltLeak
        <5>2. apps'[n] = apps[n]
          BY <2>4, <4>2
        <5> QED BY <2>1, <5>1, <5>2 DEF closed, halfBuilt
      <4> QED BY <1>t, <2>4, <4>1, <4>2
    <3> QED BY <3>1, <3>2 DEF OnlyHalfBuiltLeak
  <2>7. FinishInv'
    <3>1. current \in wired
      BY <2>3 DEF AppInv, FinishInv
    <3> QED BY <1>r, <2>1, <2>2, <3>1, Threads DEF FinishInv
  <2> QED BY <2>5, <2>6, <2>7 DEF AppInv
<1>6. CASE Publish(t)
  <2>1. /\ pc'[t] = "wire" /\ pc[t] = "publish" /\ UNCHANGED <<apps, wired, seen>>
        /\ current' = Len(apps)
    BY <1>6, <1>0, Alone DEF Publish
  <2>2. \A u \in Thread : ~InTurn(u)'
    BY <1>3, <2>1 DEF InTurn
  <2>3. /\ seen[t] = current /\ current < Len(apps) /\ apps[Len(apps)] > 0
        /\ \A u \in Thread : u # t => pc'[u] \notin {"publish", "wire", "close"}
        /\ \A u \in Thread : pc[u] \notin {"wire", "close"}
    BY <1>2, <1>3, <2>1 DEF AppInv, OpenInv, InSwap
  <2>4. OpenInv'
    BY <1>t, <1>2, <2>1, <2>3 DEF AppInv, OpenInv
  <2>5. OnlyHalfBuiltLeak'
    <3>1. current' \notin closed' \cup halfBuilt'
      BY <1>t, <2>1, <2>3 DEF closed, halfBuilt
    <3>2. ASSUME NEW n \in DOMAIN apps
          PROVE  n \in closed \/ n \in halfBuilt \/ n = Len(apps) \/ n = seen[t]
      BY <2>1, <2>3 DEF AppInv, OnlyHalfBuiltLeak
    <3> QED BY <2>1, <3>1, <3>2 DEF OnlyHalfBuiltLeak, closed, halfBuilt
  <2>6. FinishInv'
    <3>1. current \in wired
      BY <2>3 DEF AppInv, FinishInv
    <3> QED BY <1>r, <2>1, <2>2, <3>1, Threads DEF FinishInv
  <2> QED BY <2>4, <2>5, <2>6 DEF AppInv
<1>7. CASE Wire(t)
  <2>1. /\ pc'[t] = "close" /\ pc[t] = "wire" /\ UNCHANGED <<apps, current, seen>>
        /\ wired' = wired \cup {current}
    BY <1>7, <1>0, Alone DEF Wire
  <2>2. \A u \in Thread : ~InTurn(u)'
    BY <1>3, <2>1 DEF InTurn
  <2>3. \A u \in Thread : u # t => pc'[u] \notin {"publish", "wire", "close"}
    BY <1>3 DEF InSwap
  <2>4. OpenInv'
    BY <1>2, <2>1, <2>3 DEF AppInv, OpenInv
  <2>5. OnlyHalfBuiltLeak'
    <3>1. ASSUME NEW n \in DOMAIN apps
          PROVE  n \in closed \/ n \in halfBuilt \/ n = current \/ n = seen[t]
      BY <1>2, <2>1 DEF AppInv, OnlyHalfBuiltLeak, InSwap
    <3> QED BY <2>1, <3>1 DEF AppInv, OnlyHalfBuiltLeak, closed, halfBuilt
  <2>6. FinishInv'
    BY <1>r, <2>1, <2>2, Threads DEF FinishInv
  <2> QED BY <2>4, <2>5, <2>6 DEF AppInv
<1>8. CASE CloseOld(t)
  <2>1. /\ pc'[t] \in {"mtime", "idle"} /\ pc[t] = "close" /\ UNCHANGED <<current, wired>>
        /\ apps' = [apps EXCEPT ![seen[t]] = Closed]
        /\ seen'[t] = 0 /\ \A u \in Thread : u # t => seen'[u] = seen[u]
    BY <1>8, <1>0, <1>t, Alone, HoldsApp DEF CloseOld, AfterSwap
  <2>2. \A u \in Thread : ~InTurn(u)' /\ ~InSwap(u)'
    BY <1>3, <2>1 DEF InTurn, InSwap
  <2>3. current = Len(apps) /\ seen[t] \in 1..Len(apps) - 1
    BY <2>1 DEF AppInv, OpenInv
  <2>4. /\ DOMAIN apps' = DOMAIN apps
        /\ \A n \in DOMAIN apps : apps'[n] = IF n = seen[t] THEN 0 ELSE apps[n]
    BY <1>t, <2>1, AppsClose
  <2>5. OpenInv'
    <3>1. apps'[current'] = apps[current]
      BY <1>t, <2>1, <2>3, <2>4
    <3> QED BY <1>t, <1>2, <2>1, <2>2, <2>4, <3>1 DEF AppInv, OpenInv, InSwap
  <2>6. OnlyHalfBuiltLeak'
    <3>1. current' \notin closed' \cup halfBuilt'
      BY <1>t, <2>1, <2>3, <2>4 DEF AppInv, OpenInv, closed, halfBuilt
    <3>2. ASSUME NEW n \in DOMAIN apps
          PROVE  n \in closed \/ n \in halfBuilt \/ n = current \/ n = seen[t]
      BY <1>2, <2>1 DEF AppInv, OnlyHalfBuiltLeak, InSwap
    <3> QED BY <2>1, <2>4, <3>1, <3>2 DEF OnlyHalfBuiltLeak, closed, halfBuilt
  <2>7. FinishInv'
    <3>1. current \in wired
      <4>1. \A u \in Thread : pc[u] # "wire"
        BY <1>2, <2>1 DEF InSwap
      <4> QED BY <4>1 DEF AppInv, FinishInv
    <3> QED BY <1>r, <2>1, <2>2, <3>1, Threads DEF FinishInv
  <2> QED BY <2>5, <2>6, <2>7 DEF AppInv
<1> QED BY <1>4, <1>5, <1>6, <1>7, <1>8

LEMMA AppStep ==
  ASSUME StageInv, StageInv', Serialized, AppInv, [Next]_vars
  PROVE  AppInv'
<1> USE DEF requests, instances, config, vars
<1>t. /\ pc \in [Thread -> Stage] /\ seen \in [Thread -> Nat] /\ apps \in Seq(Int)
      /\ current \in DOMAIN apps /\ file \in Nat /\ file' \in Nat
  BY DEF StageInv, TypeOK, file
<1>0. ASSUME NEW t \in Thread, UNCHANGED instances, file <= file',
             \A u \in Thread : u # t => pc'[u] = pc[u] /\ seen'[u] = seen[u],
             pc[t] \notin {"publish", "wire", "close"},
             pc'[t] \notin {"publish", "wire", "close"},
             InTurn(t)' => InTurn(t) /\ seen'[t] = seen[t],
             seen'[t] \in {0, current, seen[t]}
      PROVE  AppInv'
  BY <1>0, <1>t, AppFrame, Threads DEF InTurn
<1>1. ASSUME NEW r \in Request, NEW w \in What, Connect(r, w) PROVE AppInv'
  <2>1. /\ \A u \in Thread : u # r => pc'[u] = pc[u]
        /\ pc[r] = "new" /\ pc'[r] = "queued"
        /\ seen' = seen /\ UNCHANGED instances /\ file' = file
    BY <1>t, <1>1, Threads DEF Connect, Goes, file
  <2>2. /\ file <= file' /\ pc[r] \notin {"publish", "wire", "close"}
        /\ pc'[r] \notin {"publish", "wire", "close"} /\ ~InTurn(r)'
    BY <1>t, <2>1 DEF InTurn
  <2> QED BY <1>0, <2>1, <2>2, Threads
<1>2. ASSUME NEW r \in Request,
             Accept(r) \/ AcceptFails(r) \/ BodyFails(r) \/ UseApp(r) \/ Resolve(r)
             \/ WriteFails(r)
      PROVE  AppInv'
  BY <1>t, <1>0, <1>2, Threads
     DEF Accept, AcceptFails, BodyFails, UseApp, Resolve, WriteFails, Goes, InTurn, file
<1>3. ASSUME NEW r \in Request, Dispatch(r) PROVE AppInv'
  <2>1. what[r] \in {"chat", "config", "approve", "use"}
    BY <1>3, Threads DEF Dispatch, StageInv, RequestInv
  <2>2. pc'[r] \in {"lock", "write", "resolve", "use"} /\ pc[r] = "body"
    BY <1>t, <1>3, <2>1, Threads DEF Dispatch, Goes
  <2>3. /\ \A u \in Thread : u # r => pc'[u] = pc[u]
        /\ seen' = seen /\ UNCHANGED instances /\ file' = file
    BY <1>t, <1>3, Threads DEF Dispatch, Goes, file
  <2>4. /\ file <= file' /\ pc[r] \notin {"publish", "wire", "close"}
        /\ pc'[r] \notin {"publish", "wire", "close"} /\ ~InTurn(r)'
    BY <1>t, <2>2, <2>3 DEF InTurn
  <2> QED BY <1>0, <2>3, <2>4, Threads
<1>4. ASSUME NEW r \in Request, Capture(r) \/ Reply(r) PROVE AppInv'
  <2>1. /\ \A u \in Thread : u # r => pc'[u] = pc[u] /\ seen'[u] = seen[u]
        /\ pc[r] \in {"accepted", "reply"} /\ pc'[r] \in {"body", "done"}
        /\ seen'[r] \in {0, current} /\ UNCHANGED instances /\ file' = file
    BY <1>t, <1>4, Threads DEF Capture, Reply, Goes, Holds, file
  <2>2. /\ file <= file' /\ pc[r] \notin {"publish", "wire", "close"}
        /\ pc'[r] \notin {"publish", "wire", "close"} /\ ~InTurn(r)'
    BY <1>t, <2>1 DEF InTurn
  <2> QED BY <1>0, <2>1, <2>2, Threads
<1>5. ASSUME NEW r \in Request, NEW o \in Outcomes, WriteHalf(r, o) \/ WriteConfig(r, o)
      PROVE  AppInv'
  <2>1. file' = file + 1
    BY <1>5 DEF WriteHalf, WriteConfig, Written, file
  <2>2. /\ \A u \in Thread : u # r => pc'[u] = pc[u]
        /\ pc[r] \in {"write", "writing"} /\ pc'[r] \in {"writing", "lock"}
        /\ seen' = seen /\ UNCHANGED instances
    BY <1>t, <1>5, Threads DEF WriteHalf, WriteConfig, Goes
  <2>3. /\ file <= file' /\ pc[r] \notin {"publish", "wire", "close"}
        /\ pc'[r] \notin {"publish", "wire", "close"} /\ ~InTurn(r)'
    BY <1>t, <2>1, <2>2 DEF InTurn
  <2> QED BY <1>0, <2>2, <2>3, Threads
<1>6. ASSUME NEW o \in Outcomes, Edit(o) PROVE AppInv'
  <2>1. file' = file + 1 /\ UNCHANGED <<pc, seen, instances>>
    BY <1>6 DEF Edit, Written, file
  <2> QED BY <1>t, <2>1, AppFrame, Threads DEF InTurn
<1>7. ASSUME NEW b \in Background, Wake(b) PROVE AppInv'
  BY <1>t, <1>0, <1>7, Threads DEF Wake, Goes, InTurn, file
<1>8. CASE Stat \/ NoteMtime
  <2>1. /\ \A u \in Thread : u # Watcher => pc'[u] = pc[u]
        /\ pc[Watcher] \in {"idle", "noted"} /\ pc'[Watcher] \in {"noted", "lock"}
        /\ seen' = seen /\ UNCHANGED instances /\ file' = file
    BY <1>t, <1>8, Threads DEF Stat, NoteMtime, Goes, file
  <2>2. /\ file <= file' /\ pc[Watcher] \notin {"publish", "wire", "close"}
        /\ pc'[Watcher] \notin {"publish", "wire", "close"} /\ ~InTurn(Watcher)'
    BY <1>t, <2>1 DEF InTurn
  <2> QED BY <1>0, <2>1, <2>2, Threads
<1>9. ASSUME NEW t \in Thread, BeginSwap(t) \/ SetMtime(t) PROVE AppInv'
  <2>1. /\ \A u \in Thread : u # t => pc'[u] = pc[u]
        /\ pc[t] \in {"lock", "mtime"} /\ pc'[t] \in {"build", "reply", "idle"}
        /\ seen' = seen /\ UNCHANGED instances /\ file' = file
    BY <1>t, <1>9 DEF BeginSwap, SetMtime, Goes, file
  <2>2. /\ file <= file' /\ pc[t] \notin {"publish", "wire", "close"}
        /\ pc'[t] \notin {"publish", "wire", "close"} /\ ~InTurn(t)'
    BY <1>t, <2>1 DEF InTurn
  <2> QED BY <1>0, <2>1, <2>2
<1>10. ASSUME NEW t \in Thread, Ask(t) \/ AskEnds(t) PROVE AppInv'
  <2>1. /\ \A u \in Thread : u # t => pc'[u] = pc[u]
        /\ pc[t] \in {"turn", "ask"} /\ pc'[t] \in {"ask", "told"}
        /\ seen' = seen /\ UNCHANGED instances /\ file' = file
    BY <1>t, <1>10 DEF Ask, AskEnds, Goes, file
  <2>2. /\ file <= file' /\ InTurn(t) /\ pc[t] \notin {"publish", "wire", "close"}
        /\ pc'[t] \notin {"publish", "wire", "close"}
    BY <1>t, <2>1 DEF InTurn
  <2> QED BY <1>0, <2>1, <2>2
<1>11. ASSUME NEW t \in Thread, TurnEnds(t) PROVE AppInv'
  <2>1. /\ \A u \in Thread : u # t => pc'[u] = pc[u] /\ seen'[u] = seen[u]
        /\ pc[t] \in {"turn", "told"} /\ pc'[t] \in {"reply", "idle"} /\ seen'[t] = 0
        /\ UNCHANGED instances /\ file' = file
    BY <1>t, <1>11 DEF TurnEnds, Goes, Holds, file
  <2>2. /\ file <= file' /\ pc[t] \notin {"publish", "wire", "close"}
        /\ pc'[t] \notin {"publish", "wire", "close"} /\ ~InTurn(t)'
    BY <1>t, <2>1 DEF InTurn
  <2> QED BY <1>0, <2>1, <2>2
<1>12. ASSUME NEW t \in Thread, BeginTurn(t) PROVE AppInv'
  <2>1. /\ lock = None /\ pc[t] = "lock" /\ pc'[t] = "turn" /\ Chats(t)
        /\ \A u \in Thread : u # t => pc'[u] = pc[u] /\ seen'[u] = seen[u]
        /\ seen'[t] = TurnApp(t) /\ UNCHANGED instances /\ file' = file
    BY <1>t, <1>12 DEF BeginTurn, LockFree, Goes, Holds, file
  <2>2. \A u \in Thread : ~InTurn(u) /\ ~InSwap(u)
    BY <2>1, Threads DEF Serialized
  <2>3. current \in wired
    BY <2>2 DEF AppInv, FinishInv, InSwap
  <2>4. seen'[t] \in wired
    BY <2>1, <2>3 DEF Chats, TurnApp, StageInv, RequestInv, AppInv, FinishInv
  <2>5. t \in Background => seen'[t] \notin closed
    BY <2>1 DEF TurnApp, AppInv, OnlyHalfBuiltLeak
  <2>6. /\ \A u \in Thread : pc'[u] \notin {"publish", "wire", "close"}
        /\ \A u \in Thread : u # t => ~InTurn(u)'
        /\ \A u \in Thread : pc[u] \notin {"publish", "wire", "close"}
    BY <2>1, <2>2 DEF InSwap, InTurn
  <2>7. OpenInv'
    BY <2>1, <2>6 DEF AppInv, OpenInv
  <2>8. OnlyHalfBuiltLeak'
    BY <2>1, <2>6 DEF AppInv, OnlyHalfBuiltLeak, closed, halfBuilt
  <2>9. FinishInv'
    <3>1. \A r \in Request : seen'[r] \in {0, current'} \cup wired'
      BY <2>1, <2>4, Threads DEF AppInv, FinishInv
    <3>2. \A u \in Thread : InTurn(u)' => u = t
      BY <2>6
    <3> QED BY <2>1, <2>3, <2>4, <2>5, <3>1, <3>2, Threads DEF FinishInv, closed, halfBuilt
  <2> QED BY <2>7, <2>8, <2>9 DEF AppInv
<1>13. CASE UNCHANGED vars
  <2>1. file' = file /\ UNCHANGED <<pc, seen, instances>>
    BY <1>13 DEF file
  <2> QED BY <1>t, <2>1, AppFrame DEF InTurn
<1> QED BY <1>1, <1>2, <1>3, <1>4, <1>5, <1>6, <1>7, <1>8, <1>9, <1>10, <1>11, <1>12, <1>13,
           SwapStep DEF Next, Handler, Holder

LEMMA AppInvariant == Spec => [](StageInv /\ Serialized /\ AppInv)
<1>1. StageInv /\ Serialized /\ AppInv /\ [Next]_vars => (StageInv /\ Serialized /\ AppInv)'
  BY StageStep, SerializedStep, AppStep
<1> QED BY <1>1, StageInit, SerializedInit, AppInit, PTL DEF Spec

\* For any number of threads and swaps: a turn finds its approver set, and a
\* background turn never runs in a closed App.
THEOREM TurnsUseReadyAppTheorem == Spec => []TurnsUseReadyApp
<1>1. AppInv => TurnsUseReadyApp
  BY DEF AppInv, FinishInv, TurnsUseReadyApp, BackgroundUsesOpen, TurnsAreWired
<1> QED BY <1>1, AppInvariant, PTL

\* The running App is whole and open; every other one is closed, is about to
\* be, or was left by a constructor that raised.
THEOREM OnlyHalfBuiltLeakTheorem == Spec => []OnlyHalfBuiltLeak
<1>1. AppInv => OnlyHalfBuiltLeak
  BY DEF AppInv
<1> QED BY <1>1, AppInvariant, PTL

-----------------------------------------------------------------------------
(* The file.                                                                  *)

\* Somebody will still build an App from the file, or has built it.
Coming ==
  \/ pc[Watcher] \in {"lock", "build"}
  \/ \E r \in Request : what[r] = "config" /\ pc[r] \in {"lock", "build"}
  \/ \E t \in Thread : pc[t] = "publish" /\ apps[Len(apps)] = file

ConfigInv ==
  /\ known <= file /\ stat <= file
  /\ known = file /\ text.makes = "ok" => apps[current] = file \/ missed \/ Coming

LEMMA ConfigInit == Init => ConfigInv
<1> SUFFICES ASSUME Init PROVE ConfigInv
  OBVIOUS
<1>1. known = 1 /\ stat = 0 /\ file = 1 /\ current = 1 /\ apps[1] = 1
  BY DEF Init, file
<1> QED BY <1>1 DEF ConfigInv

\* Steps of others leave what is coming on its way.
LEMMA ConfigFrame ==
  ASSUME ConfigInv, UNCHANGED <<text, known, stat, missed, apps, current>>,
         NEW t \in Thread, \A u \in Thread : u # t => pc'[u] = pc[u],
         \A r \in Request : r # t => what'[r] = what[r],
         t = Watcher => (pc[t] \in {"lock", "build"} => pc'[t] \in {"lock", "build"}),
         t \in Request => (what[t] = "config" /\ pc[t] \in {"lock", "build"}
                             => what'[t] = "config" /\ pc'[t] \in {"lock", "build"}),
         pc[t] # "publish"
  PROVE  ConfigInv'
<1>1. file' = file
  BY DEF file
<1>2. Coming => Coming'
  BY <1>1, Threads DEF Coming
<1> QED BY <1>1, <1>2 DEF ConfigInv

LEMMA ConfigStep ==
  ASSUME StageInv, Serialized, AppInv, ConfigInv, [Next]_vars
  PROVE  ConfigInv'
<1> USE DEF requests, instances, config, vars
<1>t. /\ pc \in [Thread -> Stage] /\ what \in [Request -> What \cup {"none"}]
      /\ apps \in Seq(Int) /\ current \in 1..Len(apps) /\ Len(apps) \in Nat /\ file \in Nat
      /\ known \in Nat /\ stat \in Nat
  BY DEF StageInv, TypeOK, file
<1>1. ASSUME NEW r \in Request, NEW w \in What, Connect(r, w) PROVE ConfigInv'
  <2>1. /\ pc[r] = "new" /\ \A u \in Thread : u # r => pc'[u] = pc[u]
        /\ \A u \in Request : u # r => what'[u] = what[u]
        /\ UNCHANGED <<text, known, stat, missed, apps, current>>
    BY <1>t, <1>1, Threads DEF Connect, Goes
  <2> QED BY <2>1, ConfigFrame, Threads
<1>2. ASSUME NEW r \in Request,
             Accept(r) \/ AcceptFails(r) \/ Capture(r) \/ BodyFails(r) \/ Dispatch(r) \/ UseApp(r)
             \/ Resolve(r) \/ Reply(r) \/ WriteFails(r)
      PROVE  ConfigInv'
  <2>1. /\ pc[r] \notin {"lock", "build", "publish"}
        /\ UNCHANGED <<text, known, stat, missed, apps, current>>
    BY <1>2 DEF Accept, AcceptFails, Capture, BodyFails, Dispatch, UseApp, Resolve, Reply,
       WriteFails
  <2>2. \A u \in Thread : u # r => pc'[u] = pc[u]
    BY <1>t, <1>2, Threads DEF Accept, AcceptFails, Capture, BodyFails, Dispatch, UseApp, Resolve,
       Reply, WriteFails, Goes
  <2>3. \A u \in Request : u # r => what'[u] = what[u]
    BY <1>t, <1>2 DEF Accept, AcceptFails, Capture, BodyFails, Dispatch, UseApp, Resolve, Reply,
       WriteFails
  <2> QED BY <2>1, <2>2, <2>3, ConfigFrame, Threads
<1>3. ASSUME NEW o \in Outcomes,
             Edit(o) \/ \E r \in Request : WriteHalf(r, o) \/ WriteConfig(r, o)
      PROVE  ConfigInv'
  <2>1. file' = file + 1 /\ known' = known /\ stat' = stat
    BY <1>3 DEF Edit, WriteHalf, WriteConfig, Written, file
  <2> QED BY <1>t, <2>1 DEF ConfigInv
<1>4. ASSUME NEW b \in Background, Wake(b) PROVE ConfigInv'
  <2>1. /\ pc[b] = "idle" /\ \A u \in Thread : u # b => pc'[u] = pc[u] /\ what' = what
        /\ UNCHANGED <<text, known, stat, missed, apps, current>>
    BY <1>t, <1>4, Threads DEF Wake, Goes
  <2> QED BY <2>1, ConfigFrame, Threads
<1>5. CASE Stat
  <2>1. /\ pc[Watcher] = "idle" /\ \A u \in Thread : u # Watcher => pc'[u] = pc[u]
        /\ UNCHANGED <<text, known, missed, apps, current, what>> /\ stat' = file /\ file' = file
    BY <1>t, <1>5, Threads DEF Stat, Goes, file
  <2>2. Coming => Coming'
    BY <2>1, Threads DEF Coming
  <2> QED BY <1>t, <2>1, <2>2 DEF ConfigInv
<1>6. CASE NoteMtime
  <2>1. pc'[Watcher] = "lock" /\ known' = stat /\ stat' = 0 /\ file' = file
    BY <1>t, <1>6, Threads DEF NoteMtime, Goes, file
  <2> QED BY <1>t, <2>1 DEF ConfigInv, Coming
<1>7. ASSUME NEW t \in Thread, BeginTurn(t) PROVE ConfigInv'
  <2>1. /\ pc[t] = "lock" /\ Chats(t) /\ \A u \in Thread : u # t => pc'[u] = pc[u]
        /\ UNCHANGED <<text, known, stat, missed, apps, current, what>>
    BY <1>t, <1>7 DEF BeginTurn, Goes
  <2> QED BY <2>1, ConfigFrame, Threads DEF Chats
<1>8. ASSUME NEW t \in Thread, BeginSwap(t) PROVE ConfigInv'
  <2>1. /\ pc[t] = "lock" /\ pc'[t] = "build" /\ \A u \in Thread : u # t => pc'[u] = pc[u]
        /\ UNCHANGED <<text, known, stat, missed, apps, current, what>>
    BY <1>t, <1>8 DEF BeginSwap, Goes
  <2> QED BY <2>1, ConfigFrame, Threads
<1>9. ASSUME NEW t \in Thread, Ask(t) \/ AskEnds(t) \/ TurnEnds(t) \/ Wire(t) PROVE ConfigInv'
  <2>1. /\ pc[t] \in {"turn", "ask", "told", "wire"} /\ \A u \in Thread : u # t => pc'[u] = pc[u]
        /\ UNCHANGED <<text, known, stat, missed, apps, current, what>>
    BY <1>t, <1>9 DEF Ask, AskEnds, TurnEnds, Wire, Goes
  <2> QED BY <2>1, ConfigFrame, Threads
<1>10. ASSUME NEW t \in Thread, Refuse(t) PROVE ConfigInv'
  <2>1. text.makes # "ok" /\ UNCHANGED <<text, known, stat>> /\ file' = file
    BY <1>10 DEF Refuse, file
  <2> QED BY <2>1 DEF ConfigInv
<1>11. ASSUME NEW t \in Thread, Build(t) PROVE ConfigInv'
  <2>1. /\ pc'[t] = "publish" /\ UNCHANGED <<text, known, stat>> /\ file' = file
        /\ apps' = Append(apps, file)
    BY <1>t, <1>11 DEF Build, Goes, file
  <2>2. apps'[Len(apps')] = file'
    BY <1>t, <2>1
  <2> QED BY <2>1, <2>2 DEF ConfigInv, Coming
<1>12. ASSUME NEW t \in Thread, Publish(t) PROVE ConfigInv'
  <2>1. /\ pc[t] = "publish" /\ current' = Len(apps) /\ UNCHANGED <<text, known, stat, missed>>
        /\ apps' = apps /\ what' = what /\ file' = file
        /\ \A u \in Thread : u # t => pc'[u] = pc[u]
    BY <1>t, <1>12 DEF Publish, Goes, file
  <2>2. apps[current] <= apps[Len(apps)] /\ apps[Len(apps)] <= file
    BY <1>t, <2>1 DEF AppInv, OpenInv
  <2>3. apps[current] = file => apps'[current'] = file'
    BY <1>t, <2>1, <2>2
  <2>4. Coming => Coming' \/ apps'[current'] = file'
    BY <2>1, Threads DEF Coming
  <2> QED BY <2>1, <2>3, <2>4 DEF ConfigInv
<1>13. ASSUME NEW t \in Thread, CloseOld(t) PROVE ConfigInv'
  <2>1. /\ pc[t] = "close" /\ UNCHANGED <<text, known, stat, missed, current, what>>
        /\ apps' = [apps EXCEPT ![seen[t]] = Closed] /\ file' = file
        /\ \A u \in Thread : u # t => pc'[u] = pc[u]
    BY <1>t, <1>13 DEF CloseOld, Goes, file
  <2>2. current = Len(apps) /\ seen[t] \in 1..Len(apps) - 1
    BY <2>1 DEF AppInv, OpenInv
  <2>3. apps'[current] = apps[current] /\ Len(apps') = Len(apps)
    BY <1>t, <2>1, <2>2, AppsClose
  <2>4. Coming => Coming'
    BY <2>1, <2>2, <2>3, Threads DEF Coming
  <2> QED BY <2>1, <2>3, <2>4 DEF ConfigInv
<1>14. ASSUME NEW t \in Thread, SetMtime(t) PROVE ConfigInv'
  <2>1. t \in Request
    BY <1>14, Threads DEF SetMtime, StageInv, OthersInv, InSwap, InTurn, Thread
  <2>2. /\ known' = file /\ UNCHANGED <<text, stat, apps, current>> /\ file' = file
        /\ apps[current] # file => missed'
    BY <1>14, <2>1 DEF SetMtime, file
  <2> QED BY <1>t, <2>2 DEF ConfigInv
<1>15. CASE UNCHANGED vars
  <2>1. file' = file /\ (Coming => Coming')
    BY <1>15 DEF file, Coming
  <2> QED BY <1>15, <2>1 DEF ConfigInv
<1> QED BY <1>1, <1>2, <1>3, <1>4, <1>5, <1>6, <1>7, <1>8, <1>9, <1>10, <1>11, <1>12, <1>13,
           <1>14, <1>15 DEF Next, Handler, Holder

\* When nobody is at it any more, the running App is the file's, unless that
\* cannot be applied or a handler noted it without having built it.
THEOREM ConfigAppliedTheorem == Spec => []ConfigApplied
<1>1. ASSUME StageInv, ConfigInv PROVE ConfigApplied
  <2>1. SUFFICES ASSUME pc[Watcher] = "idle", known = file, text.makes = "ok",
                        \A r \in Request : what[r] = "config" =>
                          pc[r] \in {"new", "queued", "accepted", "body", "reply", "done"}
                 PROVE  apps[current] = file \/ missed
    BY DEF ConfigApplied
  <2>2. \A t \in Thread : pc[t] # "publish"
    BY <1>1, <2>1 DEF StageInv, RequestInv, OthersInv, InSwap, InTurn, Thread
  <2>3. ~Coming
    BY <2>1, <2>2 DEF Coming
  <2> QED BY <1>1, <2>1, <2>3 DEF ConfigInv
<1>2. ConfigInv /\ (StageInv /\ Serialized /\ AppInv) /\ [Next]_vars => ConfigInv'
  BY ConfigStep
<1> QED BY <1>1, <1>2, ConfigInit, AppInvariant, PTL DEF Spec

-----------------------------------------------------------------------------
(* Why everybody is served: slots come back, a lock that is held is held by   *)
(* somebody who is going to release it, and no request comes back to a stage. *)
(* The fairness conditions of FairSpec quantify over the requests inside one  *)
(* condition, which is as strong as one for each request because of this.     *)

Outside == {"new", "queued", "done"}
Holding == {"turn", "ask", "told", "build", "publish", "wire", "close"}
Handled == {r \in Request : pc[r] \notin Outside}

\* The semaphore counts the connections between accept and the end of their
\* thread, whichever way the handler is left: no slot is lost or given twice.
SlotsAccounted == free = Slots - Cardinality(Handled) /\ free >= 0

\* chat_lock is held only by a thread in a turn or a swap.
LockHeld == lock # None => pc[lock] \in Holding

ServeInv == SlotsAccounted /\ LockHeld

\* Stages further on have a smaller rank.
Rank(s) ==
  CASE s = "new" -> 13 [] s = "queued" -> 12 [] s = "accepted" -> 11 [] s = "body" -> 10
    [] s \in {"use", "resolve", "write"} -> 9 [] s = "writing" -> 8 [] s = "lock" -> 7
    [] s \in {"turn", "build"} -> 6 [] s \in {"ask", "publish"} -> 5
    [] s \in {"told", "wire"} -> 4 [] s = "close" -> 3 [] s = "mtime" -> 2
    [] s = "reply" -> 1 [] OTHER -> 0

GoesOn == \A r \in Request : pc'[r] = pc[r] \/ Rank(pc'[r]) < Rank(pc[r])

LEMMA ServeInit == Init => ServeInv
<1> SUFFICES ASSUME Init PROVE ServeInv
  OBVIOUS
<1>1. Handled = {}
  BY Threads DEF Init, Handled, Outside
<1>2. Slots \in Nat /\ Cardinality({}) = 0
  BY ServerAssumption, FS_EmptySet
<1> QED BY <1>1, <1>2 DEF Init, ServeInv, SlotsAccounted, LockHeld

LEMMA HandledFinite == IsFiniteSet(Handled) /\ Cardinality(Handled) \in Nat
<1>1. IsFiniteSet(Handled)
  BY ServerAssumption, FS_Subset DEF Handled
<1> QED BY <1>1, FS_CardinalityType

\* One thread moves on; it may take the lock or release it.
LEMMA MovesOn ==
  ASSUME TypeOK, ServeInv, NEW t \in Thread, NEW to \in Stage, Goes(t, to), free' = free,
         t \in Request => Rank(to) < Rank(pc[t]) /\ (pc[t] \in Outside <=> to \in Outside),
         \/ lock' = lock /\ (pc[t] \in Holding => to \in Holding)
         \/ lock' = t /\ to \in Holding
         \/ lock' = None
  PROVE  ServeInv' /\ GoesOn
<1>1. /\ pc'[t] = to
      /\ \A u \in Thread : u # t => pc'[u] = pc[u]
  BY GoesTo
<1>2. GoesOn
  BY <1>1, Threads DEF GoesOn
<1>3. Handled' = Handled
  BY <1>1, Threads DEF Handled
<1>4. LockHeld'
  BY <1>1 DEF ServeInv, LockHeld, TypeOK
<1> QED BY <1>2, <1>3, <1>4 DEF ServeInv, SlotsAccounted

LEMMA AcceptServes == ASSUME TypeOK, ServeInv, NEW r \in Request, Accept(r) PROVE ServeInv' /\ GoesOn
<1>1. /\ pc[r] = "queued" /\ pc'[r] = "accepted"
      /\ \A u \in Thread : u # r => pc'[u] = pc[u]
  BY GoesTo, Threads DEF Accept, Stage
<1>2. r \notin Handled /\ Handled' = Handled \cup {r}
  BY <1>1, Threads DEF Handled, Outside
<1>3. Cardinality(Handled') = Cardinality(Handled) + 1
  BY <1>2, HandledFinite, FS_AddElement
<1>4. free' = free - 1 /\ free > 0 /\ free \in Int /\ Slots \in Nat
  BY ServerAssumption DEF Accept, SlotFree, TypeOK
<1>5. SlotsAccounted'
  BY <1>3, <1>4, HandledFinite DEF ServeInv, SlotsAccounted
<1>6. LockHeld'
  <2>1. lock' = lock /\ (lock # None => lock \in Thread /\ lock # r)
    BY <1>1 DEF Accept, ServeInv, LockHeld, Holding, TypeOK
  <2> QED BY <1>1, <2>1 DEF ServeInv, LockHeld
<1>7. GoesOn
  BY <1>1, Threads DEF GoesOn, Rank
<1> QED BY <1>5, <1>6, <1>7 DEF ServeInv

LEMMA ReplyServes == ASSUME TypeOK, ServeInv, NEW r \in Request, Reply(r) PROVE ServeInv' /\ GoesOn
<1>1. /\ pc[r] = "reply" /\ pc'[r] = "done"
      /\ \A u \in Thread : u # r => pc'[u] = pc[u]
  BY GoesTo, Threads DEF Reply, Stage
<1>2. r \in Handled /\ Handled' = Handled \ {r}
  BY <1>1, Threads DEF Handled, Outside
<1>3. Cardinality(Handled') = Cardinality(Handled) - 1
  BY <1>2, HandledFinite, FS_RemoveElement
<1>4. free' = free + 1 /\ free \in Int /\ Slots \in Nat
  BY ServerAssumption DEF Reply, TypeOK
<1>5. SlotsAccounted'
  BY <1>3, <1>4, HandledFinite DEF ServeInv, SlotsAccounted
<1>6. LockHeld'
  <2>1. lock' = lock /\ (lock # None => lock \in Thread /\ lock # r)
    BY <1>1 DEF Reply, ServeInv, LockHeld, Holding, TypeOK
  <2> QED BY <1>1, <2>1 DEF ServeInv, LockHeld
<1>7. GoesOn
  BY <1>1, Threads DEF GoesOn, Rank
<1> QED BY <1>5, <1>6, <1>7 DEF ServeInv

LEMMA ServeStep ==
  ASSUME StageInv, ServeInv, [Next]_vars
  PROVE  ServeInv' /\ GoesOn
<1> USE Threads DEF requests, instances, config, vars
<1>t. TypeOK /\ OthersInv /\ \A r \in Request : r \in Thread
  BY Threads DEF StageInv
<1>1. ASSUME NEW r \in Request, (\E w \in What : Connect(r, w)) \/ AcceptFails(r)
      PROVE  ServeInv' /\ GoesOn
  <2>1. PICK to \in {"queued", "done"} :
          /\ pc[r] \in {"new", "queued"} /\ (to = "queued" => pc[r] = "new")
          /\ Goes(r, to) /\ free' = free /\ lock' = lock
    BY <1>1 DEF Connect, AcceptFails
  <2>2. to \in Stage /\ Rank(to) < Rank(pc[r])
    BY <2>1 DEF Stage, Rank
  <2> QED BY <1>t, <2>1, <2>2, MovesOn DEF Outside, Holding
<1>2. ASSUME NEW r \in Request, Accept(r) PROVE ServeInv' /\ GoesOn
  BY <1>t, <1>2, AcceptServes
<1>3. ASSUME NEW r \in Request, Handler(r) PROVE ServeInv' /\ GoesOn
  <2>1. CASE Reply(r)
    BY <1>t, <2>1, ReplyServes
  <2>2. CASE ~Reply(r)
    <3>1. PICK to \in {"body", "lock", "write", "writing", "resolve", "use", "reply"} :
            /\ Goes(r, to) /\ free' = free /\ lock' = lock
            /\ \/ pc[r] = "accepted" /\ to = "body"
               \/ pc[r] = "body" /\ to \in {"reply", "lock", "write", "resolve", "use"}
               \/ pc[r] \in {"use", "resolve", "write", "writing"} /\ to = "reply"
               \/ pc[r] = "write" /\ to = "writing"
               \/ pc[r] = "writing" /\ to = "lock"
      <4>1. CASE Capture(r) \/ BodyFails(r) \/ UseApp(r) \/ Resolve(r) \/ WriteFails(r)
        BY <4>1 DEF Capture, BodyFails, UseApp, Resolve, WriteFails
      <4>2. CASE Dispatch(r)
        <5>1. what[r] \in {"chat", "config", "approve", "use"}
          BY <4>2 DEF StageInv, RequestInv, Dispatch
        <5> QED BY <4>2, <5>1 DEF Dispatch
      <4>3. CASE \E outcome \in Outcomes : WriteHalf(r, outcome) \/ WriteConfig(r, outcome)
        BY <4>3 DEF WriteHalf, WriteConfig
      <4> QED BY <1>3, <2>2, <4>1, <4>2, <4>3 DEF Handler
    <3>2. to \in Stage /\ Rank(to) < Rank(pc[r])
      BY <3>1 DEF Stage, Rank
    <3>3. pc[r] \notin Outside /\ to \notin Outside /\ pc[r] \notin Holding
      BY <3>1 DEF Outside, Holding
    <3> QED BY <1>t, <3>1, <3>2, <3>3, MovesOn
  <2> QED BY <2>1, <2>2
<1>4. ASSUME NEW t \in Thread, BeginTurn(t) \/ BeginSwap(t) PROVE ServeInv' /\ GoesOn
  <2>1. PICK to \in {"turn", "build"} : pc[t] = "lock" /\ Goes(t, to) /\ free' = free /\ lock' = t
    BY <1>4 DEF BeginTurn, BeginSwap
  <2>2. to \in Stage /\ Rank(to) < Rank(pc[t]) /\ to \in Holding
    BY <2>1 DEF Stage, Rank, Holding
  <2>3. pc[t] \notin Outside /\ to \notin Outside
    BY <2>1 DEF Outside
  <2> QED BY <1>t, <2>1, <2>2, <2>3, MovesOn
<1>5. ASSUME NEW t \in Thread, Holder(t) PROVE ServeInv' /\ GoesOn
  <2>1. CASE Ask(t) \/ AskEnds(t) \/ Build(t) \/ Publish(t) \/ Wire(t)
    <3>1. PICK to \in {"ask", "told", "publish", "wire", "close"} :
            /\ Goes(t, to) /\ free' = free /\ lock' = lock
            /\ \/ pc[t] = "turn" /\ to = "ask"
               \/ pc[t] = "ask" /\ to = "told"
               \/ pc[t] = "build" /\ to = "publish"
               \/ pc[t] = "publish" /\ to = "wire"
               \/ pc[t] = "wire" /\ to = "close"
      BY <2>1 DEF Ask, AskEnds, Build, Publish, Wire
    <3>2. to \in Stage /\ Rank(to) < Rank(pc[t]) /\ to \in Holding
      BY <3>1 DEF Stage, Rank, Holding
    <3>3. pc[t] \notin Outside /\ to \notin Outside
      BY <3>1 DEF Outside
    <3> QED BY <1>t, <3>1, <3>2, <3>3, MovesOn
  <2>2. CASE TurnEnds(t) \/ Refuse(t) \/ CloseOld(t)
    <3>1. PICK to \in {"reply", "idle", "mtime"} :
            /\ Goes(t, to) /\ free' = free /\ lock' = None
            /\ pc[t] \in {"turn", "told", "build", "close"}
            /\ t \in Request => to # "idle"
      BY <2>2 DEF TurnEnds, Refuse, CloseOld, AfterSwap
    <3>2. to \in Stage /\ (t \in Request => Rank(to) < Rank(pc[t]))
      BY <3>1 DEF Stage, Rank
    <3>3. pc[t] \notin Outside /\ to \notin Outside
      BY <3>1 DEF Outside
    <3> QED BY <1>t, <3>1, <3>2, <3>3, MovesOn
  <2> QED BY <1>5, <2>1, <2>2 DEF Holder
<1>6. ASSUME NEW t \in Thread, SetMtime(t) PROVE ServeInv' /\ GoesOn
  <2>1. PICK to \in {"reply", "idle"} :
          /\ Goes(t, to) /\ free' = free /\ lock' = lock /\ pc[t] = "mtime"
          /\ t \in Request => to # "idle"
    BY <1>6 DEF SetMtime
  <2>2. to \in Stage /\ (t \in Request => Rank(to) < Rank(pc[t]))
    BY <2>1 DEF Stage, Rank
  <2>3. pc[t] \notin Outside /\ to \notin Outside /\ pc[t] \notin Holding
    BY <2>1 DEF Outside, Holding
  <2> QED BY <1>t, <2>1, <2>2, <2>3, MovesOn
<1>7. ASSUME NEW t \in Background \cup {Watcher}, Wake(t) \/ (t = Watcher /\ (Stat \/ NoteMtime))
      PROVE  ServeInv' /\ GoesOn
  <2>1. PICK to \in {"lock", "noted"} :
          Goes(t, to) /\ free' = free /\ lock' = lock /\ pc[t] \in {"idle", "noted"}
    BY <1>7 DEF Wake, Stat, NoteMtime
  <2>2. to \in Stage /\ pc[t] \notin Holding /\ t \in Thread /\ t \notin Request
    BY <2>1 DEF Stage, Holding
  <2> QED BY <1>t, <2>1, <2>2, MovesOn
<1>8. ASSUME (\E outcome \in Outcomes : Edit(outcome)) \/ UNCHANGED vars PROVE ServeInv' /\ GoesOn
  <2>1. pc' = pc /\ free' = free /\ lock' = lock
    BY <1>8 DEF Edit
  <2> QED BY <2>1 DEF ServeInv, SlotsAccounted, LockHeld, Handled, GoesOn
<1> QED BY <1>1, <1>2, <1>3, <1>4, <1>5, <1>6, <1>7, <1>8 DEF Next

LEMMA ServeInvariant == Spec => [](StageInv /\ ServeInv) /\ [][GoesOn]_vars
<1>1. StageInv /\ ServeInv /\ [Next]_vars => (StageInv /\ ServeInv)' /\ [GoesOn]_vars
  BY StageStep, ServeStep
<1> QED BY <1>1, StageInit, ServeInit, PTL DEF Spec

\* BoundedSemaphore in process_request and process_request_thread: a thread that
\* cannot be started and a handler that fails included, a slot is given back once.
THEOREM SlotsAccountedTheorem == Spec => []SlotsAccounted
BY ServeInvariant, PTL DEF ServeInv

\* chat_lock: who holds it is at work under it and waits for nobody but the
\* operator, never for a slot or a second lock; every way out of a turn, of a
\* refused configuration and of a swap has released it.
THEOREM LockHeldTheorem == Spec => []LockHeld
BY ServeInvariant, PTL DEF ServeInv

\* A request passes each of its stages once at most, whoever else takes steps.
RequestsGoOn == [][GoesOn]_vars

THEOREM RequestsGoOnTheorem == Spec => RequestsGoOn
BY ServeInvariant, PTL DEF RequestsGoOn

=============================================================================
