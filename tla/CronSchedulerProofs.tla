----------------------- MODULE CronSchedulerProofs -----------------------
(***************************************************************************)
(* For every set of jobs, clock and number of definitions, triggers and    *)
(* faults: a one-shot definition starts at most once more than it was      *)
(* triggered (AtMostOnce), a row is marked running only by the run in      *)
(* progress or by a fault (StuckOnlyByFault), and a deleted job does not   *)
(* start (DeletedNotStarted).                                              *)
(***************************************************************************)
EXTENDS CronScheduler, FiniteSetTheorems, SequenceTheorems, TLAPS

-----------------------------------------------------------------------------
(* The inductive invariant.                                                *)

Busy == pc \in {"mark", "chat", "finish"}

\* Places of the list whose job has not been started from it.
Listed == {n \in DOMAIN due : pc = "mark" \/ (pc \in {"chat", "finish"} /\ n > 1)}

\* A row carries the last definition of its id.
Numbered == \A j \in Job : Exists(j) => rows[j].gen \in Gen /\ rows[j].gen = gens[j]

\* The list names each job once, with a definition it had or still has.
ListInv == Busy =>
  /\ \A m, n \in DOMAIN due : due[m].id = due[n].id => m = n
  /\ \A n \in DOMAIN due :
       /\ due[n].gen <= gens[due[n].id]
       /\ Exists(due[n].id) /\ due[n].gen = gens[due[n].id] => due[n].kind = rows[due[n].id].kind

\* The one-shot definition of a row has used its runs up.
Spent(j) == Exists(j) /\ rows[j].kind = "at" /\ starts[j] > triggers[j]

\* Then it is not due, it is on no list, and a run that finishes is its own.
SpentInv == \A j \in Job : Spent(j) =>
  /\ rows[j].next = Never \/ rows[j].running
  /\ \A n \in Listed : due[n].id # j
  /\ WorkingOn(j) => Head(due).gen = gens[j]

OnceInv == ListInv /\ SpentInv /\ AtMostOnce

-----------------------------------------------------------------------------
LEMMA NoRowType == NoRow \in Row
BY CronAssumption DEF NoRow, Row

LEMMA InitType == Init => TypeOK /\ Numbered
<1> SUFFICES ASSUME Init PROVE TypeOK /\ Numbered
  OBVIOUS
<1>1. rows \in [Job -> Row] /\ \A j \in Job : rows[j] = NoRow
  BY NoRowType DEF Init
<1>2. due \in Seq(Entry)
  BY DEF Init
<1>3. \A j \in Job : rows[j].gen <= gens[j]
  BY <1>1 DEF Init, NoRow
<1>4. TypeOK
  BY <1>1, <1>2, <1>3, CronAssumption DEF Init, TypeOK
<1>. QED BY <1>1, <1>4 DEF Numbered, Exists

\* Moving on in the list.
LEMMA NextEntryType ==
  ASSUME TypeOK, pc \in {"mark", "finish"}, NextEntry
  PROVE  /\ due' \in Seq(Entry) /\ pc' \in {"wait", "mark"}
         /\ pc' = "mark" => due' # <<>>
         /\ \A n \in DOMAIN due' : n + 1 \in DOMAIN due /\ due'[n] = due[n + 1] /\ n + 1 > 1
<1>1. due \in Seq(Entry) /\ due # <<>>
  BY DEF TypeOK
<1>2. Len(due) \in Nat \ {0}
  BY <1>1
<1>3. Tail(due) \in Seq(Entry) /\ Len(Tail(due)) = Len(due) - 1
  BY <1>1
<1>4. \A n \in 1..Len(Tail(due)) : Tail(due)[n] = due[n + 1]
  BY <1>1
<1>5. Len(due) # 1 => Tail(due) # <<>>
  <2>1. Len(due) # 1 => Len(Tail(due)) # 0
    BY <1>2, <1>3
  <2>2. Tail(due) = <<>> <=> Len(Tail(due)) = 0
    BY <1>3, EmptySeq, Zenon
  <2>. QED BY <2>1, <2>2
<1>6. DOMAIN due = 1..Len(due) /\ DOMAIN Tail(due) = 1..Len(Tail(due))
  BY <1>1, <1>3
<1>. QED BY <1>1, <1>2, <1>3, <1>4, <1>5, <1>6 DEF NextEntry

\* The entry in work.
LEMMA HeadType ==
  ASSUME TypeOK, Busy
  PROVE  /\ due # <<>> /\ 1 \in DOMAIN due /\ Head(due) = due[1]
         /\ Head(due) \in Entry /\ Head(due).id \in Job /\ Head(due).gen \in Gen
<1>1. due \in Seq(Entry) /\ due # <<>>
  BY DEF TypeOK, Busy
<1>2. Len(due) \in Nat \ {0} /\ DOMAIN due = 1..Len(due)
  BY <1>1
<1>3. Head(due) = due[1] /\ due[1] \in Entry
  BY <1>1, <1>2
<1>. QED BY <1>1, <1>2, <1>3 DEF Entry

\* The list a tick reads.
LEMMA ReadDueList ==
  ASSUME TypeOK, Numbered, ReadDue
  PROVE  /\ due' \in Seq(Entry)
         /\ pc' \in {"wait", "mark"}
         /\ pc' = "mark" => due' # <<>>
         /\ \A m, n \in DOMAIN due' : due'[m].id = due'[n].id => m = n
         /\ \A n \in DOMAIN due' :
              /\ due'[n].id \in Job /\ IsDue(due'[n].id)
              /\ due'[n].gen = rows[due'[n].id].gen /\ due'[n].kind = rows[due'[n].id].kind
<1> DEFINE D == {j \in Job : IsDue(j)}
<1>1. Cardinality(D) \in Nat
  BY CronAssumption, FS_Subset, FS_CardinalityType
<1>2. PICK order \in [1..Cardinality(D) -> D] :
        /\ \A j \in Job : IsDue(j) => \E n \in DOMAIN order : order[n] = j
        /\ \A m, n \in DOMAIN order : order[m] = order[n] => m = n
        /\ due' = [n \in DOMAIN order |->
             [id |-> order[n], gen |-> rows[order[n]].gen, kind |-> rows[order[n]].kind]]
  BY DEF ReadDue
<1>3. \A j \in D : rows[j] \in Row /\ rows[j].gen \in Gen
  BY DEF TypeOK, Numbered, IsDue
<1>4. \A n \in 1..Cardinality(D) : order[n] \in D
  OBVIOUS
<1>5. \A n \in 1..Cardinality(D) :
        [id |-> order[n], gen |-> rows[order[n]].gen, kind |-> rows[order[n]].kind] \in Entry
  BY <1>3, <1>4 DEF Entry, Row
<1>6. due' \in [1..Cardinality(D) -> Entry]
  BY <1>2, <1>5
<1>7. due' \in Seq(Entry) /\ DOMAIN due' = 1..Cardinality(D)
  BY <1>1, <1>6, SeqDef
<1>8. \A n \in DOMAIN due' : due'[n].id = order[n] /\ due'[n].gen = rows[order[n]].gen
                             /\ due'[n].kind = rows[order[n]].kind
  BY <1>2, <1>7
<1>9. pc' = "mark" => due' # <<>>
  <2>1. SUFFICES ASSUME pc' = "mark" PROVE due' # <<>>
    OBVIOUS
  <2>2. PICK j \in Job : IsDue(j)
    BY <2>1 DEF ReadDue
  <2>3. PICK n \in DOMAIN order : order[n] = j
    BY <1>2, <2>2
  <2>4. n \in DOMAIN due'
    BY <1>2, <1>7
  <2>5. Len(due') \in Nat /\ DOMAIN due' = 1..Len(due')
    BY <1>7
  <2>6. Len(due') # 0
    BY <2>4, <2>5
  <2>. QED BY <2>6, <1>7, EmptySeq, Zenon
<1>10. pc' \in {"wait", "mark"}
  BY DEF ReadDue
<1>. QED BY <1>2, <1>4, <1>7, <1>8, <1>9, <1>10

-----------------------------------------------------------------------------
LEMMA TypeStep == TypeOK /\ Numbered /\ [Next]_vars => TypeOK' /\ Numbered'
<1> SUFFICES ASSUME TypeOK, Numbered, [Next]_vars PROVE TypeOK' /\ Numbered'
  OBVIOUS
<1>t. TypeOK
  OBVIOUS
<1>g. MaxGen \in Nat /\ MaxFaults \in Nat /\ MaxTime \in Nat /\ Period \in Nat
  BY CronAssumption
<1>r. \A j \in Job : /\ rows[j] \in Row /\ rows[j].gen \in 0..MaxGen
                     /\ gens[j] \in 0..MaxGen
  BY DEF TypeOK, Row
<1>1. ASSUME NEW j \in Job, NEW kind \in Kinds, NEW next \in InitialNext(kind), Add(j, kind, next)
      PROVE  TypeOK' /\ Numbered'
  <2>1. next \in Nat /\ kind \in {"at", "every"}
    BY <1>t, <1>g, CronAssumption DEF TypeOK, InitialNext
  <2>2. gens[j] + 1 \in Gen
    BY <1>1, <1>r, <1>g DEF Add, Gen
  <2> DEFINE row == [gen |-> gens[j] + 1, kind |-> kind, next |-> next,
                     running |-> FALSE]
  <2>3. row \in Row
    BY <2>1, <2>2 DEF Row, Gen
  <2>4. rows' = [rows EXCEPT ![j] = row] /\ gens' = [gens EXCEPT ![j] = gens[j] + 1]
    BY <1>1 DEF Add
  <2>5. rows' \in [Job -> Row] /\ gens' \in [Job -> 0..MaxGen]
    BY <2>2, <2>3, <2>4, <1>t DEF TypeOK, Gen
  <2>6. \A i \in Job : rows'[i].gen <= gens'[i]
    BY <2>2, <2>4, <1>t, <1>r DEF TypeOK, Gen
  <2>7. Numbered'
    BY <2>2, <2>4, <1>t DEF TypeOK, Numbered, Exists
  <2>8. stranded' \subseteq Job
    BY <1>1, <1>t DEF Add, TypeOK
  <2>9. UNCHANGED <<now, pc, due, faults>>
        /\ starts' \in [Job -> Nat] /\ triggers' \in [Job -> Nat]
    BY <1>1, <1>t DEF Add, thread, TypeOK
  <2>. QED BY <1>t, <2>5, <2>6, <2>7, <2>8, <2>9 DEF TypeOK
<1>2. ASSUME NEW j \in Job, Trigger(j) PROVE TypeOK' /\ Numbered'
  <2>1. rows[j].gen \in Gen
    BY <1>2 DEF Trigger, Numbered
  <2>2. rows' = [rows EXCEPT ![j] = [rows[j] EXCEPT !.next = 0, !.running = FALSE]]
    BY <1>2 DEF Trigger
  <2>3. [rows[j] EXCEPT !.next = 0, !.running = FALSE] \in Row
    BY <1>r DEF Row
  <2>4. rows' \in [Job -> Row] /\ \A i \in Job : rows'[i].gen = rows[i].gen
    BY <2>2, <2>3, <1>t, <1>r DEF TypeOK, Row
  <2>5. triggers' \in [Job -> Nat]
    BY <1>2, <2>1, <1>t DEF Trigger, TypeOK
  <2>6. Numbered'
    <3>1. gens' = gens /\ rows[j].gen = gens[j]
      BY <1>2 DEF Trigger, Numbered
    <3>2. ASSUME NEW i \in Job, Exists(i)' PROVE rows'[i].gen \in Gen /\ rows'[i].gen = gens'[i]
      <4>1. CASE i = j
        BY <4>1, <2>1, <2>4, <3>1
      <4>2. CASE i # j
        BY <4>2, <2>2, <3>1, <3>2, <1>t DEF TypeOK, Numbered, Exists
      <4>. QED BY <4>1, <4>2
    <3>. QED BY <3>2 DEF Numbered
  <2>7. stranded' \subseteq Job /\ UNCHANGED <<now, pc, due, faults, gens, starts>>
    BY <1>2, <1>t DEF Trigger, TypeOK, thread
  <2>. QED BY <1>t, <2>4, <2>5, <2>6, <2>7 DEF TypeOK
<1>3. ASSUME NEW j \in Job, Delete(j) PROVE TypeOK' /\ Numbered'
  <2>1. rows' = [rows EXCEPT ![j] = NoRow] /\ gens' = gens
    BY <1>3 DEF Delete
  <2>3. rows' \in [Job -> Row]
    BY <2>1, <1>t, NoRowType DEF TypeOK
  <2>4. \A i \in Job : rows'[i].gen <= gens[i]
    BY <2>1, <1>t, <1>r DEF TypeOK, NoRow
  <2>5. Numbered'
    BY <2>1, <1>t DEF TypeOK, Numbered, Exists
  <2>2. stranded' \subseteq Job
        /\ UNCHANGED <<now, pc, due, faults, gens, starts, triggers>>
    BY <1>3, <1>t DEF Delete, TypeOK, thread
  <2>. QED BY <1>t, <2>2, <2>3, <2>4, <2>5 DEF TypeOK
<1>4. CASE ReadDue
  <2>1. UNCHANGED <<rows, now, faults, gens, starts, triggers, stranded>>
    BY <1>4 DEF ReadDue, past
  <2>. QED BY <1>4, <1>t, <2>1, ReadDueList DEF TypeOK, Numbered, Exists
<1>5. CASE MarkRunning
  <2> DEFINE e == Head(due)
  <2>1. due \in Seq(Entry) /\ due # <<>> /\ e \in Entry
    BY <1>5, <1>t DEF MarkRunning, TypeOK
  <2>2. e.id \in Job /\ e.gen \in Gen
    BY <2>1 DEF Entry
  <2>3. rows' = [rows EXCEPT ![e.id] = [rows[e.id] EXCEPT !.running = TRUE]]
    BY <1>5 DEF MarkRunning, CanMark
  <2>4. [rows[e.id] EXCEPT !.running = TRUE] \in Row
    BY <1>r, <2>2 DEF Row
  <2>5. rows' \in [Job -> Row] /\ \A i \in Job : rows'[i].gen = rows[i].gen
    BY <2>2, <2>3, <2>4, <1>t, <1>r DEF TypeOK, Row
  <2>6. Numbered'
    BY <2>2, <2>3, <2>5, <1>5, <1>t DEF TypeOK, Numbered, Exists, MarkRunning, CanMark
  <2>7. starts' \in [Job -> Nat]
    <3>1. starts' = starts \/ starts' = [starts EXCEPT ![e.id] = @ + 1]
      BY <1>5 DEF MarkRunning
    <3>2. starts \in [Job -> Nat] /\ starts[e.id] + 1 \in Nat
      BY <2>2, <1>t DEF TypeOK
    <3>3. [starts EXCEPT ![e.id] = starts[e.id] + 1] \in [Job -> Nat]
      BY <3>2
    <3>. QED BY <3>1, <3>2, <3>3
  <2>8. pc' = "chat" /\ UNCHANGED <<now, due, faults, gens, triggers, stranded>>
    BY <1>5, <1>t DEF MarkRunning, TypeOK
  <2>. QED BY <1>t, <2>1, <2>5, <2>6, <2>7, <2>8 DEF TypeOK
<1>6. CASE SkipOverlap
  <2>1. pc = "mark" /\ NextEntry /\ UNCHANGED <<rows, now, faults, gens, starts, triggers, stranded>>
    BY <1>6 DEF SkipOverlap, past
  <2>. QED BY <1>t, <2>1, NextEntryType DEF TypeOK, Numbered, Exists
<1>7. CASE ChatReturns \/ ChatRaises
  <2>1. pc = "chat" /\ pc' = "finish" /\ UNCHANGED <<rows, now, due, faults, gens, starts, triggers, stranded>>
    BY <1>7 DEF ChatReturns, ChatRaises, past
  <2>. QED BY <1>t, <2>1 DEF TypeOK, Numbered, Exists
<1>8. CASE Finish
  <2> DEFINE e == Head(due)
  <2>1. due \in Seq(Entry) /\ due # <<>> /\ e \in Entry
    BY <1>8, <1>t DEF Finish, TypeOK
  <2>2. e.id \in Job /\ e.gen \in 0..MaxGen
    BY <2>1, <1>g DEF Entry, Gen
  <2>3. pc = "finish" /\ NextEntry /\ UNCHANGED <<now, faults, gens, starts, triggers, stranded>>
    BY <1>8 DEF Finish, past
  <2>4. ComputeNext(e.kind) \in Nat \cup {Never}
    BY <1>g, <1>t DEF TypeOK, ComputeNext
  <2>5. [rows[e.id] EXCEPT !.running = FALSE, !.next = ComputeNext(e.kind)] \in Row
    BY <1>r, <2>2, <2>4 DEF Row
  <2>6. rows' \in [Job -> Row] /\ Numbered' /\ \A i \in Job : rows'[i].gen = rows[i].gen
    <3>1. CASE Exists(e.id)
      <4>1. rows' = [rows EXCEPT ![e.id] = [rows[e.id] EXCEPT !.running = FALSE,
                              !.next = ComputeNext(e.kind)]]
        BY <1>8, <3>1 DEF Finish
      <4>2. rows' \in [Job -> Row] /\ \A i \in Job : rows'[i].gen = rows[i].gen
        BY <2>2, <2>5, <4>1, <1>t, <1>r DEF TypeOK, Row
      <4>3. ASSUME NEW i \in Job, Exists(i)' PROVE rows'[i].gen \in Gen /\ rows'[i].gen = gens'[i]
        <5>1. CASE i = e.id
          BY <5>1, <3>1, <4>2, <2>2, <2>3 DEF Numbered
        <5>2. CASE i # e.id
          BY <5>2, <4>1, <4>3, <2>2, <2>3, <1>t DEF TypeOK, Numbered, Exists
        <5>. QED BY <5>1, <5>2
      <4>. QED BY <4>2, <4>3 DEF Numbered
    <3>2. CASE ~Exists(e.id)
      <4>1. rows' = rows
        BY <1>8, <3>2 DEF Finish
      <4>. QED BY <4>1, <2>3, <1>t DEF TypeOK, Numbered, Exists
    <3>. QED BY <3>1, <3>2
  <2>. QED BY <1>t, <2>3, <2>6, NextEntryType DEF TypeOK
<1>9. CASE StoreFails \/ Restart
  <2>1. faults' \in 0..MaxFaults
    BY <1>9, <1>t, <1>g DEF StoreFails, Restart, TypeOK
  <2>2. pc' \in {"wait", "dead"} /\ due' \in Seq(Entry)
        /\ UNCHANGED <<rows, now, gens, starts, triggers>>
    BY <1>9, <1>t, EmptySeq DEF StoreFails, Restart, TypeOK
  <2>3. pc \in {"chat", "finish"} => Head(due).id \in Job
    BY <1>t, HeadType DEF Busy
  <2>4. stranded' \subseteq Job
    BY <1>9, <1>t, <2>3 DEF StoreFails, Restart, TypeOK
  <2>. QED BY <1>t, <2>1, <2>2, <2>4 DEF TypeOK, Numbered, Exists
<1>10. CASE Tick
  <2>1. now' \in 0..MaxTime
    BY <1>10, <1>t, <1>g DEF Tick, TypeOK
  <2>2. UNCHANGED <<rows, pc, due, faults, gens, starts, triggers, stranded>>
    BY <1>10 DEF Tick, thread, past
  <2>. QED BY <1>t, <2>1, <2>2 DEF TypeOK, Numbered, Exists
<1>11. CASE UNCHANGED vars
  BY <1>t, <1>11 DEF TypeOK, Numbered, Exists, vars, thread, past
<1>. QED
  BY <1>1, <1>2, <1>3, <1>4, <1>5, <1>6, <1>7, <1>8, <1>9, <1>10, <1>11 DEF Next, Thread

LEMMA Types == Spec => [](TypeOK /\ Numbered)
BY InitType, TypeStep, PTL DEF Spec

\* The table, the list and the history keep their types.
THEOREM TypeCorrect == Spec => []TypeOK
BY Types, PTL

-----------------------------------------------------------------------------
(* The history and the list.                                               *)

LEMMA Entries == ASSUME TypeOK, NEW n \in DOMAIN due
                 PROVE  due[n] \in Entry /\ due[n].id \in Job /\ due[n].gen \in Gen /\ n \in Nat
<1>1. due \in Seq(Entry)
  BY DEF TypeOK
<1>2. DOMAIN due = 1..Len(due)
  BY <1>1
<1>3. due[n] \in Entry /\ n \in Nat
  BY <1>1, <1>2
<1>. QED BY <1>3 DEF Entry

\* Moving on keeps the list in order and adds nothing to what is still listed.
LEMMA Shift ==
  ASSUME TypeOK, ListInv, pc \in {"mark", "finish"}, NextEntry, gens' = gens,
         \A j \in Job : (Exists(j)' => Exists(j)) /\ rows'[j].kind = rows[j].kind
  PROVE  /\ ListInv'
         /\ \A n \in Listed' : n + 1 \in Listed /\ due'[n].id = due[n + 1].id
         /\ \A j \in Job : ~WorkingOn(j)'
<1>1. /\ pc' \in {"wait", "mark"}
      /\ \A n \in DOMAIN due' : n + 1 \in DOMAIN due /\ due'[n] = due[n + 1] /\ n + 1 > 1
  BY NextEntryType
<1>2. Busy
  BY DEF Busy
<1>3. due' \in Seq(Entry)
  BY NextEntryType
<1>4. \A n \in DOMAIN due' : n \in Nat
  BY <1>3
<1>5. \A m, n \in DOMAIN due' : due'[m].id = due'[n].id => m = n
  BY <1>1, <1>2, <1>4 DEF ListInv
<1>6. ASSUME NEW n \in DOMAIN due'
      PROVE  /\ due'[n].gen <= gens[due'[n].id]
             /\ rows'[due'[n].id] # NoRow /\ due'[n].gen = gens[due'[n].id]
                  => due'[n].kind = rows'[due'[n].id].kind
  <2>1. n + 1 \in DOMAIN due /\ due'[n] = due[n + 1]
    BY <1>1
  <2>2. due[n + 1].id \in Job
    BY <2>1, Entries
  <2>3. rows'[due[n + 1].id] # NoRow => Exists(due[n + 1].id)
    BY <2>2 DEF Exists
  <2>4. /\ due[n + 1].gen <= gens[due[n + 1].id]
        /\ Exists(due[n + 1].id) /\ due[n + 1].gen = gens[due[n + 1].id]
             => due[n + 1].kind = rows[due[n + 1].id].kind
    BY <1>2, <2>1 DEF ListInv
  <2>. QED BY <2>1, <2>2, <2>3, <2>4
<1>7. ListInv'
  BY <1>5, <1>6 DEF ListInv, Exists
<1>8. \A n \in Listed' : n + 1 \in Listed /\ due'[n].id = due[n + 1].id
  BY <1>1 DEF Listed
<1>9. \A j \in Job : ~WorkingOn(j)'
  BY <1>1 DEF WorkingOn
<1>. QED BY <1>7, <1>8, <1>9

LEMMA OnceInit == Init => OnceInv
BY DEF Init, OnceInv, ListInv, SpentInv, AtMostOnce, Busy, Spent, Exists

LEMMA OnceStep == TypeOK /\ Numbered /\ OnceInv /\ [Next]_vars => OnceInv'
<1> SUFFICES ASSUME TypeOK, Numbered, OnceInv, [Next]_vars PROVE OnceInv'
  OBVIOUS
<1>t. TypeOK /\ ListInv /\ SpentInv /\ AtMostOnce /\ Numbered
  BY DEF OnceInv
<1>n. rows \in [Job -> Row] /\ gens \in [Job -> 0..MaxGen] /\ starts \in [Job -> Nat]
      /\ triggers \in [Job -> Nat] /\ MaxGen \in Nat
  BY CronAssumption DEF TypeOK
<1>1. ASSUME NEW j \in Job, NEW kind \in Kinds, NEW next \in InitialNext(kind), Add(j, kind, next)
      PROVE  OnceInv'
  <2>1. /\ gens' = [gens EXCEPT ![j] = gens[j] + 1]
        /\ starts' = [starts EXCEPT ![j] = 0] /\ triggers' = [triggers EXCEPT ![j] = 0]
        /\ UNCHANGED <<pc, due>>
        /\ \A i \in Job : i # j => rows'[i] = rows[i]
    BY <1>1, <1>n DEF Add, thread
  <2>2. ListInv'
    <3>1. SUFFICES ASSUME Busy, NEW n \in DOMAIN due
                   PROVE  /\ due[n].gen <= gens'[due[n].id]
                          /\ Exists(due[n].id)' /\ due[n].gen = gens'[due[n].id]
                               => due[n].kind = rows'[due[n].id].kind
      BY <1>t, <2>1 DEF ListInv, Busy
    <3>2. due[n].id \in Job /\ due[n].gen \in Nat /\ due[n].gen <= gens[due[n].id]
      BY <1>t, <3>1, <1>n, Entries DEF ListInv, Gen
    <3>3. CASE due[n].id = j
      BY <3>2, <3>3, <2>1, <1>n
    <3>4. CASE due[n].id # j
      BY <1>t, <3>1, <3>2, <3>4, <2>1, <1>n DEF ListInv, Exists
    <3>. QED BY <3>3, <3>4
  <2>3. ASSUME NEW i \in Job, Spent(i)'
        PROVE  i # j /\ Spent(i)
    BY <2>1, <2>3, <1>n DEF Spent, Exists
  <2>4. SpentInv'
    BY <1>t, <2>1, <2>3, <1>n DEF SpentInv, Listed, WorkingOn
  <2>5. AtMostOnce'
    BY <1>t, <2>1, <1>n DEF AtMostOnce, Exists
  <2>. QED BY <2>2, <2>4, <2>5 DEF OnceInv
<1>2. ASSUME NEW j \in Job, Trigger(j) PROVE OnceInv'
  <2>1. /\ triggers' = [triggers EXCEPT ![j] = triggers[j] + 1] /\ Exists(j)
        /\ UNCHANGED <<pc, due, gens, starts>>
        /\ \A i \in Job : i # j => rows'[i] = rows[i]
        /\ rows'[j].kind = rows[j].kind
    BY <1>2, <1>n DEF Trigger, thread, Row
  <2>2. ListInv'
    <3>1. SUFFICES ASSUME Busy, NEW n \in DOMAIN due, Exists(due[n].id)', due[n].gen = gens[due[n].id]
                   PROVE  due[n].kind = rows'[due[n].id].kind
      BY <1>t, <2>1 DEF ListInv, Busy
    <3>2. due[n].id \in Job
      BY <1>t, Entries
    <3>3. Exists(due[n].id)
      BY <2>1, <3>1, <3>2 DEF Exists
    <3>. QED BY <1>t, <2>1, <3>1, <3>2, <3>3 DEF ListInv
  <2>3. ~Spent(j)'
    BY <1>t, <2>1, <1>n DEF Spent, AtMostOnce
  <2>4. \A i \in Job : Spent(i)' => i # j /\ Spent(i)
    BY <2>1, <2>3, <1>n DEF Spent, Exists
  <2>5. SpentInv'
    BY <1>t, <2>1, <2>4 DEF SpentInv, Listed, WorkingOn
  <2>6. AtMostOnce'
    BY <1>t, <2>1, <1>n DEF AtMostOnce, Exists
  <2>. QED BY <2>2, <2>5, <2>6 DEF OnceInv
<1>3. ASSUME NEW j \in Job, Delete(j) PROVE OnceInv'
  <2>1. /\ UNCHANGED <<pc, due, gens, starts, triggers>> /\ ~Exists(j)'
        /\ \A i \in Job : i # j => rows'[i] = rows[i]
    BY <1>3, <1>n DEF Delete, thread, Exists, NoRow
  <2>2. ListInv'
    <3>1. SUFFICES ASSUME Busy, NEW n \in DOMAIN due, Exists(due[n].id)', due[n].gen = gens[due[n].id]
                   PROVE  due[n].kind = rows'[due[n].id].kind
      BY <1>t, <2>1 DEF ListInv, Busy
    <3>2. due[n].id \in Job /\ due[n].id # j
      BY <1>t, <2>1, <3>1, Entries
    <3>. QED BY <1>t, <2>1, <3>1, <3>2 DEF ListInv, Exists
  <2>3. \A i \in Job : Spent(i)' => i # j /\ Spent(i)
    BY <2>1 DEF Spent, Exists
  <2>4. SpentInv'
    BY <1>t, <2>1, <2>3 DEF SpentInv, Listed, WorkingOn
  <2>5. AtMostOnce'
    BY <1>t, <2>1 DEF AtMostOnce, Exists
  <2>. QED BY <2>2, <2>4, <2>5 DEF OnceInv
<1>4. CASE ReadDue
  <2>1. UNCHANGED <<rows, gens, starts, triggers>> /\ pc' \in {"wait", "mark"}
    BY <1>4, <1>t, ReadDueList DEF ReadDue, past
  <2>2. /\ due' \in Seq(Entry)
        /\ \A m, n \in DOMAIN due' : due'[m].id = due'[n].id => m = n
        /\ \A n \in DOMAIN due' :
             /\ due'[n].id \in Job /\ IsDue(due'[n].id)
             /\ due'[n].gen = rows[due'[n].id].gen /\ due'[n].kind = rows[due'[n].id].kind
    BY <1>4, <1>t, ReadDueList
  <2>3. \A n \in DOMAIN due' : due'[n].gen = gens[due'[n].id] /\ gens[due'[n].id] \in Nat
    BY <2>2, <1>t, <1>n DEF Numbered, IsDue
  <2>4. ListInv'
    BY <2>1, <2>2, <2>3 DEF ListInv
  <2>5. \A j \in Job : Spent(j)' => Spent(j)
    BY <2>1 DEF Spent, Exists
  <2>6. \A j \in Job : Spent(j) => ~IsDue(j)
    BY <1>t DEF SpentInv, IsDue
  <2>7. SpentInv'
    BY <1>t, <2>1, <2>2, <2>5, <2>6 DEF SpentInv, Listed, WorkingOn
  <2>8. AtMostOnce'
    BY <1>t, <2>1 DEF AtMostOnce, Exists
  <2>. QED BY <2>4, <2>7, <2>8 DEF OnceInv
<1>5. CASE MarkRunning
  <2> DEFINE e == Head(due)
  <2>1. pc = "mark" /\ pc' = "chat" /\ CanMark(e.id) /\ UNCHANGED <<due, gens, triggers>>
    BY <1>5 DEF MarkRunning
  <2>2. 1 \in DOMAIN due /\ e = due[1] /\ e.id \in Job /\ e.gen \in Gen /\ Busy
    BY <1>t, <2>1, HeadType DEF Busy
  <2>3. rows' = [rows EXCEPT ![e.id] = [rows[e.id] EXCEPT !.running = TRUE]]
    BY <1>5 DEF MarkRunning, CanMark
  <2>4. /\ \A i \in Job : rows'[i].kind = rows[i].kind /\ rows'[i].next = rows[i].next
                          /\ (rows'[i] = rows[i] \/ i = e.id)
        /\ rows'[e.id].running
    BY <2>2, <2>3, <1>n DEF Row
  <2>5. \A i \in Job : Exists(i)' => Exists(i)
    BY <2>1, <2>4 DEF Exists, CanMark
  <2>6. ListInv'
    <3>1. SUFFICES ASSUME NEW n \in DOMAIN due, Exists(due[n].id)', due[n].gen = gens[due[n].id]
                   PROVE  due[n].kind = rows'[due[n].id].kind
      BY <1>t, <2>1, <2>2 DEF ListInv, Busy
    <3>2. due[n].id \in Job
      BY <1>t, Entries
    <3>3. Exists(due[n].id)
      BY <2>1, <2>5, <3>1, <3>2 DEF Exists
    <3>4. due[n].kind = rows[due[n].id].kind
      BY <1>t, <2>2, <3>1, <3>3 DEF ListInv
    <3>. QED BY <2>4, <3>2, <3>4
  <2>7. ~Spent(e.id)
    BY <1>t, <2>1, <2>2 DEF SpentInv, Listed
  <2>8. \A i \in Job : i # e.id => starts'[i] = starts[i]
    BY <1>5, <1>n, <2>2 DEF MarkRunning
  <2>9. /\ e.gen = gens[e.id] => starts'[e.id] = starts[e.id] + 1
        /\ e.gen # gens[e.id] => starts'[e.id] = starts[e.id]
    BY <1>5, <1>n, <2>2 DEF MarkRunning
  <2>10. \A i \in Job : i # e.id /\ Spent(i)' => Spent(i)
    BY <2>1, <2>4, <2>5, <2>8 DEF Spent
  <2>11. \A i \in Job : i = e.id /\ Spent(i)' => e.gen = gens[e.id]
    BY <2>1, <2>4, <2>5, <2>7, <2>9 DEF Spent
  <2>12. \A n \in Listed' : n \in Listed /\ due[n].id # e.id
    <3>1. SUFFICES ASSUME NEW n \in DOMAIN due, n > 1 PROVE n \in Listed /\ due[n].id # e.id
      BY <2>1 DEF Listed
    <3>. QED BY <1>t, <2>1, <2>2, <3>1 DEF Listed, ListInv
  <2>13. SpentInv'
    <3>1. ASSUME NEW i \in Job, Spent(i)'
          PROVE  /\ rows'[i].next = Never \/ rows'[i].running
                 /\ \A n \in Listed' : due'[n].id # i
                 /\ WorkingOn(i)' => Head(due').gen = gens'[i]
      <4>1. CASE i = e.id
        BY <4>1, <3>1, <2>1, <2>4, <2>11, <2>12
      <4>2. CASE i # e.id
        <5>1. Spent(i) /\ rows'[i] = rows[i] /\ ~WorkingOn(i)'
          BY <4>2, <3>1, <2>1, <2>4, <2>10 DEF WorkingOn
        <5>. QED BY <5>1, <1>t, <2>1, <2>12 DEF SpentInv
      <4>. QED BY <4>1, <4>2
    <3>. QED BY <3>1 DEF SpentInv
  <2>14. AtMostOnce'
    <3>1. ASSUME NEW i \in Job, Exists(i)', rows'[i].kind = "at" PROVE starts'[i] <= 1 + triggers'[i]
      <4>1. Exists(i) /\ rows[i].kind = "at"
        BY <3>1, <2>4, <2>5
      <4>2. CASE i = e.id
        <5>1. starts[i] <= triggers[i]
          BY <4>1, <4>2, <2>7, <1>n DEF Spent
        <5>2. starts'[i] \in {starts[i], starts[i] + 1}
          BY <4>2, <2>9
        <5>. QED BY <5>1, <5>2, <2>1, <1>n
      <4>3. CASE i # e.id
        BY <4>1, <4>3, <2>1, <2>8, <1>t DEF AtMostOnce
      <4>. QED BY <4>2, <4>3
    <3>. QED BY <3>1 DEF AtMostOnce
  <2>. QED BY <2>6, <2>13, <2>14 DEF OnceInv
<1>6. CASE SkipOverlap
  <2>1. pc = "mark" /\ NextEntry /\ UNCHANGED <<rows, gens, starts, triggers>>
    BY <1>6 DEF SkipOverlap, past
  <2>2. /\ ListInv'
        /\ \A n \in Listed' : n + 1 \in Listed /\ due'[n].id = due[n + 1].id
        /\ \A j \in Job : ~WorkingOn(j)'
    BY <1>t, <2>1, Shift DEF Exists
  <2>3. \A j \in Job : Spent(j)' => Spent(j)
    BY <2>1 DEF Spent, Exists
  <2>4. SpentInv'
    BY <1>t, <2>1, <2>2, <2>3 DEF SpentInv
  <2>5. AtMostOnce'
    BY <1>t, <2>1 DEF AtMostOnce, Exists
  <2>. QED BY <2>2, <2>4, <2>5 DEF OnceInv
<1>7. CASE ChatReturns \/ ChatRaises
  <2>1. pc = "chat" /\ pc' = "finish" /\ UNCHANGED <<rows, due, gens, starts, triggers>>
    BY <1>7 DEF ChatReturns, ChatRaises, past
  <2>. QED BY <1>t, <2>1
         DEF OnceInv, ListInv, SpentInv, AtMostOnce, Spent, Exists, Busy, Listed, WorkingOn
<1>8. CASE Finish
  <2> DEFINE e == Head(due)
  <2>1. pc = "finish" /\ NextEntry /\ UNCHANGED <<gens, starts, triggers>>
    BY <1>8 DEF Finish, past
  <2>2. e.id \in Job /\ 1 \in DOMAIN due /\ e = due[1] /\ Busy
    BY <1>t, <2>1, HeadType DEF Busy
  <2>3. /\ \A i \in Job : i # e.id => rows'[i] = rows[i]
        /\ ~Exists(e.id) => rows' = rows
        /\ Exists(e.id) => rows'[e.id].next = ComputeNext(e.kind)
        /\ rows'[e.id].kind = rows[e.id].kind
    BY <1>8, <2>2, <1>n DEF Finish, Row
  <2>4. \A i \in Job : (Exists(i)' => Exists(i)) /\ rows'[i].kind = rows[i].kind
    BY <2>3 DEF Exists
  <2>5. /\ ListInv'
        /\ \A n \in Listed' : n + 1 \in Listed /\ due'[n].id = due[n + 1].id
        /\ \A j \in Job : ~WorkingOn(j)'
    BY <1>t, <2>1, <2>4, Shift
  <2>6. \A i \in Job : Spent(i)' => Spent(i)
    BY <2>1, <2>4 DEF Spent
  <2>7. Spent(e.id) => e.kind = "at"
    <3>1. SUFFICES ASSUME Spent(e.id) PROVE e.kind = "at"
      OBVIOUS
    <3>2. WorkingOn(e.id)
      BY <2>1 DEF WorkingOn
    <3>3. e.gen = gens[e.id]
      BY <1>t, <2>2, <3>1, <3>2 DEF SpentInv
    <3>. QED BY <1>t, <2>2, <3>1, <3>3 DEF ListInv, Spent
  <2>8. ASSUME NEW i \in Job, Spent(i)'
        PROVE  /\ rows'[i].next = Never \/ rows'[i].running
               /\ \A n \in Listed' : due'[n].id # i
    <3>1. Spent(i)
      BY <2>6, <2>8
    <3>2. \A n \in Listed' : due'[n].id # i
      BY <1>t, <2>5, <3>1 DEF SpentInv
    <3>3. rows'[i].next = Never \/ rows'[i].running
      <4>1. CASE i = e.id
        BY <4>1, <3>1, <2>3, <2>7 DEF Spent, ComputeNext
      <4>2. CASE i # e.id
        BY <4>2, <3>1, <2>3, <1>t DEF SpentInv
      <4>. QED BY <4>1, <4>2
    <3>. QED BY <3>2, <3>3
  <2>9. SpentInv'
    BY <2>5, <2>8 DEF SpentInv
  <2>10. AtMostOnce'
    BY <1>t, <2>1, <2>4 DEF AtMostOnce
  <2>. QED BY <2>5, <2>9, <2>10 DEF OnceInv
<1>9. CASE StoreFails \/ Restart
  <2>1. pc' \in {"wait", "dead"} /\ UNCHANGED <<rows, gens, starts, triggers>>
    BY <1>9 DEF StoreFails, Restart
  <2>. QED BY <1>t, <2>1
         DEF OnceInv, ListInv, SpentInv, AtMostOnce, Spent, Exists, Busy, Listed, WorkingOn
<1>10. CASE Tick \/ UNCHANGED vars
  <2>1. UNCHANGED <<rows, pc, due, gens, starts, triggers>>
    BY <1>10 DEF Tick, vars, thread, past
  <2>. QED BY <1>t, <2>1
         DEF OnceInv, ListInv, SpentInv, AtMostOnce, Spent, Exists, Busy, Listed, WorkingOn
<1>. QED
  BY <1>1, <1>2, <1>3, <1>4, <1>5, <1>6, <1>7, <1>8, <1>9, <1>10 DEF Next, Thread

(* A one-shot job runs at most once more than it was triggered, for any    *)
(* number of jobs, definitions, triggers, crashes and store errors.        *)
THEOREM AtMostOnceTheorem == Spec => []AtMostOnce
<1>1. Init => OnceInv
  BY OnceInit
<1>2. TypeOK /\ Numbered /\ OnceInv /\ [Next]_vars => OnceInv'
  BY OnceStep
<1>3. OnceInv => AtMostOnce
  BY DEF OnceInv
<1>. QED BY <1>1, <1>2, <1>3, Types, PTL DEF Spec

-----------------------------------------------------------------------------
LEMMA StuckStep == TypeOK /\ StuckOnlyByFault /\ [Next]_vars => StuckOnlyByFault'
<1> SUFFICES ASSUME TypeOK, StuckOnlyByFault, [Next]_vars PROVE StuckOnlyByFault'
  OBVIOUS
<1>t. TypeOK /\ StuckOnlyByFault /\ rows \in [Job -> Row]
  BY DEF TypeOK
<1>1. ASSUME NEW j \in Job, NEW kind \in Kinds, NEW next \in InitialNext(kind), Add(j, kind, next)
      PROVE  StuckOnlyByFault'
  <2>1. /\ ~rows'[j].running /\ stranded' = stranded \ {j} /\ UNCHANGED <<pc, due>>
        /\ \A i \in Job : i # j => rows'[i] = rows[i]
    BY <1>1, <1>t DEF Add, thread
  <2>. QED BY <2>1, <1>t DEF StuckOnlyByFault, WorkingOn
<1>2. ASSUME NEW j \in Job, Trigger(j) \/ Delete(j) PROVE StuckOnlyByFault'
  <2>1. /\ ~rows'[j].running /\ stranded' = stranded \ {j} /\ UNCHANGED <<pc, due>>
        /\ \A i \in Job : i # j => rows'[i] = rows[i]
    BY <1>2, <1>t DEF Trigger, Delete, thread, NoRow, Row
  <2>. QED BY <2>1, <1>t DEF StuckOnlyByFault, WorkingOn
<1>3. CASE MarkRunning
  <2>1. /\ pc = "mark" /\ pc' = "chat" /\ UNCHANGED <<due, stranded>>
        /\ \A i \in Job : i # Head(due).id => rows'[i] = rows[i]
    BY <1>3, <1>t DEF MarkRunning
  <2>. QED BY <2>1, <1>t DEF StuckOnlyByFault, WorkingOn
<1>4. CASE Finish
  <2>1. pc = "finish" /\ UNCHANGED stranded /\ Head(due).id \in Job
    BY <1>4, <1>t, HeadType DEF Finish, past, Busy
  <2>2. /\ \A i \in Job : i # Head(due).id => rows'[i] = rows[i]
        /\ ~rows'[Head(due).id].running
    BY <1>4, <1>t, <2>1 DEF Finish, Exists, NoRow, Row
  <2>3. \A i \in Job : rows'[i].running => i # Head(due).id /\ rows[i].running
    BY <2>2
  <2>. QED BY <2>1, <2>3, <1>t DEF StuckOnlyByFault, WorkingOn
<1>5. CASE StoreFails \/ Restart
  <2>1. /\ UNCHANGED rows
        /\ \A j \in Job : WorkingOn(j) \/ j \in stranded => j \in stranded'
    <3>1. CASE StoreFails
      <4>1. pc \in {"mark", "finish"} /\ UNCHANGED rows
            /\ stranded' = IF pc = "finish" THEN stranded \cup {Head(due).id} ELSE stranded
        BY <3>1 DEF StoreFails
      <4>. QED BY <4>1 DEF WorkingOn
    <3>2. CASE Restart
      <4>1. UNCHANGED rows /\ stranded' = IF pc \in {"chat", "finish"}
                                THEN stranded \cup {Head(due).id} ELSE stranded
        BY <3>2 DEF Restart
      <4>. QED BY <4>1 DEF WorkingOn
    <3>. QED BY <1>5, <3>1, <3>2
  <2>. QED BY <2>1, <1>t DEF StuckOnlyByFault
<1>6. CASE ReadDue \/ SkipOverlap
  <2>1. pc \in {"wait", "mark"} /\ UNCHANGED <<rows, stranded>>
    BY <1>6 DEF ReadDue, SkipOverlap, past
  <2>. QED BY <2>1, <1>t DEF StuckOnlyByFault, WorkingOn
<1>7. CASE ChatReturns \/ ChatRaises
  <2>1. pc = "chat" /\ pc' = "finish" /\ UNCHANGED <<rows, due, stranded>>
    BY <1>7 DEF ChatReturns, ChatRaises, past
  <2>. QED BY <2>1, <1>t DEF StuckOnlyByFault, WorkingOn
<1>8. CASE Tick \/ UNCHANGED vars
  <2>1. UNCHANGED <<rows, pc, due, stranded>>
    BY <1>8 DEF Tick, vars, thread, past
  <2>. QED BY <2>1, <1>t DEF StuckOnlyByFault, WorkingOn
<1>. QED BY <1>1, <1>2, <1>3, <1>4, <1>5, <1>6, <1>7, <1>8 DEF Next, Thread

(* A row is marked running only by the run in progress, or by one that a   *)
(* crash or a store error cut off.                                         *)
THEOREM StuckOnlyByFaultTheorem == Spec => []StuckOnlyByFault
<1>1. Init => StuckOnlyByFault
  BY DEF Init, StuckOnlyByFault, NoRow
<1>2. TypeOK /\ StuckOnlyByFault /\ [Next]_vars => StuckOnlyByFault'
  BY StuckStep
<1>. QED BY <1>1, <1>2, Types, PTL DEF Spec

(* Runs are accounted for in both directions.                              *)
THEOREM RunsAccountedTheorem == Spec => []RunsAccounted
<1>1. AtMostOnce /\ StuckOnlyByFault => RunsAccounted
  BY DEF RunsAccounted
<1>. QED BY <1>1, AtMostOnceTheorem, StuckOnlyByFaultTheorem, PTL

LEMMA DeletedStep ==
  TypeOK /\ [Next]_vars => [\A j \in Job : starts'[j] > starts[j] => Exists(j)]_vars
<1> SUFFICES ASSUME TypeOK, [Next]_vars, NEW j \in Job, starts'[j] > starts[j] PROVE Exists(j)
  OBVIOUS
<1>t. starts \in [Job -> Nat]
  BY DEF TypeOK
<1>1. CASE MarkRunning
  <2>1. Exists(Head(due).id) /\ Head(due).id \in Job
    BY <1>1, HeadType DEF MarkRunning, CanMark, Busy
  <2>2. starts' = starts \/ starts' = [starts EXCEPT ![Head(due).id] = @ + 1]
    BY <1>1 DEF MarkRunning
  <2>. QED BY <2>1, <2>2, <1>t
<1>2. ASSUME NEW i \in Job, NEW kind \in Kinds, NEW next \in InitialNext(kind), Add(i, kind, next)
      PROVE  FALSE
  <2>1. starts' = [starts EXCEPT ![i] = 0]
    BY <1>2 DEF Add
  <2>. QED BY <2>1, <1>t
<1>3. ASSUME \/ \E i \in Job : Trigger(i) \/ Delete(i)
             \/ ReadDue \/ SkipOverlap \/ ChatReturns \/ ChatRaises \/ Finish
             \/ StoreFails \/ Restart \/ Tick \/ UNCHANGED vars
      PROVE  FALSE
  <2>1. starts' = starts
    BY <1>3 DEF Trigger, Delete, ReadDue, SkipOverlap, ChatReturns, ChatRaises, Finish,
                StoreFails, Restart, Tick, vars, past
  <2>. QED BY <2>1, <1>t
<1>. QED BY <1>1, <1>2, <1>3 DEF Next, Thread

(* The thread's copy of the list never starts a job that was deleted.      *)
THEOREM DeletedNotStartedTheorem == Spec => DeletedNotStarted
<1>1. TypeOK /\ [Next]_vars => [\A j \in Job : starts'[j] > starts[j] => Exists(j)]_vars
  BY DeletedStep
<1>. QED BY <1>1, Types, PTL DEF Spec, DeletedNotStarted

=============================================================================
