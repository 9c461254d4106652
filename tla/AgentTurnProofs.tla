-------------------------- MODULE AgentTurnProofs --------------------------
(***************************************************************************)
(* Proofs about AgentTurn, for every set of signatures and every bound:    *)
(* type correctness; what the checkpoint caches is how the call ended and  *)
(* is not executed again by a resumed run; what a cancel stops; the    *)
(* order of the transcript; that no run goes round in circles; and, for a  *)
(* provider that gives every call its own id, that row, conversation and   *)
(* effects agree over all crashes.                                         *)
(***************************************************************************)
EXTENDS AgentTurn, FiniteSetTheorems, TLAPS

\* A round stays a round when its result is added or its results are pruned.
LEMMA AddResultType ==
  ASSUME NEW rs \in Seq(Round), NEW id \in Id
  PROVE  AddResult(rs, id) \in Seq(Round)
<1> DEFINE R(r) == IF r = Len(rs) THEN [rs[r] EXCEPT !.answered = @ \cup {id}] ELSE rs[r]
<1>1. DOMAIN rs = 1..Len(rs) /\ Len(rs) \in Nat
  OBVIOUS
<1>2. ASSUME NEW r \in 1..Len(rs) PROVE R(r) \in Round
  <2>1. rs[r] \in Round
    BY <1>1
  <2> QED BY <2>1 DEF Round
<1>3. AddResult(rs, id) = [r \in 1..Len(rs) |-> R(r)]
  BY <1>1 DEF AddResult
<1> HIDE DEF R
<1> QED BY <1>1, <1>2, <1>3

\* Replacing arguments keeps the calls, their ids and what the provider gave.
LEMMA ReplaceFacts ==
  ASSUME NEW calls \in Seq(Call), NEW ids
  PROVE  /\ Replace(calls, ids) \in Seq(Call) /\ DOMAIN Replace(calls, ids) = DOMAIN calls
         /\ \A k \in DOMAIN calls :
              /\ Replace(calls, ids)[k].id = calls[k].id
              /\ Replace(calls, ids)[k].given = calls[k].given
              /\ calls[k].id \notin ids => Replace(calls, ids)[k] = calls[k]
<1> DEFINE C(k) == IF calls[k].id \in ids THEN [calls[k] EXCEPT !.sig = Stub[@]] ELSE calls[k]
<1>1. DOMAIN calls = 1..Len(calls) /\ Len(calls) \in Nat
  OBVIOUS
<1>2. ASSUME NEW k \in 1..Len(calls)
      PROVE  C(k) \in Call /\ C(k).id = calls[k].id /\ C(k).given = calls[k].given
  <2>1. calls[k] \in Call
    BY <1>1
  <2>2. Stub[calls[k].sig] \in Sig
    BY <2>1, AgentTurnAssumption DEF Call
  <2> QED BY <2>1, <2>2 DEF Call
<1>3. Replace(calls, ids) = [k \in 1..Len(calls) |-> C(k)]
  BY <1>1 DEF Replace
<1>4. \A k \in 1..Len(calls) : calls[k].id \notin ids => C(k) = calls[k]
  OBVIOUS
<1> HIDE DEF C
<1> QED BY <1>1, <1>2, <1>3, <1>4

\* What Prune keeps of a round: everything but its pruned results and signatures.
LEMMA PruneFacts ==
  ASSUME NEW rs \in Seq(Round), NEW b
  PROVE  /\ Prune(rs, b) \in Seq(Round) /\ DOMAIN Prune(rs, b) = DOMAIN rs
         /\ \A r \in DOMAIN rs :
              /\ Prune(rs, b)[r].answered = rs[r].answered
              /\ DOMAIN Prune(rs, b)[r].calls = DOMAIN rs[r].calls
              /\ \A k \in DOMAIN rs[r].calls :
                   /\ Prune(rs, b)[r].calls[k].id = rs[r].calls[k].id
                   /\ Prune(rs, b)[r].calls[k].given = rs[r].calls[k].given
              /\ (\A k \in DOMAIN rs[r].calls : \A q \in DOMAIN rs :
                    rs[r].calls[k].id \notin rs[q].answered \/
                    \A l \in DOMAIN rs[q].calls : rs[q].calls[l].id # rs[r].calls[k].id)
                   => Prune(rs, b)[r].calls = rs[r].calls
<1> DEFINE gone == {p \in Weighing(rs) : Cardinality(Older(rs, p)) < Tokens(rs) - b}
           ids(r) == {rs[r].calls[p[2]].id : p \in {q \in gone : q[1] = r}}
           all == UNION {ids(q) : q \in DOMAIN rs}
           stubs(r) == {id \in all : FirstCarrier(rs, r, id)}
           R(r) == [rs[r] EXCEPT !.pruned = @ \cup ids(r), !.calls = Replace(@, stubs(r))]
<1>1. ASSUME NEW r \in DOMAIN rs, NEW id \in ids(r)
      PROVE  id \in Id /\ id \in rs[r].answered /\ \E l \in DOMAIN rs[r].calls : rs[r].calls[l].id = id
  <2>1. PICK p \in gone : p[1] = r /\ id = rs[r].calls[p[2]].id
    OBVIOUS
  <2>2. p[2] \in DOMAIN rs[r].calls /\ rs[r].calls[p[2]].id \in rs[r].answered
    BY <2>1 DEF Weighing
  <2>3. rs[r] \in Round
    OBVIOUS
  <2>4. rs[r].calls \in Seq(Call)
    BY <2>3 DEF Round
  <2>5. rs[r].calls[p[2]] \in Call
    BY <2>2, <2>4
  <2> QED BY <2>1, <2>2, <2>5 DEF Call
<1>2. Prune(rs, b) = [r \in DOMAIN rs |-> R(r)]
  BY DEF Prune
<1>3. \A id \in all : \E q \in DOMAIN rs : id \in ids(q)
  OBVIOUS
<1>4. \A r : stubs(r) \subseteq all
  OBVIOUS
<1> HIDE DEF ids, all, stubs
<1>5. ASSUME NEW r \in DOMAIN rs
      PROVE  /\ R(r) \in Round /\ R(r).answered = rs[r].answered
             /\ R(r).calls = Replace(rs[r].calls, stubs(r)) /\ rs[r].calls \in Seq(Call)
  <2>1. rs[r] \in Round /\ ids(r) \subseteq Id
    BY <1>1
  <2>2. rs[r].calls \in Seq(Call)
    BY <2>1 DEF Round
  <2>3. Replace(rs[r].calls, stubs(r)) \in Seq(Call)
    BY <2>2, ReplaceFacts
  <2> QED BY <2>1, <2>2, <2>3 DEF Round
<1>6. DOMAIN rs = 1..Len(rs) /\ Len(rs) \in Nat
  OBVIOUS
<1>7. Prune(rs, b) \in Seq(Round) /\ DOMAIN Prune(rs, b) = DOMAIN rs
  <2>1. \A r \in 1..Len(rs) : R(r) \in Round
    BY <1>5, <1>6
  <2>2. Prune(rs, b) = [r \in 1..Len(rs) |-> R(r)]
    BY <1>2, <1>6
  <2> HIDE DEF R
  <2> QED BY <1>6, <2>1, <2>2
<1>8. ASSUME NEW r \in DOMAIN rs
      PROVE  /\ Prune(rs, b)[r].answered = rs[r].answered
             /\ DOMAIN Prune(rs, b)[r].calls = DOMAIN rs[r].calls
             /\ \A k \in DOMAIN rs[r].calls :
                  /\ Prune(rs, b)[r].calls[k].id = rs[r].calls[k].id
                  /\ Prune(rs, b)[r].calls[k].given = rs[r].calls[k].given
                  /\ rs[r].calls[k].id \notin all => Prune(rs, b)[r].calls[k] = rs[r].calls[k]
             /\ Prune(rs, b)[r].calls \in Seq(Call) /\ rs[r].calls \in Seq(Call)
  <2>1. Prune(rs, b)[r] = R(r)
    BY <1>2
  <2>2. /\ Prune(rs, b)[r].answered = rs[r].answered
        /\ Prune(rs, b)[r].calls = Replace(rs[r].calls, stubs(r)) /\ rs[r].calls \in Seq(Call)
    BY <2>1, <1>5
  <2> QED BY <2>2, <1>4, ReplaceFacts
<1>9. ASSUME NEW r \in DOMAIN rs,
             \A k \in DOMAIN rs[r].calls : \A q \in DOMAIN rs :
                rs[r].calls[k].id \notin rs[q].answered \/
                \A l \in DOMAIN rs[q].calls : rs[q].calls[l].id # rs[r].calls[k].id
      PROVE  Prune(rs, b)[r].calls = rs[r].calls
  <2>1. \A k \in DOMAIN rs[r].calls : rs[r].calls[k].id \notin all
    BY <1>1, <1>3, <1>9
  <2>2. /\ Prune(rs, b)[r].calls \in Seq(Call) /\ rs[r].calls \in Seq(Call)
        /\ DOMAIN Prune(rs, b)[r].calls = DOMAIN rs[r].calls
        /\ \A k \in DOMAIN rs[r].calls : Prune(rs, b)[r].calls[k] = rs[r].calls[k]
    BY <2>1, <1>8
  <2> QED BY <2>2
<1> QED BY <1>7, <1>8, <1>9

LEMMA PruneType ==
  ASSUME NEW rs \in Seq(Round), NEW b
  PROVE  Prune(rs, b) \in Seq(Round)
BY PruneFacts

\* The calls and answers of the last round.
LEMMA LastType ==
  ASSUME NEW rs \in Seq(Round)
  PROVE  LastCalls(rs) \in Seq(Call) /\ LastAnswered(rs) \subseteq Id
<1>1. CASE rs = <<>>
  BY <1>1 DEF LastCalls, LastAnswered
<1>2. CASE rs # <<>>
  <2>1. Len(rs) \in DOMAIN rs
    BY <1>2
  <2>2. rs[Len(rs)] \in Round
    BY <2>1
  <2> QED BY <1>2, <2>2 DEF LastCalls, LastAnswered, Round
<1> QED BY <1>1, <1>2

\* A batch gets ids, and its occurrences of a signature can be counted.
LEMMA BatchType ==
  ASSUME NEW sigs \in Batches, nextId \in Nat
  PROVE  /\ WithIds(sigs) \in Seq(Call) /\ Len(sigs) \in Nat
         /\ \A s : Cardinality({k \in DOMAIN sigs : sigs[k] = s}) \in Nat
<1>1. PICK n \in 1..MaxBatch : sigs \in [1..n -> Sig]
  BY DEF Batches
<1>2. n \in Nat
  BY <1>1, AgentTurnAssumption
<1>3. DOMAIN sigs = 1..n
  BY <1>1
<1>4. \A k \in 1..n :
        [id |-> IF RepeatIds THEN 0 ELSE nextId + k, sig |-> sigs[k], given |-> sigs[k]] \in Call
  BY <1>1, <1>2 DEF Call, Id
<1>5. WithIds(sigs) \in Seq(Call)
  BY <1>2, <1>3, <1>4 DEF WithIds
<1>6. Len(sigs) \in Nat
  BY <1>2, <1>3
<1>7. ASSUME NEW s PROVE Cardinality({k \in DOMAIN sigs : sigs[k] = s}) \in Nat
  <2>1. IsFiniteSet(1..n)
    BY <1>2, FS_Interval
  <2>2. IsFiniteSet({k \in DOMAIN sigs : sigs[k] = s})
    BY <2>1, <1>3, FS_Subset
  <2> QED BY <2>2, FS_CardinalityType
<1> QED BY <1>5, <1>6, <1>7

-----------------------------------------------------------------------------
\* While a call is being made, at points into the batch.
InCall == pc \in {"approval", "tool", "save"} => at \in DOMAIN batch

LEMMA CurrentType ==
  ASSUME TypeOK, at \in DOMAIN batch
  PROVE  Current \in Call
  BY DEF TypeOK, Current

LEMMA MarkType ==
  ASSUME TypeOK, NEW status \in Status, Mark(status)
  PROVE  row' \in [status : Status, rounds : Seq(Round), cache : [Sig -> Cached]]
  BY DEF TypeOK, Mark, Status

LEMMA ForgetType ==
  ASSUME Forget
  PROVE  /\ rounds' \in Seq(Round) /\ cache' \in [Sig -> Cached]
         /\ resume' \in BOOLEAN /\ prelude' \in BOOLEAN
         /\ batch' \in Seq(Call) /\ at' \in 1..Len(batch') + 1
         /\ skip' \subseteq Id /\ completed' \subseteq Id
         /\ counts' \in [Sig -> Nat] /\ iter' \in Nat
         /\ result' \in Result
<1>1. rounds' \in Seq(Round) /\ batch' \in Seq(Call) /\ Len(batch') = 0
  BY DEF Forget
<1>2. at' \in 1..Len(batch') + 1
  BY <1>1 DEF Forget
<1>3. cache' \in [Sig -> Cached] /\ counts' \in [Sig -> Nat]
  BY DEF Forget, NoCache, Cached
<1> QED BY <1>1, <1>2, <1>3 DEF Forget, Result

\* Saving a result keeps the types of what it writes.
LEMMA ObserveType ==
  ASSUME TypeOK, at \in DOMAIN batch, NEW cached \in Cached, Observe(cached)
  PROVE  /\ row' \in [status : Status, rounds : Seq(Round), cache : [Sig -> Cached]]
         /\ rounds' \in Seq(Round) /\ cache' \in [Sig -> Cached]
         /\ completed' \subseteq Id /\ at' \in 1..Len(batch) + 1 /\ pc' \in Location
<1>1. Current \in Call
  BY CurrentType
<1>2. Current.id \in Id /\ Current.sig \in Sig
  BY <1>1 DEF Call
<1>3. rounds' \in Seq(Round)
  BY <1>2, AddResultType DEF Observe, TypeOK
<1>4. cache' \in [Sig -> Cached]
  BY <1>2 DEF Observe, TypeOK
<1>5. at' \in 1..Len(batch) + 1
  BY DEF Observe, TypeOK
<1> QED BY <1>2, <1>3, <1>4, <1>5 DEF Observe, TypeOK, Status, Location

LEMMA CountCallType ==
  ASSUME TypeOK, at \in DOMAIN batch, CountCall
  PROVE  counts' \in [Sig -> Nat]
<1>1. Current.sig \in Sig
  BY CurrentType DEF Call
<1> QED BY <1>1 DEF CountCall, TypeOK

\* A call ends in one of the three ways.
LEMMA EndsType ==
  ASSUME TypeOK, at \in DOMAIN batch, NEW how \in Result, Ends(how)
  PROVE  /\ result' \in Result /\ ended' \in [Sig -> SUBSET Result]
         /\ Current.sig \in Sig /\ how \in ended'[Current.sig]
         /\ \A s \in Sig : ended[s] \subseteq ended'[s] /\ ended'[s] \subseteq ended[s] \cup {how}
         /\ \A s \in Sig : s # Current.sig => ended'[s] = ended[s]
<1>1. Current.sig \in Sig
  BY CurrentType DEF Call
<1> QED BY <1>1 DEF Ends, TypeOK

LEMMA InitType == Init => TypeOK /\ InCall
<1> SUFFICES ASSUME Init PROVE TypeOK /\ InCall
  OBVIOUS
<1>1. rounds \in Seq(Round) /\ batch \in Seq(Call) /\ Len(batch) = 0
  BY DEF Init
<1>2. at \in 1..Len(batch) + 1
  BY <1>1 DEF Init
<1>3. NoCache \in [Sig -> Cached]
  BY DEF NoCache, Cached
<1>4. <<>> \in Seq(Round) /\ hist \in Seq({"user", "assistant"})
  BY DEF Init
<1>5. row \in [status : Status, rounds : Seq(Round), cache : [Sig -> Cached]]
  BY <1>3, <1>4 DEF Init, Status
<1> QED BY <1>1, <1>2, <1>3, <1>4, <1>5 DEF Init, TypeOK, InCall, Location, Outcome, Result

LEMMA TypeStep ==
  ASSUME TypeOK, InCall, [Next]_vars
  PROVE  TypeOK' /\ InCall'
<1> USE DEF disk, turn, past, vars, Location, Outcome
<1>1. CASE Start
  <2>1. rounds' \in Seq(Round) /\ cache' \in [Sig -> Cached]
    BY <1>1 DEF Start, TypeOK, NoCache, Cached
  <2>2. batch' \in Seq(Call) /\ skip' \subseteq Id
    BY <1>1, <2>1, LastType DEF Start
  <2>3. at' \in 1..Len(batch') + 1
    BY <1>1, <2>2 DEF Start
  <2>4. resume' \in BOOLEAN /\ prelude' \in BOOLEAN
    BY <1>1 DEF Start
  <2>5. pc' \in {"batch", "think"}
    BY <1>1 DEF Start
  <2>6. answer' \in [status : Outcome, text : BOOLEAN] /\ runs' \in Nat
    BY <1>1 DEF Start, TypeOK
  <2> QED BY <1>1, <2>1, <2>2, <2>3, <2>4, <2>5, <2>6 DEF Start, TypeOK, InCall
<1>2. CASE Think
  BY <1>2 DEF Think, TypeOK, InCall
<1>3. CASE Exhausted
  BY <1>3 DEF Exhausted, TypeOK, InCall
<1>4. CASE ChatOverflow
  <2>1. rounds' \in Seq(Round)
    BY <1>4, PruneType DEF ChatOverflow, TypeOK
  <2> QED BY <1>4, <2>1 DEF ChatOverflow, NextIteration, TypeOK, InCall
<1>5. CASE ChatText
  BY <1>5 DEF ChatText, TypeOK, InCall
<1>6. CASE ChatTools
  <2>1. PICK sigs \in Batches :
          /\ batch' = WithIds(sigs)
          /\ rounds' = Prune(Append(rounds, [calls |-> batch', answered |-> {}, pruned |-> {}]),
                             Budget)
          /\ nextId' = nextId + Len(sigs)
          /\ asked' = [s \in Sig |-> asked[s] + Cardinality({k \in DOMAIN sigs : sigs[k] = s})]
    BY <1>6 DEF ChatTools
  <2>2. batch' \in Seq(Call) /\ nextId' \in Nat /\ asked' \in [Sig -> Nat]
    <3>1. /\ WithIds(sigs) \in Seq(Call) /\ Len(sigs) \in Nat
          /\ \A s : Cardinality({k \in DOMAIN sigs : sigs[k] = s}) \in Nat
      BY BatchType DEF TypeOK
    <3> DEFINE n(s) == Cardinality({k \in DOMAIN sigs : sigs[k] = s})
    <3>2. \A s \in Sig : n(s) \in Nat
      BY <3>1
    <3>3. asked' = [s \in Sig |-> asked[s] + n(s)]
      BY <2>1
    <3> HIDE DEF n
    <3>4. asked' \in [Sig -> Nat]
      BY <3>2, <3>3 DEF TypeOK
    <3> QED BY <2>1, <3>1, <3>4 DEF TypeOK
  <2>3. [calls |-> batch', answered |-> {}, pruned |-> {}] \in Round
    BY <2>2 DEF Round
  <2>4. rounds' \in Seq(Round)
    <3>1. Append(rounds, [calls |-> batch', answered |-> {}, pruned |-> {}]) \in Seq(Round)
      BY <2>3 DEF TypeOK
    <3> QED BY <2>1, <3>1, PruneType
  <2>5. at' \in 1..Len(batch') + 1
    BY <1>6, <2>2 DEF ChatTools
  <2> QED BY <1>6, <2>2, <2>4, <2>5 DEF ChatTools, TypeOK, InCall
<1>7. CASE EndBatch
  <2>1. iter' \in Nat /\ pc' = "think"
    <3>1. CASE prelude
      BY <1>7, <3>1 DEF EndBatch, TypeOK
    <3>2. CASE ~prelude
      BY <1>7, <3>2 DEF EndBatch, NextIteration, TypeOK
    <3> QED BY <3>1, <3>2
  <2> QED BY <1>7, <2>1 DEF EndBatch, TypeOK, InCall
<1>8. CASE StopCanceled
  <2>1. row' \in [status : Status, rounds : Seq(Round), cache : [Sig -> Cached]]
    BY <1>8, MarkType DEF StopCanceled, Status
  <2> QED BY <1>8, <2>1, ForgetType DEF StopCanceled, TypeOK, InCall
<1>9. CASE SkipCall
  BY <1>9 DEF SkipCall, TypeOK, InCall
<1>10. CASE AnswerFromCache
  <2>1. at \in DOMAIN batch
    BY <1>10 DEF AnswerFromCache, TypeOK
  <2>2. cache[Current.sig] \in Cached
    BY <2>1, CurrentType DEF TypeOK, Call
  <2> QED BY <1>10, <2>1, <2>2, ObserveType, CountCallType
          DEF AnswerFromCache, Observe, TypeOK, InCall
<1>11. CASE BeginCall
  <2>1. at \in DOMAIN batch
    BY <1>11 DEF BeginCall, TypeOK
  <2> QED BY <1>11, <2>1, CountCallType DEF BeginCall, TypeOK, InCall
<1>12. CASE Approved
  BY <1>12 DEF Approved, TypeOK, InCall
<1>13. CASE ToolRuns
  <2>1. at \in DOMAIN batch
    BY <1>13 DEF ToolRuns, InCall
  <2>2. Current.sig \in Sig
    BY <2>1, CurrentType DEF Call
  <2>3. ran' \in [Sig -> Nat]
    BY <1>13, <2>2 DEF ToolRuns, TypeOK
  <2>4. late' \in Nat
    BY <1>13 DEF ToolRuns, TypeOK
  <2>5. result' \in Result /\ ended' \in [Sig -> SUBSET Result]
    BY <1>13, EndsType DEF ToolRuns, InCall, Result
  <2> QED BY <1>13, <2>1, <2>3, <2>4, <2>5 DEF ToolRuns, TypeOK, InCall
<1>14. CASE ToolRefused
  <2>1. result' \in Result /\ ended' \in [Sig -> SUBSET Result]
    BY <1>14, EndsType DEF ToolRefused, InCall, Result
  <2> QED BY <1>14, <2>1 DEF ToolRefused, TypeOK, InCall
<1>15. CASE SaveResult
  <2>1. at \in DOMAIN batch
    BY <1>15 DEF SaveResult, InCall
  <2>2. result \in Cached
    BY DEF TypeOK, Cached
  <2> QED BY <1>15, <2>1, <2>2, ObserveType DEF SaveResult, Observe, TypeOK, InCall
<1>16. CASE MarkDone
  <2>1. row' \in [status : Status, rounds : Seq(Round), cache : [Sig -> Cached]]
    BY <1>16, MarkType DEF MarkDone, Status
  <2> QED BY <1>16, <2>1, ForgetType DEF MarkDone, TypeOK, InCall
<1>17. CASE RecordUser
  BY <1>17 DEF RecordUser, TypeOK, InCall
<1>18. CASE RecordAssistant
  BY <1>18 DEF RecordAssistant, TypeOK, InCall
<1>19. CASE Cancel
  BY <1>19 DEF Cancel, TypeOK, InCall
<1>20. CASE Die
  <2>1. lost' \in [Sig -> Nat]
    <3>1. CASE pc = "save" /\ result # "refused"
      <4>1. Current.sig \in Sig
        BY <3>1, CurrentType DEF Call, InCall
      <4> QED BY <1>20, <3>1, <4>1 DEF Die, TypeOK
    <3>2. CASE ~(pc = "save" /\ result # "refused")
      BY <1>20, <3>2 DEF Die, TypeOK
    <3> QED BY <3>1, <3>2
  <2> QED BY <1>20, <2>1, ForgetType DEF Die, TypeOK, InCall
<1>21. CASE UNCHANGED vars
  BY <1>21 DEF TypeOK, InCall, Current
<1> QED BY <1>1, <1>2, <1>3, <1>4, <1>5, <1>6, <1>7, <1>8, <1>9, <1>10, <1>11, <1>12,
           <1>13, <1>14, <1>15, <1>16, <1>17, <1>18, <1>19, <1>20, <1>21
        DEF Next, Step

\* In every reachable state every variable has its type.
THEOREM TypeCorrect == Spec => []TypeOK
<1>1. TypeOK /\ InCall /\ [Next]_vars => (TypeOK /\ InCall)'
  BY TypeStep
<1> QED BY <1>1, InitType, PTL DEF Spec

-----------------------------------------------------------------------------
(* The inductive invariant behind the two checkpoint properties.              *)

\* A resumed run holds in memory exactly the signatures the row holds.
CacheOnDisk == resume => cache = row.cache

\* A resumed run is never inside a call whose signature it knows.
CallUnknown == pc \in {"approval", "tool"} /\ resume => cache[Current.sig] = "none"

\* What is known on disk, in memory or about to be saved is how a call ended, and
\* no call ended other than refused unless it ran.
KnownEnded ==
  /\ \A s \in Sig : row.cache[s] # "none" => row.cache[s] \in ended[s]
  /\ \A s \in Sig : cache[s] # "none" => cache[s] \in ended[s]
  /\ pc = "save" => result \in ended[Current.sig]
EndedRan == \A s \in Sig : ended[s] \subseteq {"refused"} \/ ran[s] > 0

CheckpointInv == CacheOnDisk /\ CallUnknown /\ KnownEnded /\ EndedRan

LEMMA CheckpointInit == Init => CheckpointInv
  BY DEF Init, CheckpointInv, CacheOnDisk, CallUnknown, KnownEnded, EndedRan, NoCache

LEMMA MarkKeepsCache ==
  ASSUME TypeOK, NEW status, Mark(status)
  PROVE  row'.cache = row.cache
  BY DEF Mark, TypeOK

\* Saving a result that is how the call ended keeps KnownEnded.
LEMMA ObserveKnown ==
  ASSUME TypeOK, CheckpointInv, at \in DOMAIN batch, NEW cached \in Cached,
         Observe(cached), ran' = ran, ended' = ended, resume' = resume,
         cached \in ended[Current.sig]
  PROVE  CheckpointInv'
<1>1. Current.sig \in Sig
  BY CurrentType DEF Call
<1>2. cache' = [cache EXCEPT ![Current.sig] = cached] /\ row'.cache = cache' /\ pc' = "batch"
  BY DEF Observe
<1>3. \A s \in Sig : cache'[s] # "none" => cache'[s] \in ended[s]
  BY <1>1, <1>2 DEF CheckpointInv, KnownEnded, TypeOK
<1> QED BY <1>2, <1>3 DEF CheckpointInv, CacheOnDisk, CallUnknown, KnownEnded, EndedRan

\* run_turn is left: nothing on disk but the status changes.
LEMMA LeaveKnown ==
  ASSUME TypeOK, CheckpointInv, Forget, ran' = ran, ended' = ended, row'.cache = row.cache,
         pc' \in {"idle", "recordUser"}
  PROVE  CheckpointInv'
  BY DEF CheckpointInv, CacheOnDisk, CallUnknown, KnownEnded, EndedRan, Forget, NoCache

LEMMA CheckpointStep ==
  ASSUME TypeOK, InCall, CheckpointInv, [Next]_vars
  PROVE  CheckpointInv'
<1> USE DEF disk, turn, past, vars, CheckpointInv, CacheOnDisk, CallUnknown, KnownEnded,
           EndedRan, Current
<1>1. CASE Start
  BY <1>1 DEF Start, NoCache, TypeOK
<1>2. CASE Think \/ Exhausted \/ ChatText \/ EndBatch \/ SkipCall \/ RecordUser
           \/ RecordAssistant \/ Cancel
  <2>1. /\ row' = row /\ cache' = cache /\ resume' = resume /\ ran' = ran
        /\ ended' = ended
        /\ \/ batch' = batch /\ at' = at /\ pc' = pc /\ result' = result
           \/ pc' \notin {"approval", "tool", "save"}
    BY <1>2 DEF Think, Exhausted, ChatText, EndBatch, NextIteration, SkipCall, RecordUser,
                RecordAssistant, Cancel
  <2> QED BY <2>1
<1>3. CASE ChatOverflow \/ ChatTools
  BY <1>3 DEF ChatOverflow, NextIteration, ChatTools
<1>4. CASE StopCanceled
  BY <1>4, MarkKeepsCache, LeaveKnown DEF StopCanceled
<1>5. CASE AnswerFromCache
  <2>1. at \in DOMAIN batch
    BY <1>5 DEF AnswerFromCache, TypeOK
  <2>2. Current.sig \in Sig
    BY <2>1, CurrentType DEF Call
  <2>3. cache[Current.sig] \in Cached /\ cache[Current.sig] \in ended[Current.sig]
    BY <1>5, <2>2 DEF AnswerFromCache, Known, TypeOK
  <2>4. ended' = ended /\ ran' = ran /\ resume' = resume
    BY <1>5 DEF AnswerFromCache
  <2> QED BY <1>5, <2>1, <2>3, <2>4, ObserveKnown DEF AnswerFromCache
<1>6. CASE BeginCall
  BY <1>6 DEF BeginCall, Known
<1>7. CASE Approved
  BY <1>7 DEF Approved
<1>8. CASE ToolRuns
  <2>1. Current.sig \in Sig
    BY <1>8, CurrentType DEF ToolRuns, InCall, Call
  <2>2. \A s \in Sig : ran'[s] >= ran[s] /\ ran[s] \in Nat
    BY <1>8, <2>1 DEF ToolRuns, TypeOK
  <2>3. ran'[Current.sig] > 0
    BY <1>8, <2>1 DEF ToolRuns, TypeOK
  <2>4. PICK how \in {"ok", "failed"} : Ends(how)
    BY <1>8 DEF ToolRuns
  <2>5. /\ result' = how /\ how \in ended'[Current.sig]
        /\ \A s \in Sig : ended[s] \subseteq ended'[s]
        /\ \A s \in Sig : s # Current.sig => ended'[s] = ended[s]
    BY <1>8, <2>4, EndsType DEF ToolRuns, InCall, Result, Ends
  <2>6. /\ pc' = "save" /\ row' = row /\ cache' = cache /\ resume' = resume
        /\ batch' = batch /\ at' = at
    BY <1>8 DEF ToolRuns
  <2>7. EndedRan'
    <3>1. ASSUME NEW s \in Sig PROVE ended'[s] \subseteq {"refused"} \/ ran'[s] > 0
      <4>1. CASE s = Current.sig
        BY <2>3, <4>1
      <4>2. CASE s # Current.sig
        <5>1. ended'[s] = ended[s] /\ ran'[s] >= ran[s] /\ ran[s] \in Nat /\ ran'[s] \in Nat
          BY <1>8, <2>1, <2>2, <2>5, <4>2 DEF ToolRuns, TypeOK
        <5> QED BY <5>1
      <4> QED BY <4>1, <4>2
    <3> QED BY <3>1
  <2>8. KnownEnded'
    BY <2>5, <2>6
  <2> QED BY <2>6, <2>7, <2>8
<1>9. CASE ToolRefused
  <2>1. Ends("refused") /\ at \in DOMAIN batch
    BY <1>9 DEF ToolRefused, InCall
  <2>2. /\ result' = "refused" /\ "refused" \in ended'[Current.sig]
        /\ \A s \in Sig : ended[s] \subseteq ended'[s] /\ ended'[s] \subseteq ended[s] \cup {"refused"}
    BY <2>1, EndsType DEF Result, Ends
  <2>3. /\ pc' = "save" /\ row' = row /\ cache' = cache /\ resume' = resume /\ ran' = ran
        /\ batch' = batch /\ at' = at
    BY <1>9 DEF ToolRefused
  <2>4. EndedRan'
    BY <2>2, <2>3
  <2>5. KnownEnded'
    BY <2>2, <2>3
  <2> QED BY <2>3, <2>4, <2>5
<1>10. CASE SaveResult
  <2>1. at \in DOMAIN batch
    BY <1>10 DEF SaveResult, InCall
  <2>2. result \in Cached
    BY DEF TypeOK, Cached
  <2>3. result \in ended[Current.sig] /\ ended' = ended /\ ran' = ran /\ resume' = resume
    BY <1>10 DEF SaveResult
  <2> QED BY <1>10, <2>1, <2>2, <2>3, ObserveKnown DEF SaveResult
<1>11. CASE MarkDone
  BY <1>11, MarkKeepsCache, LeaveKnown DEF MarkDone
<1>12. CASE Die
  BY <1>12, LeaveKnown DEF Die
<1>13. CASE UNCHANGED vars
  BY <1>13
<1> QED BY <1>1, <1>2, <1>3, <1>4, <1>5, <1>6, <1>7, <1>8, <1>9, <1>10, <1>11, <1>12,
           <1>13 DEF Next, Step

LEMMA CheckpointInvariant == Spec => [](TypeOK /\ InCall /\ CheckpointInv)
<1>1. TypeOK /\ InCall /\ CheckpointInv /\ [Next]_vars
        => (TypeOK /\ InCall /\ CheckpointInv)'
  BY TypeStep, CheckpointStep
<1> QED BY <1>1, InitType, CheckpointInit, PTL DEF Spec

\* What the row caches, its error flag included, is how a call ended, and what no
\* refusal gave belongs to a tool that was executed.
THEOREM CacheSoundTheorem == Spec => []CacheSound
<1>1. CheckpointInv => CacheSound
  BY DEF CheckpointInv, KnownEnded, EndedRan, CacheSound
<1> QED BY <1>1, CheckpointInvariant, PTL

\* A resumed run never executes a call whose signature the row holds: the only
\* step that executes anything is ToolRuns, inside a call unknown to the run.
THEOREM SavedNeverRepeatedTheorem == Spec => SavedNeverRepeated
<1> DEFINE Fresh == \A s \in Sig : resume /\ ran'[s] > ran[s] => row.cache[s] = "none"
<1>1. ASSUME TypeOK, InCall, CheckpointInv, Next PROVE Fresh
  <2>1. CASE ToolRuns
    <3>1. Current.sig \in Sig
      BY <1>1, <2>1, CurrentType DEF ToolRuns, InCall, Call
    <3>2. \A s \in Sig : ran'[s] > ran[s] => s = Current.sig
      BY <1>1, <2>1, <3>1 DEF ToolRuns, TypeOK
    <3>3. resume => row.cache[Current.sig] = "none"
      BY <2>1, <1>1 DEF ToolRuns, CheckpointInv, CacheOnDisk, CallUnknown
    <3> QED BY <3>2, <3>3
  <2>2. CASE ~ToolRuns
    <3>1. ran' = ran
      BY <1>1, <2>2 DEF Next, Step, disk, Start, Think, Exhausted, ChatOverflow, ChatText,
         ChatTools, EndBatch, StopCanceled, SkipCall, AnswerFromCache, BeginCall, Approved,
         ToolRefused, SaveResult, MarkDone, RecordUser, RecordAssistant, Cancel, Die
    <3>2. \A s \in Sig : ran[s] \in Nat
      BY <1>1 DEF TypeOK
    <3> QED BY <3>1, <3>2
  <2> QED BY <2>1, <2>2
<1>2. TypeOK /\ InCall /\ CheckpointInv /\ [Next]_vars => [Fresh]_vars
  BY <1>1
<1> QED BY <1>2, CheckpointInvariant, PTL DEF Spec, SavedNeverRepeated

-----------------------------------------------------------------------------
\* The call that ran after a cancel was the one under way: no other is begun.
CancelInv == late <= 1 /\ (late > 0 => cancel /\ pc \notin {"approval", "tool"})

LEMMA CancelStep ==
  ASSUME TypeOK, CancelInv, [Next]_vars
  PROVE  CancelInv'
<1> USE DEF disk, turn, past, vars, CancelInv
<1>1. CASE Start
  BY <1>1 DEF Start
<1>2. CASE BeginCall
  BY <1>2 DEF BeginCall, CheckPasses, TypeOK
<1>3. CASE Approved
  BY <1>3 DEF Approved
<1>4. CASE ToolRuns
  BY <1>4 DEF ToolRuns, TypeOK
<1>5. CASE Cancel
  BY <1>5 DEF Cancel
<1>6. CASE Think \/ Exhausted \/ ChatOverflow \/ ChatText \/ ChatTools \/ EndBatch
           \/ StopCanceled \/ SkipCall \/ AnswerFromCache \/ ToolRefused \/ SaveResult
           \/ MarkDone \/ RecordUser \/ RecordAssistant \/ Die
  <2>1. late' = late /\ cancel' = cancel /\ pc' \notin {"approval", "tool"}
    BY <1>6 DEF Think, Exhausted, ChatOverflow, NextIteration, ChatText, ChatTools, EndBatch,
       StopCanceled, SkipCall, AnswerFromCache, Observe, ToolRefused, SaveResult, MarkDone,
       RecordUser, RecordAssistant, Die
  <2> QED BY <2>1
<1>7. CASE UNCHANGED vars
  BY <1>7
<1> QED BY <1>1, <1>2, <1>3, <1>4, <1>5, <1>6, <1>7 DEF Next, Step

\* After a cancel was accepted at most the call under way still runs.
THEOREM CancelStopsTheorem == Spec => []CancelStops
<1>1. Init => CancelInv
  BY DEF Init, CancelInv
<1>2. CancelInv => CancelStops
  BY DEF CancelInv, CancelStops
<1> QED BY <1>1, <1>2, CancelStep, TypeCorrect, PTL DEF Spec

\* An answer is about to be written only right after its question.
HistInv ==
  /\ AnswersFollowQuestions
  /\ pc = "recordAssistant" => Len(hist) > 0 /\ hist[Len(hist)] = "user"

\* What Append adds and leaves.
LEMMA AppendFacts ==
  ASSUME hist \in Seq({"user", "assistant"}), NEW x \in {"user", "assistant"},
         hist' = Append(hist, x)
  PROVE  /\ Len(hist') = Len(hist) + 1 /\ DOMAIN hist' = 1..Len(hist) + 1
         /\ hist'[Len(hist) + 1] = x
         /\ \A k \in 1..Len(hist) : hist'[k] = hist[k]
OBVIOUS

LEMMA HistStep ==
  ASSUME TypeOK, HistInv, [Next]_vars
  PROVE  HistInv'
<1> USE DEF disk, turn, past, vars, HistInv, AnswersFollowQuestions
<1>t. hist \in Seq({"user", "assistant"}) /\ Len(hist) \in Nat /\ DOMAIN hist = 1..Len(hist)
  BY DEF TypeOK
<1>1. CASE RecordUser
  <2>1. hist' = Append(hist, "user")
    BY <1>1 DEF RecordUser
  <2>2. /\ Len(hist') = Len(hist) + 1 /\ DOMAIN hist' = 1..Len(hist) + 1
        /\ hist'[Len(hist) + 1] = "user"
        /\ \A k \in 1..Len(hist) : hist'[k] = hist[k]
    BY <2>1, <1>t, AppendFacts
  <2>3. ASSUME NEW k \in 1..Len(hist) + 1, hist'[k] = "assistant"
        PROVE  k > 1 /\ hist'[k - 1] = "user"
    <3>1. k \in 1..Len(hist) /\ hist[k] = "assistant"
      BY <2>2, <2>3, <1>t
    <3>2. k > 1 /\ hist[k - 1] = "user"
      BY <3>1, <1>t
    <3> QED BY <3>1, <3>2, <2>2, <1>t
  <2> QED BY <2>2, <2>3, <1>t
<1>2. CASE RecordAssistant
  <2>1. hist' = Append(hist, "assistant") /\ pc' = "idle" /\ pc = "recordAssistant"
    BY <1>2 DEF RecordAssistant
  <2>2. /\ Len(hist') = Len(hist) + 1 /\ DOMAIN hist' = 1..Len(hist) + 1
        /\ \A k \in 1..Len(hist) : hist'[k] = hist[k]
    BY <2>1, <1>t, AppendFacts
  <2>3. ASSUME NEW k \in 1..Len(hist) + 1, hist'[k] = "assistant"
        PROVE  k > 1 /\ hist'[k - 1] = "user"
    <3>1. CASE k = Len(hist) + 1
      <4>1. Len(hist) > 0 /\ hist[Len(hist)] = "user"
        BY <2>1
      <4>2. hist'[Len(hist)] = "user"
        BY <4>1, <2>2, <1>t
      <4> QED BY <3>1, <4>1, <4>2, <1>t
    <3>2. CASE k \in 1..Len(hist)
      <4>1. k > 1 /\ hist[k - 1] = "user"
        BY <3>2, <2>2, <2>3, <1>t
      <4> QED BY <3>2, <4>1, <2>2, <1>t
    <3> QED BY <3>1, <3>2, <1>t
  <2> QED BY <2>1, <2>2, <2>3, <1>t
<1>3. CASE Start \/ Think \/ Exhausted \/ ChatOverflow \/ ChatText \/ ChatTools \/ EndBatch
           \/ StopCanceled \/ SkipCall \/ AnswerFromCache \/ BeginCall \/ Approved
           \/ ToolRuns \/ ToolRefused \/ SaveResult \/ MarkDone \/ Die
  <2>1. hist' = hist /\ pc' # "recordAssistant"
    BY <1>3 DEF Start, Think, Exhausted, ChatOverflow, NextIteration, ChatText, ChatTools,
       EndBatch, StopCanceled, SkipCall, AnswerFromCache, Observe, BeginCall, Approved,
       ToolRuns, ToolRefused, SaveResult, MarkDone, Die
  <2> QED BY <2>1
<1>4. CASE Cancel \/ UNCHANGED vars
  <2>1. hist' = hist /\ pc' = pc
    BY <1>4 DEF Cancel
  <2> QED BY <2>1
<1> QED BY <1>1, <1>2, <1>3, <1>4 DEF Next, Step

\* The transcript never shows an answer that no question precedes.
THEOREM AnswersFollowQuestionsTheorem == Spec => []AnswersFollowQuestions
<1>1. Init => HistInv
  BY DEF Init, HistInv, AnswersFollowQuestions
<1>2. HistInv => AnswersFollowQuestions
  BY DEF HistInv
<1> QED BY <1>1, <1>2, HistStep, TypeCorrect, PTL DEF Spec

-----------------------------------------------------------------------------
(* What is saved and what is sent stay whole, for providers that give every  *)
(* call an id of its own.                                                     *)

Complete(round) == \A k \in DOMAIN round.calls : round.calls[k].id \in round.answered

\* All rounds are answered, or all but the last one.
Whole(rs) == \A r \in DOMAIN rs : Complete(rs[r])
Earlier(rs) == \A r \in DOMAIN rs : r < Len(rs) => Complete(rs[r])

\* Ids are given out in order, and no two calls of a round share one.
NumberedTo(rs, n) ==
  \A r \in DOMAIN rs : \A k \in DOMAIN rs[r].calls :
    /\ rs[r].calls[k].id <= n
    /\ \A l \in DOMAIN rs[r].calls : rs[r].calls[k].id = rs[r].calls[l].id => k = l

AnsweredIn(rs, s) ==
  \E r \in DOMAIN rs : \E k \in DOMAIN rs[r].calls :
    rs[r].calls[k].given = s /\ rs[r].calls[k].id \in rs[r].answered
Agree(rs, c) == \A s \in Sig : c[s] # "none" <=> AnsweredIn(rs, s)

\* No call of the last round has been given another signature.
Fresh(rs) == \A k \in DOMAIN LastCalls(rs) : LastCalls(rs)[k].sig = LastCalls(rs)[k].given

\* Two histories that differ in pruned results and replaced arguments only.
Alike(a, b) ==
  /\ Len(a) = Len(b) /\ DOMAIN a = DOMAIN b
  /\ \A r \in DOMAIN a :
       /\ a[r].answered = b[r].answered /\ DOMAIN a[r].calls = DOMAIN b[r].calls
       /\ \A k \in DOMAIN a[r].calls :
            a[r].calls[k].id = b[r].calls[k].id /\ a[r].calls[k].given = b[r].calls[k].given

LEMMA PruneAlike ==
  ASSUME NEW rs \in Seq(Round), NEW b
  PROVE  Alike(rs, Prune(rs, b))
<1>1. Prune(rs, b) \in Seq(Round) /\ DOMAIN Prune(rs, b) = DOMAIN rs
  BY PruneFacts
<1>2. Len(Prune(rs, b)) = Len(rs)
  BY <1>1
<1> QED BY <1>1, <1>2, PruneFacts DEF Alike

LEMMA AlikeKeeps ==
  ASSUME NEW a \in Seq(Round), NEW b \in Seq(Round), Alike(a, b), NEW n, NEW c
  PROVE  /\ NumberedTo(a, n) => NumberedTo(b, n)
         /\ Agree(a, c) => Agree(b, c)
         /\ Whole(a) => Whole(b)
         /\ Earlier(a) => Earlier(b)
         /\ LastAnswered(b) = LastAnswered(a)
<1>1. NumberedTo(a, n) => NumberedTo(b, n)
  BY DEF Alike, NumberedTo
<1>2. \A s : AnsweredIn(a, s) <=> AnsweredIn(b, s)
  BY DEF Alike, AnsweredIn
<1>3. (Whole(a) => Whole(b)) /\ (Earlier(a) => Earlier(b))
  BY DEF Alike, Whole, Earlier, Complete
<1>4. a = <<>> <=> b = <<>>
  BY DEF Alike
<1>5. a # <<>> => Len(a) \in DOMAIN a
  OBVIOUS
<1> QED BY <1>1, <1>2, <1>3, <1>4, <1>5 DEF Alike, Agree, LastAnswered

\* Calls just asked for, with ids of their own, are not touched by pruning.
LEMMA PruneLast ==
  ASSUME NEW rs \in Seq(Round), rs # <<>>, NEW b, LastAnswered(rs) = {},
         \A k \in DOMAIN LastCalls(rs) : \A q \in DOMAIN rs : q # Len(rs) =>
            \A l \in DOMAIN rs[q].calls : rs[q].calls[l].id # LastCalls(rs)[k].id
  PROVE  LastCalls(Prune(rs, b)) = LastCalls(rs)
<1> DEFINE r == Len(rs)
<1>1. r \in DOMAIN rs /\ LastCalls(rs) = rs[r].calls /\ rs[r].answered = {}
  BY DEF LastCalls, LastAnswered
<1>2. Prune(rs, b) \in Seq(Round) /\ DOMAIN Prune(rs, b) = DOMAIN rs
  BY PruneFacts
<1>3. Len(Prune(rs, b)) = r /\ Prune(rs, b) # <<>>
  BY <1>1, <1>2
<1>4. ASSUME NEW k \in DOMAIN rs[r].calls, NEW q \in DOMAIN rs
      PROVE  \/ rs[r].calls[k].id \notin rs[q].answered
             \/ \A l \in DOMAIN rs[q].calls : rs[q].calls[l].id # rs[r].calls[k].id
  BY <1>1
<1>5. Prune(rs, b)[r].calls = rs[r].calls
  BY <1>1, <1>4, PruneFacts
<1> QED BY <1>1, <1>3, <1>5 DEF LastCalls

\* A result is added to the last round and to nothing else.
LEMMA ResultFacts ==
  ASSUME NEW rs \in Seq(Round), rs # <<>>, NEW id \in Id
  PROVE  /\ Len(AddResult(rs, id)) = Len(rs) /\ DOMAIN AddResult(rs, id) = DOMAIN rs
         /\ AddResult(rs, id) # <<>> /\ Len(rs) \in DOMAIN rs
         /\ \A r \in DOMAIN rs :
              /\ AddResult(rs, id)[r].calls = rs[r].calls
              /\ r # Len(rs) => AddResult(rs, id)[r].answered = rs[r].answered
              /\ r = Len(rs) => AddResult(rs, id)[r].answered = rs[r].answered \cup {id}
<1>1. DOMAIN AddResult(rs, id) = DOMAIN rs /\ Len(rs) \in DOMAIN rs
  BY DEF AddResult
<1>2. AddResult(rs, id) \in Seq(Round)
  BY AddResultType
<1>3. Len(AddResult(rs, id)) = Len(rs)
  BY <1>1, <1>2
<1>4. ASSUME NEW r \in DOMAIN rs
      PROVE  /\ AddResult(rs, id)[r].calls = rs[r].calls
             /\ r # Len(rs) => AddResult(rs, id)[r].answered = rs[r].answered
             /\ r = Len(rs) => AddResult(rs, id)[r].answered = rs[r].answered \cup {id}
  <2>1. rs[r] \in Round
    OBVIOUS
  <2>2. r = Len(rs) => AddResult(rs, id)[r] = [rs[r] EXCEPT !.answered = @ \cup {id}]
    BY DEF AddResult
  <2>3. r # Len(rs) => AddResult(rs, id)[r] = rs[r]
    BY DEF AddResult
  <2>4. [rs[r] EXCEPT !.answered = @ \cup {id}].calls = rs[r].calls
    BY <2>1 DEF Round
  <2>5. [rs[r] EXCEPT !.answered = @ \cup {id}].answered = rs[r].answered \cup {id}
    BY <2>1 DEF Round
  <2> QED BY <2>2, <2>3, <2>4, <2>5
<1>5. AddResult(rs, id) # <<>>
  BY <1>1
<1> QED BY <1>1, <1>3, <1>4, <1>5

\* Both halves of the checkpoint learn of a result at once.
LEMMA ResultAgrees ==
  ASSUME NEW rs \in Seq(Round), rs # <<>>, NEW n, NumberedTo(rs, n),
         NEW j \in DOMAIN LastCalls(rs),
         NEW c \in [Sig -> Cached], NEW v \in Cached \ {"none"}, Agree(rs, c), Fresh(rs)
  PROVE  Agree(AddResult(rs, LastCalls(rs)[j].id), [c EXCEPT ![LastCalls(rs)[j].sig] = v])
<1> DEFINE id == LastCalls(rs)[j].id
           sig == LastCalls(rs)[j].sig
           new == AddResult(rs, id)
           last == Len(rs)
<1>1. LastCalls(rs) = rs[last].calls /\ last \in DOMAIN rs
  BY DEF LastCalls
<1>2. id \in Id /\ sig \in Sig
  <2>1. LastCalls(rs) \in Seq(Call)
    BY LastType
  <2>2. LastCalls(rs)[j] \in Call
    BY <2>1
  <2> QED BY <2>2 DEF Call
<1>3. /\ DOMAIN new = DOMAIN rs
      /\ \A r \in DOMAIN rs :
           /\ new[r].calls = rs[r].calls
           /\ r # last => new[r].answered = rs[r].answered
           /\ r = last => new[r].answered = rs[r].answered \cup {id}
  BY <1>2, ResultFacts
<1>g. rs[last].calls[j].given = sig
  BY <1>1 DEF Fresh
<1>4. AnsweredIn(new, sig)
  BY <1>1, <1>3, <1>g DEF AnsweredIn
<1>5. ASSUME NEW s \in Sig, s # sig PROVE AnsweredIn(new, s) <=> AnsweredIn(rs, s)
  <2>1. ASSUME NEW r \in DOMAIN rs, NEW k \in DOMAIN rs[r].calls, rs[r].calls[k].given = s
        PROVE  rs[r].calls[k].id \in new[r].answered <=> rs[r].calls[k].id \in rs[r].answered
    <3>1. CASE r # last
      BY <3>1, <1>3
    <3>2. CASE r = last
      <4>1. rs[r].calls[k].id # id
        BY <3>2, <1>1, <1>5, <1>g, <2>1 DEF NumberedTo
      <4> QED BY <3>2, <4>1, <1>3
    <3> QED BY <3>1, <3>2
  <2> HIDE DEF new, sig, id
  <2> QED BY <2>1, <1>3 DEF AnsweredIn
<1> HIDE DEF new, sig, id
<1>6. [c EXCEPT ![sig] = v][sig] # "none" /\ \A s \in Sig : s # sig => [c EXCEPT ![sig] = v][s] = c[s]
  BY <1>2
<1>7. Agree(new, [c EXCEPT ![sig] = v])
  BY <1>2, <1>4, <1>5, <1>6 DEF Agree
<1> QED BY <1>7 DEF new, sig, id

LEMMA ResultNumbered ==
  ASSUME NEW rs \in Seq(Round), rs # <<>>, NEW n, NEW id \in Id, NumberedTo(rs, n)
  PROVE  NumberedTo(AddResult(rs, id), n)
BY ResultFacts DEF NumberedTo

\* The batch that the model asks for becomes the last round.
LEMMA AppendRound ==
  ASSUME NEW rs \in Seq(Round), NEW calls \in Seq(Call), NEW c, NEW n \in Nat, NEW m \in Nat,
         n <= m, Whole(rs), Agree(rs, c), NumberedTo(rs, n),
         \A k \in DOMAIN calls : /\ calls[k].id > n /\ calls[k].id <= m
                                 /\ \A l \in DOMAIN calls : calls[k].id = calls[l].id => k = l
  PROVE  LET new == Append(rs, [calls |-> calls, answered |-> {}, pruned |-> {}])
         IN  /\ new \in Seq(Round) /\ Earlier(new) /\ Agree(new, c) /\ NumberedTo(new, m)
             /\ new # <<>> /\ LastCalls(new) = calls /\ LastAnswered(new) = {}
             /\ \A q \in DOMAIN new : q # Len(new) => \A l \in DOMAIN new[q].calls :
                  \A k \in DOMAIN calls : new[q].calls[l].id # calls[k].id
<1> DEFINE round == [calls |-> calls, answered |-> {}, pruned |-> {}]
           new == Append(rs, round)
<1>1. round \in Round /\ round.calls = calls /\ round.answered = {}
  BY DEF Round
<1> HIDE DEF round
<1>2. /\ new \in Seq(Round) /\ Len(new) = Len(rs) + 1 /\ DOMAIN new = 1..Len(rs) + 1
      /\ new[Len(rs) + 1] = round /\ \A r \in 1..Len(rs) : new[r] = rs[r]
      /\ DOMAIN rs = 1..Len(rs) /\ Len(rs) \in Nat /\ new # <<>>
  BY <1>1
<1> HIDE DEF new
<1>3. Earlier(new)
  BY <1>2 DEF Earlier, Whole
<1>4. \A s : AnsweredIn(new, s) <=> AnsweredIn(rs, s)
  <2>1. ASSUME NEW s, AnsweredIn(new, s) PROVE AnsweredIn(rs, s)
    <3>1. PICK r \in DOMAIN new : \E k \in DOMAIN new[r].calls :
             new[r].calls[k].given = s /\ new[r].calls[k].id \in new[r].answered
      BY <2>1 DEF AnsweredIn
    <3>2. r \in 1..Len(rs)
      BY <3>1, <1>1, <1>2
    <3> QED BY <3>1, <3>2, <1>2 DEF AnsweredIn
  <2>2. ASSUME NEW s, AnsweredIn(rs, s) PROVE AnsweredIn(new, s)
    <3>1. PICK r \in DOMAIN rs : \E k \in DOMAIN rs[r].calls :
             rs[r].calls[k].given = s /\ rs[r].calls[k].id \in rs[r].answered
      BY <2>2 DEF AnsweredIn
    <3> QED BY <3>1, <1>2 DEF AnsweredIn
  <2> QED BY <2>1, <2>2
<1>5. NumberedTo(new, m)
  <2>1. ASSUME NEW r \in DOMAIN new, NEW k \in DOMAIN new[r].calls
        PROVE  /\ new[r].calls[k].id <= m
               /\ \A l \in DOMAIN new[r].calls : new[r].calls[k].id = new[r].calls[l].id => k = l
    <3>1. CASE r = Len(rs) + 1
      BY <3>1, <1>1, <1>2
    <3>2. CASE r \in 1..Len(rs)
      <4>1. new[r] = rs[r] /\ rs[r] \in Round
        BY <3>2, <1>2
      <4>2. rs[r].calls[k] \in Call
        BY <4>1 DEF Round
      <4>3. rs[r].calls[k].id \in Nat /\ rs[r].calls[k].id <= n
        BY <4>1, <4>2, <3>2, <1>2 DEF Call, Id, NumberedTo
      <4> QED BY <4>1, <4>3, <3>2, <1>2 DEF NumberedTo
    <3> QED BY <3>1, <3>2, <1>2
  <2> QED BY <2>1 DEF NumberedTo
<1>6. LastCalls(new) = calls /\ LastAnswered(new) = {}
  BY <1>1, <1>2 DEF LastCalls, LastAnswered
<1>7. Agree(new, c)
  BY <1>4 DEF Agree
<1>8. ASSUME NEW q \in DOMAIN new, q # Len(new), NEW l \in DOMAIN new[q].calls,
             NEW k \in DOMAIN calls
      PROVE  new[q].calls[l].id # calls[k].id
  <2>1. q \in 1..Len(rs) /\ new[q] = rs[q] /\ rs[q] \in Round
    BY <1>2, <1>8
  <2>2. rs[q].calls[l] \in Call /\ calls[k] \in Call
    BY <2>1 DEF Round
  <2>3. rs[q].calls[l].id <= n /\ calls[k].id > n
    BY <2>1, <1>2 DEF NumberedTo
  <2> QED BY <2>1, <2>2, <2>3 DEF Call, Id
<1> QED BY <1>2, <1>3, <1>5, <1>6, <1>7, <1>8 DEF new, round

\* With ids of its own no call of a new batch is taken for an earlier one.
LEMMA BatchIds ==
  ASSUME ~RepeatIds, nextId \in Nat, NEW sigs \in Batches
  PROVE  /\ \A k \in DOMAIN WithIds(sigs) :
              /\ WithIds(sigs)[k].id > nextId /\ WithIds(sigs)[k].id <= nextId + Len(sigs)
              /\ \A l \in DOMAIN WithIds(sigs) :
                   WithIds(sigs)[k].id = WithIds(sigs)[l].id => k = l
         /\ DOMAIN WithIds(sigs) = DOMAIN sigs
         /\ \A k \in DOMAIN sigs :
              WithIds(sigs)[k].sig = sigs[k] /\ WithIds(sigs)[k].given = sigs[k]
<1>1. PICK n \in 1..MaxBatch : sigs \in [1..n -> Sig]
  BY DEF Batches
<1>2. n \in Nat /\ DOMAIN sigs = 1..n /\ Len(sigs) = n
  BY <1>1, AgentTurnAssumption
<1>3. DOMAIN WithIds(sigs) = 1..n
  BY <1>2 DEF WithIds
<1>4. \A k \in 1..n : /\ WithIds(sigs)[k].id = nextId + k
                         /\ WithIds(sigs)[k].sig = sigs[k] /\ WithIds(sigs)[k].given = sigs[k]
  BY <1>2 DEF WithIds
<1> QED BY <1>2, <1>3, <1>4

InBatch == pc \in {"batch", "approval", "tool", "save"}

\* The batch is the last round, and what was passed in it is answered.
BatchInv ==
  /\ batch = LastCalls(rounds) /\ Fresh(rounds)
  /\ \A k \in 1..at - 1 : batch[k].id \in LastAnswered(rounds)
  /\ \A k \in DOMAIN batch :
       batch[k].id \in (IF prelude THEN skip ELSE completed)
         => batch[k].id \in LastAnswered(rounds)

HistoryInv ==
  /\ NumberedTo(rounds, nextId) /\ NumberedTo(row.rounds, nextId)
  /\ Agree(rounds, cache) /\ Agree(row.rounds, row.cache)
  /\ Earlier(rounds) /\ Earlier(row.rounds) /\ Fresh(row.rounds)
  /\ pc \in {"think", "chat"} => Whole(rounds)
  /\ \A id \in completed : id <= nextId
  /\ InBatch => BatchInv

LEMMA EmptyHistory ==
  ASSUME NEW n
  PROVE  /\ NumberedTo(<<>>, n) /\ Agree(<<>>, NoCache) /\ Earlier(<<>>) /\ Whole(<<>>)
         /\ Fresh(<<>>)
BY DEF NumberedTo, Agree, AnsweredIn, Earlier, Whole, NoCache, Fresh, LastCalls

LEMMA HistoryInit == Init => HistoryInv
BY EmptyHistory DEF Init, HistoryInv, InBatch

\* run_turn is left: its locals are gone and the row keeps what it holds.
LEMMA LeaveHistory ==
  ASSUME HistoryInv, Forget, row'.rounds = row.rounds, row'.cache = row.cache,
         nextId' = nextId, pc' \in {"idle", "recordUser"}
  PROVE  HistoryInv'
BY EmptyHistory DEF HistoryInv, Forget, InBatch

LEMMA MarkKeepsRounds ==
  ASSUME TypeOK, NEW status, Mark(status)
  PROVE  row'.rounds = row.rounds
  BY DEF Mark, TypeOK

\* A result is saved: the call at hand is answered, in memory and on disk.
LEMMA ObserveHistory ==
  ASSUME TypeOK, HistoryInv, InBatch, at \in DOMAIN batch, NEW cached \in Cached \ {"none"},
         Observe(cached), batch' = batch, prelude' = prelude, skip' = skip, nextId' = nextId
  PROVE  HistoryInv'
<1> DEFINE id == Current.id
<1>1. /\ rounds \in Seq(Round) /\ batch = LastCalls(rounds) /\ nextId \in Nat
      /\ cache \in [Sig -> Cached] /\ at \in 1..Len(batch) /\ batch \in Seq(Call)
  BY DEF TypeOK, HistoryInv, BatchInv
<1>2. rounds # <<>>
  BY <1>1 DEF LastCalls
<1>3. Current = LastCalls(rounds)[at] /\ Current \in Call /\ id \in Id
  BY <1>1, CurrentType DEF Current, Call
<1>4. /\ rounds' = AddResult(rounds, id) /\ completed' = completed \cup {id}
      /\ cache' = [cache EXCEPT ![Current.sig] = cached]
      /\ row'.rounds = rounds' /\ row'.cache = cache' /\ at' = at + 1 /\ pc' = "batch"
  BY DEF Observe
<1>5. NumberedTo(rounds', nextId)
  BY <1>1, <1>2, <1>3, <1>4, ResultNumbered DEF HistoryInv
<1>6. Agree(rounds', cache')
  <2>1. /\ at \in DOMAIN LastCalls(rounds) /\ NumberedTo(rounds, nextId)
        /\ Agree(rounds, cache) /\ Fresh(rounds)
    BY <1>1 DEF HistoryInv, BatchInv
  <2>2. Agree(AddResult(rounds, LastCalls(rounds)[at].id),
              [cache EXCEPT ![LastCalls(rounds)[at].sig] = cached])
    BY <1>1, <1>2, <2>1, ResultAgrees
  <2> QED BY <1>3, <1>4, <2>2
<1> DEFINE last == Len(rounds)
<1>7. /\ Len(rounds') = last /\ DOMAIN rounds' = DOMAIN rounds /\ rounds' # <<>>
      /\ last \in DOMAIN rounds
      /\ \A r \in DOMAIN rounds :
           /\ rounds'[r].calls = rounds[r].calls
           /\ r # last => rounds'[r].answered = rounds[r].answered
           /\ r = last => rounds'[r].answered = rounds[r].answered \cup {id}
  BY <1>1, <1>2, <1>3, <1>4, ResultFacts
<1>8. Earlier(rounds')
  BY <1>7 DEF Earlier, Complete, HistoryInv
<1>9. /\ LastCalls(rounds') = LastCalls(rounds)
      /\ LastAnswered(rounds') = LastAnswered(rounds) \cup {id}
  BY <1>2, <1>7 DEF LastCalls, LastAnswered
<1>f. Fresh(rounds')
  BY <1>9 DEF Fresh, HistoryInv, BatchInv
<1>10. id <= nextId
  <2>1. rounds[last].calls = batch /\ at \in DOMAIN batch /\ Current = batch[at]
    BY <1>1, <1>2, <1>3 DEF LastCalls
  <2> QED BY <2>1, <1>7 DEF HistoryInv, NumberedTo
<1>11. \A x \in completed' : x <= nextId
  BY <1>4, <1>10 DEF HistoryInv
<1>12. \A k \in 1..at' - 1 : batch[k].id \in LastAnswered(rounds')
  <2>1. ASSUME NEW k \in 1..at' - 1 PROVE batch[k].id \in LastAnswered(rounds')
    <3>1. k \in 1..at - 1 \/ k = at
      BY <1>1, <1>4
    <3> QED BY <3>1, <1>9, <1>3, <1>1 DEF HistoryInv, BatchInv
  <2> QED BY <2>1
<1>13. \A k \in DOMAIN batch :
         batch[k].id \in (IF prelude THEN skip ELSE completed')
           => batch[k].id \in LastAnswered(rounds')
  BY <1>4, <1>9 DEF HistoryInv, BatchInv
<1>14. BatchInv'
  <2>1. prelude' = prelude /\ skip' = skip /\ batch' = batch
    OBVIOUS
  <2> HIDE DEF id
  <2> QED BY <2>1, <1>1, <1>9, <1>12, <1>13, <1>f DEF BatchInv
<1> HIDE DEF id
<1> QED BY <1>4, <1>5, <1>6, <1>8, <1>11, <1>14, <1>f DEF HistoryInv, InBatch

LEMMA HistoryStep ==
  ASSUME ~RepeatIds, TypeOK, InCall, HistoryInv, [Next]_vars
  PROVE  HistoryInv'
<1> USE DEF disk, turn, past, vars
<1>t. /\ rounds \in Seq(Round) /\ row.rounds \in Seq(Round) /\ batch \in Seq(Call)
      /\ nextId \in Nat /\ at \in 1..Len(batch) + 1
  BY DEF TypeOK
<1>1. CASE Start
  <2>1. completed' = {} /\ nextId' = nextId /\ row' = row
    BY <1>1 DEF Start
  <2>2. CASE row.status \in Resumable
    <3>1. /\ rounds' = row.rounds /\ cache' = row.cache /\ pc' = "batch" /\ prelude' = TRUE
          /\ batch' = LastCalls(rounds') /\ at' = 1 /\ skip' = LastAnswered(rounds')
      BY <1>1, <2>2 DEF Start
    <3>2. BatchInv'
      BY <3>1 DEF BatchInv, HistoryInv
    <3> QED BY <2>1, <3>1, <3>2 DEF HistoryInv, InBatch
  <2>3. CASE row.status \notin Resumable
    <3>1. rounds' = <<>> /\ cache' = NoCache /\ pc' = "think"
      BY <1>1, <2>3 DEF Start
    <3> QED BY <2>1, <3>1, EmptyHistory DEF HistoryInv, InBatch
  <2> QED BY <2>2, <2>3
<1>2. CASE Think \/ Exhausted \/ ChatText \/ BeginCall \/ Approved \/ ToolRuns \/ ToolRefused
           \/ RecordUser \/ RecordAssistant \/ Cancel \/ UNCHANGED vars
  <2>1. /\ row' = row /\ rounds' = rounds /\ cache' = cache /\ nextId' = nextId
        /\ completed' = completed /\ batch' = batch /\ at' = at /\ skip' = skip
        /\ prelude' = prelude
        /\ pc' \in {"think", "chat"} => pc \in {"think", "chat"}
        /\ pc' \in {"batch", "approval", "tool", "save"}
             => pc \in {"batch", "approval", "tool", "save"}
    BY <1>2 DEF Think, Exhausted, ChatText, BeginCall, Approved, ToolRuns, ToolRefused,
       RecordUser, RecordAssistant, Cancel
  <2> QED BY <2>1 DEF HistoryInv, InBatch, BatchInv
<1>3. CASE ChatOverflow
  <2>1. /\ rounds' = Prune(rounds, Budget \div 2) /\ pc = "chat" /\ pc' = "think"
        /\ row' = row /\ cache' = cache /\ nextId' = nextId /\ completed' = completed
    BY <1>3 DEF ChatOverflow, NextIteration
  <2>2. rounds' \in Seq(Round) /\ Alike(rounds, rounds')
    BY <1>t, <2>1, PruneType, PruneAlike
  <2> QED BY <1>t, <2>1, <2>2, AlikeKeeps DEF HistoryInv, InBatch
<1>4. CASE ChatTools
  <2>1. PICK sigs \in Batches :
          /\ batch' = WithIds(sigs)
          /\ rounds' = Prune(Append(rounds, [calls |-> batch', answered |-> {}, pruned |-> {}]),
                             Budget)
          /\ nextId' = nextId + Len(sigs)
    BY <1>4 DEF ChatTools
  <2>2. /\ pc = "chat" /\ at' = 1 /\ skip' = {} /\ pc' = "batch" /\ row' = row
        /\ cache' = cache /\ prelude' = prelude /\ completed' = completed
    BY <1>4 DEF ChatTools
  <2>3. /\ batch' \in Seq(Call) /\ Len(sigs) \in Nat
        /\ \A k \in DOMAIN batch' :
             /\ batch'[k].id > nextId /\ batch'[k].id <= nextId'
             /\ \A l \in DOMAIN batch' : batch'[k].id = batch'[l].id => k = l
    BY <1>t, <2>1, BatchType, BatchIds
  <2> DEFINE new == Append(rounds, [calls |-> batch', answered |-> {}, pruned |-> {}])
  <2>4. nextId <= nextId' /\ nextId' \in Nat
    BY <1>t, <2>1, <2>3
  <2>5. /\ new \in Seq(Round) /\ Earlier(new) /\ Agree(new, cache)
        /\ NumberedTo(new, nextId') /\ LastCalls(new) = batch' /\ LastAnswered(new) = {}
        /\ new # <<>>
        /\ \A q \in DOMAIN new : q # Len(new) => \A l \in DOMAIN new[q].calls :
             \A k \in DOMAIN batch' : new[q].calls[l].id # batch'[k].id
    BY <1>t, <2>2, <2>3, <2>4, AppendRound DEF HistoryInv
  <2> HIDE DEF new
  <2>6. rounds' \in Seq(Round) /\ Alike(new, rounds')
    BY <2>1, <2>5, PruneType, PruneAlike DEF new
  <2>7. /\ Earlier(rounds') /\ Agree(rounds', cache) /\ NumberedTo(rounds', nextId')
    BY <2>5, <2>6, AlikeKeeps
  <2>l. LastCalls(rounds') = batch'
    <3>1. rounds' = Prune(new, Budget)
      BY <2>1 DEF new
    <3> QED BY <3>1, <2>5, PruneLast
  <2>g. \A k \in DOMAIN batch' : batch'[k].sig = batch'[k].given
    BY <1>t, <2>1, BatchIds
  <2>8. NumberedTo(row.rounds, nextId')
    <3>1. ASSUME NEW r \in DOMAIN row.rounds, NEW k \in DOMAIN row.rounds[r].calls
          PROVE  row.rounds[r].calls[k].id \in Nat
      <4>1. row.rounds[r] \in Round
        BY <1>t
      <4>2. row.rounds[r].calls[k] \in Call
        BY <4>1 DEF Round
      <4> QED BY <4>2 DEF Call, Id
    <3> QED BY <1>t, <2>4, <3>1 DEF HistoryInv, NumberedTo
  <2>9. \A x \in completed : x \in Nat /\ x <= nextId
    BY DEF HistoryInv, TypeOK, Id
  <2>10. \A k \in DOMAIN batch' : batch'[k].id \notin completed
    <3>1. \A k \in DOMAIN batch' : batch'[k] \in Call
      BY <2>3
    <3> QED BY <1>t, <2>3, <2>9, <3>1 DEF Call, Id
  <2>11. BatchInv'
    BY <2>2, <2>l, <2>g, <2>10 DEF BatchInv, Fresh
  <2> QED BY <1>t, <2>2, <2>4, <2>7, <2>8, <2>9, <2>11 DEF HistoryInv, InBatch
<1>5. CASE EndBatch
  <2>1. /\ pc = "batch" /\ at > Len(batch) /\ pc' = "think"
        /\ row' = row /\ rounds' = rounds /\ cache' = cache /\ nextId' = nextId
        /\ completed' = completed
    <3>1. CASE prelude
      BY <1>5, <3>1 DEF EndBatch
    <3>2. CASE ~prelude
      BY <1>5, <3>2 DEF EndBatch, NextIteration
    <3> QED BY <3>1, <3>2
  <2>2. \A k \in DOMAIN batch : batch[k].id \in LastAnswered(rounds)
    <3>1. \A k \in DOMAIN batch : k \in 1..at - 1
      BY <1>t, <2>1
    <3> QED BY <2>1, <3>1 DEF HistoryInv, InBatch, BatchInv
  <2>3. Whole(rounds)
    <3>1. ASSUME NEW r \in DOMAIN rounds PROVE Complete(rounds[r])
      <4>1. CASE r < Len(rounds)
        BY <4>1 DEF HistoryInv, Earlier
      <4>2. CASE r = Len(rounds)
        <5>1. rounds # <<>>
          BY <4>2, <1>t
        <5>2. batch = rounds[r].calls /\ LastAnswered(rounds) = rounds[r].answered
          BY <4>2, <5>1, <2>1 DEF HistoryInv, InBatch, BatchInv, LastCalls, LastAnswered
        <5> QED BY <5>2, <2>2 DEF Complete
      <4> QED BY <4>1, <4>2, <1>t
    <3> QED BY <3>1 DEF Whole
  <2> QED BY <2>1, <2>3 DEF HistoryInv, InBatch
<1>6. CASE StopCanceled
  BY <1>6, MarkKeepsCache, MarkKeepsRounds, LeaveHistory DEF StopCanceled
<1>7. CASE SkipCall
  <2>1. /\ pc = "batch" /\ at <= Len(batch) /\ Skipped /\ at' = at + 1 /\ pc' = pc
        /\ row' = row /\ rounds' = rounds /\ cache' = cache /\ nextId' = nextId
        /\ completed' = completed /\ batch' = batch /\ skip' = skip /\ prelude' = prelude
    BY <1>7 DEF SkipCall
  <2>2. BatchInv
    BY <2>1 DEF HistoryInv, InBatch
  <2>3. batch[at].id \in LastAnswered(rounds)
    BY <1>t, <2>1, <2>2 DEF BatchInv, Skipped, Current
  <2>4. \A k \in 1..at' - 1 : batch[k].id \in LastAnswered(rounds)
    <3>1. ASSUME NEW k \in 1..at' - 1 PROVE batch[k].id \in LastAnswered(rounds)
      <4>1. k \in 1..at - 1 \/ k = at
        BY <1>t, <2>1
      <4> QED BY <4>1, <2>2, <2>3 DEF BatchInv
    <3> QED BY <3>1
  <2> QED BY <2>1, <2>2, <2>4 DEF HistoryInv, InBatch, BatchInv
<1>8. CASE AnswerFromCache
  <2>1. /\ at \in DOMAIN batch /\ InBatch /\ Observe(cache[Current.sig])
        /\ batch' = batch /\ prelude' = prelude /\ skip' = skip /\ nextId' = nextId
    BY <1>8, <1>t DEF AnswerFromCache, InBatch
  <2>2. cache[Current.sig] \in Cached \ {"none"}
    BY <1>8, <2>1, CurrentType DEF AnswerFromCache, Known, TypeOK, Call
  <2> QED BY <2>1, <2>2, ObserveHistory
<1>9. CASE SaveResult
  <2>1. /\ at \in DOMAIN batch /\ InBatch /\ Observe(result)
        /\ batch' = batch /\ prelude' = prelude /\ skip' = skip /\ nextId' = nextId
    BY <1>9 DEF SaveResult, InBatch, InCall
  <2>2. result \in Cached \ {"none"}
    BY DEF TypeOK, Cached, Result
  <2> QED BY <2>1, <2>2, ObserveHistory
<1>10. CASE MarkDone
  BY <1>10, MarkKeepsCache, MarkKeepsRounds, LeaveHistory DEF MarkDone
<1>11. CASE Die
  BY <1>11, LeaveHistory DEF Die
<1> QED BY <1>1, <1>2, <1>3, <1>4, <1>5, <1>6, <1>7, <1>8, <1>9, <1>10, <1>11 DEF Next, Step

\* With a provider that gives every call its own id, whatever cancels, crashes,
\* overflows, prunes and resumes happen: the two halves of the row agree, what a
\* resume has still to run is what was asked for, and no request carries a call
\* without its result.
THEOREM HistoryConsistentTheorem == ~RepeatIds /\ Spec => []HistoryConsistent
<1>1. TypeOK /\ HistoryInv => HistoryConsistent
  <2>1. HistoryInv => CheckpointConsistent
    BY DEF HistoryInv, Agree, AnsweredIn, CheckpointConsistent
  <2>p. ASSUME TypeOK, HistoryInv PROVE PendingIntact
    <3>1. ASSUME NEW r \in DOMAIN row.rounds, NEW k \in DOMAIN row.rounds[r].calls,
                 row.rounds[r].calls[k].id \notin row.rounds[r].answered
          PROVE  row.rounds[r].calls[k].sig = row.rounds[r].calls[k].given
      <4>1. row.rounds \in Seq(Round)
        BY <2>p DEF TypeOK
      <4>2. r = Len(row.rounds) /\ row.rounds # <<>>
        BY <2>p, <3>1, <4>1 DEF HistoryInv, Earlier, Complete
      <4>3. LastCalls(row.rounds) = row.rounds[r].calls
        BY <4>2 DEF LastCalls
      <4> QED BY <2>p, <4>3 DEF HistoryInv, Fresh
    <3> QED BY <3>1 DEF PendingIntact
  <2>2. HistoryInv => RequestComplete
    BY DEF HistoryInv, Whole, Complete, RequestComplete
  <2> QED BY <2>1, <2>p, <2>2 DEF HistoryConsistent
<1>2. ~RepeatIds /\ TypeOK /\ InCall /\ HistoryInv /\ [Next]_vars
        => (TypeOK /\ InCall /\ HistoryInv)'
  BY TypeStep, HistoryStep
<1>3. ~RepeatIds /\ Spec => [](TypeOK /\ InCall /\ HistoryInv)
  <2>1. CASE ~RepeatIds
    <3>1. TypeOK /\ InCall /\ HistoryInv /\ [Next]_vars => (TypeOK /\ InCall /\ HistoryInv)'
      BY <1>2, <2>1
    <3> QED BY <3>1, InitType, HistoryInit, PTL DEF Spec
  <2>2. CASE RepeatIds
    BY <2>2
  <2> QED BY <2>1, <2>2
<1> QED BY <1>1, <1>3, PTL

-----------------------------------------------------------------------------
(* Effects: every execution was asked for, or repeats one that a crash cut    *)
(* off from its record.  A call of the last round is worth one execution      *)
(* until it is answered; what is in memory is worth no less than the row.     *)

Pending(rs, s) ==
  {k \in DOMAIN LastCalls(rs) :
     LastCalls(rs)[k].sig = s /\ LastCalls(rs)[k].id \notin LastAnswered(rs)}
Worth(rs, s) == Cardinality(Pending(rs, s))

LEMMA WorthType ==
  ASSUME NEW rs \in Seq(Round), NEW s
  PROVE  IsFiniteSet(Pending(rs, s)) /\ Worth(rs, s) \in Nat
<1>1. LastCalls(rs) \in Seq(Call)
  BY LastType
<1>2. DOMAIN LastCalls(rs) = 1..Len(LastCalls(rs)) /\ Len(LastCalls(rs)) \in Nat
  BY <1>1
<1>3. IsFiniteSet(DOMAIN LastCalls(rs))
  BY <1>2, FS_Interval
<1>4. IsFiniteSet(Pending(rs, s))
  BY <1>3, FS_Subset DEF Pending
<1> QED BY <1>4, FS_CardinalityType DEF Worth

LEMMA WholeWorth ==
  ASSUME NEW rs \in Seq(Round), Whole(rs), NEW s
  PROVE  Worth(rs, s) = 0
<1>1. rs # <<>> => Len(rs) \in DOMAIN rs
  OBVIOUS
<1>2. Pending(rs, s) = {}
  BY <1>1 DEF Pending, Whole, Complete, LastCalls, LastAnswered
<1> QED BY <1>2, FS_EmptySet DEF Worth

\* Answering a call takes its worth away and adds none.
LEMMA ResultWorth ==
  ASSUME NEW rs \in Seq(Round), rs # <<>>, NEW j \in DOMAIN LastCalls(rs), NEW s
  PROVE  LET new == AddResult(rs, LastCalls(rs)[j].id)
         IN  /\ Worth(new, s) <= Worth(rs, s)
             /\ LastCalls(rs)[j].id \notin LastAnswered(rs) /\ LastCalls(rs)[j].sig = s
                  => Worth(new, s) <= Worth(rs, s) - 1
<1> DEFINE id == LastCalls(rs)[j].id
           new == AddResult(rs, id)
<1>1. id \in Id
  <2>1. LastCalls(rs) \in Seq(Call)
    BY LastType
  <2>2. LastCalls(rs)[j] \in Call
    BY <2>1
  <2> QED BY <2>2 DEF Call
<1>2. new \in Seq(Round)
  BY <1>1, AddResultType
<1>3. LastCalls(new) = LastCalls(rs) /\ LastAnswered(new) = LastAnswered(rs) \cup {id}
  <2>1. /\ Len(new) = Len(rs) /\ new # <<>> /\ Len(rs) \in DOMAIN rs
        /\ new[Len(rs)].calls = rs[Len(rs)].calls
        /\ new[Len(rs)].answered = rs[Len(rs)].answered \cup {id}
    BY <1>1, ResultFacts
  <2> HIDE DEF new
  <2> QED BY <2>1 DEF LastCalls, LastAnswered
<1> HIDE DEF new
<1>4. IsFiniteSet(Pending(rs, s)) /\ Worth(rs, s) \in Nat /\ Worth(new, s) \in Nat
  BY <1>2, WorthType
<1>5. Pending(new, s) \subseteq Pending(rs, s)
  BY <1>3 DEF Pending
<1>6. Worth(new, s) <= Worth(rs, s)
  BY <1>4, <1>5, FS_Subset DEF Worth
<1>7. ASSUME id \notin LastAnswered(rs), LastCalls(rs)[j].sig = s
      PROVE  Worth(new, s) <= Worth(rs, s) - 1
  <2>1. j \in Pending(rs, s)
    BY <1>7 DEF Pending
  <2>2. Pending(new, s) \subseteq Pending(rs, s) \ {j}
    BY <1>3, <1>5 DEF Pending
  <2>3. /\ IsFiniteSet(Pending(rs, s) \ {j})
        /\ Cardinality(Pending(rs, s) \ {j}) = Cardinality(Pending(rs, s)) - 1
    BY <1>4, <2>1, FS_RemoveElement
  <2>4. Cardinality(Pending(new, s)) <= Cardinality(Pending(rs, s) \ {j})
    BY <2>2, <2>3, FS_Subset
  <2> QED BY <2>3, <2>4 DEF Worth
<1> QED BY <1>6, <1>7 DEF new

\* A row with open calls is one to be resumed, or the one at hand.
RowInv ==
  \/ Whole(row.rounds)
  \/ /\ row.status \in Resumable
     /\ \/ pc = "idle"
        \/ /\ InBatch
           /\ LastCalls(row.rounds) = LastCalls(rounds)
           /\ LastAnswered(row.rounds) = LastAnswered(rounds)

\* What is answered was passed, or was answered when the batch was loaded; the
\* call being made is neither.
OpenInv ==
  /\ InBatch => \A k \in DOMAIN batch :
       batch[k].id \in LastAnswered(rounds) => k < at \/ (prelude /\ batch[k].id \in skip)
  /\ pc \in {"approval", "tool", "save"} => ~(prelude /\ Current.id \in skip)

\* The call at hand has run and its result is not saved yet.
Unsaved(s) == IF pc = "save" /\ result # "refused" /\ Current.sig = s THEN 1 ELSE 0

Count(s) ==
  /\ InBatch => ran[s] + Worth(rounds, s) <= asked[s] + lost[s] + Unsaved(s)
  /\ pc = "idle" => ran[s] + Worth(row.rounds, s) <= asked[s] + lost[s]
  /\ ~InBatch => ran[s] <= asked[s] + lost[s]
CountInv == \A s \in Sig : Count(s)

LEMMA OpenCall ==
  ASSUME TypeOK, InCall, OpenInv, pc \in {"approval", "tool", "save"}
  PROVE  Current.id \notin LastAnswered(rounds)
<1>1. at \in DOMAIN batch /\ at \in Nat
  BY DEF InCall, TypeOK
<1> QED BY <1>1 DEF OpenInv, InBatch, Current

LEMMA RowStep ==
  ASSUME TypeOK, InCall, HistoryInv, RowInv, [Next]_vars
  PROVE  RowInv'
<1> USE DEF disk, turn, past, vars
<1>t. /\ rounds \in Seq(Round) /\ row.rounds \in Seq(Round) /\ batch \in Seq(Call)
      /\ at \in 1..Len(batch) + 1
  BY DEF TypeOK
<1>1. CASE Start
  <2>1. /\ row' = row /\ pc = "idle"
        /\ row.status \in Resumable => pc' = "batch" /\ rounds' = row.rounds
    BY <1>1 DEF Start
  <2> QED BY <2>1 DEF RowInv, InBatch
<1>2. CASE AnswerFromCache \/ SaveResult
  <2>1. row'.status = "running" /\ row'.rounds = rounds' /\ pc' = "batch"
    BY <1>2 DEF AnswerFromCache, SaveResult, Observe
  <2> QED BY <2>1 DEF RowInv, InBatch, Resumable
<1>3. CASE EndBatch
  <2>1. pc = "batch" /\ at > Len(batch) /\ row' = row
    BY <1>3 DEF EndBatch
  <2>2. CASE Whole(row.rounds)
    BY <2>1, <2>2 DEF RowInv
  <2>3. CASE ~Whole(row.rounds)
    <3>1. /\ batch = LastCalls(row.rounds) /\ LastAnswered(row.rounds) = LastAnswered(rounds)
          /\ Earlier(row.rounds)
      BY <2>1, <2>3 DEF RowInv, HistoryInv, InBatch, BatchInv
    <3>2. \A k \in DOMAIN batch : batch[k].id \in LastAnswered(row.rounds)
      <4>1. \A k \in DOMAIN batch : k \in 1..at - 1
        BY <1>t, <2>1
      <4> QED BY <2>1, <3>1, <4>1 DEF HistoryInv, InBatch, BatchInv
    <3>3. ASSUME NEW r \in DOMAIN row.rounds PROVE Complete(row.rounds[r])
      <4>1. CASE r < Len(row.rounds)
        BY <3>1, <4>1 DEF Earlier
      <4>2. CASE r = Len(row.rounds)
        <5>1. row.rounds # <<>>
          BY <1>t
        <5> QED BY <4>2, <5>1, <3>1, <3>2 DEF Complete, LastCalls, LastAnswered
      <4> QED BY <4>1, <4>2, <1>t
    <3> QED BY <2>3, <3>3 DEF Whole
  <2> QED BY <2>2, <2>3
<1>4. CASE StopCanceled
  <2>1. /\ pc' = "idle" /\ row'.rounds = row.rounds
        /\ row.status \in Resumable => row'.status = "canceled"
    BY <1>4, MarkKeepsRounds DEF StopCanceled, Mark, TypeOK, Resumable
  <2> QED BY <2>1 DEF RowInv, Resumable
<1>5. CASE MarkDone
  <2>1. pc = "finish" /\ row'.rounds = row.rounds
    BY <1>5, MarkKeepsRounds DEF MarkDone
  <2> QED BY <2>1 DEF RowInv, InBatch
<1>6. CASE Die
  <2>1. row' = row /\ pc' = "idle"
    BY <1>6 DEF Die
  <2> QED BY <2>1 DEF RowInv
<1>7. CASE Think \/ Exhausted \/ ChatOverflow \/ ChatText \/ ChatTools \/ RecordUser
           \/ RecordAssistant
  <2>1. row' = row /\ pc \in {"think", "chat", "recordUser", "recordAssistant"}
    BY <1>7 DEF Think, Exhausted, ChatOverflow, ChatText, ChatTools, RecordUser,
       RecordAssistant
  <2> QED BY <2>1 DEF RowInv, InBatch
<1>8. CASE SkipCall \/ BeginCall \/ Approved \/ ToolRuns \/ ToolRefused \/ Cancel
           \/ UNCHANGED vars
  <2>1. /\ row' = row /\ rounds' = rounds /\ (pc = "idle" => pc' = "idle")
        /\ InBatch => pc' \in {"batch", "approval", "tool", "save"}
    BY <1>8 DEF SkipCall, BeginCall, Approved, ToolRuns, ToolRefused, Cancel, InBatch
  <2> QED BY <2>1 DEF RowInv, InBatch
<1> QED BY <1>1, <1>2, <1>3, <1>4, <1>5, <1>6, <1>7, <1>8 DEF Next, Step

LEMMA ObserveOpen ==
  ASSUME TypeOK, HistoryInv, OpenInv, InBatch, at \in DOMAIN batch, NEW cached,
         Observe(cached), batch' = batch, prelude' = prelude, skip' = skip
  PROVE  OpenInv'
<1>1. /\ rounds \in Seq(Round) /\ batch = LastCalls(rounds) /\ at \in 1..Len(batch)
      /\ NumberedTo(rounds, nextId) /\ batch \in Seq(Call)
  BY DEF TypeOK, HistoryInv, BatchInv
<1>2. rounds # <<>>
  BY <1>1 DEF LastCalls
<1>3. Current.id \in Id /\ Current = batch[at]
  BY CurrentType DEF Call, Current
<1>4. rounds' = AddResult(rounds, Current.id) /\ at' = at + 1 /\ pc' = "batch"
  BY DEF Observe
<1>5. LastAnswered(rounds') = LastAnswered(rounds) \cup {Current.id}
  <2>1. /\ Len(rounds') = Len(rounds) /\ rounds' # <<>> /\ Len(rounds) \in DOMAIN rounds
        /\ rounds'[Len(rounds)].answered = rounds[Len(rounds)].answered \cup {Current.id}
    BY <1>1, <1>2, <1>3, <1>4, ResultFacts
  <2> QED BY <1>2, <2>1 DEF LastAnswered
<1>6. ASSUME NEW k \in DOMAIN batch, batch[k].id \in LastAnswered(rounds')
      PROVE  k < at' \/ (prelude /\ batch[k].id \in skip)
  <2>1. CASE batch[k].id \in LastAnswered(rounds)
    BY <2>1, <1>1, <1>4 DEF OpenInv
  <2>2. CASE batch[k].id = batch[at].id
    <3>1. rounds[Len(rounds)].calls = batch /\ Len(rounds) \in DOMAIN rounds
      BY <1>1, <1>2 DEF LastCalls
    <3>2. k = at
      BY <2>2, <3>1, <1>1 DEF NumberedTo
    <3> QED BY <3>2, <1>1, <1>4
  <2> QED BY <1>3, <1>5, <1>6, <2>1, <2>2
<1> QED BY <1>4, <1>6 DEF OpenInv, InBatch

LEMMA RoundAppended ==
  ASSUME NEW rs \in Seq(Round), NEW round \in Round
  PROVE  LET new == Append(rs, round)
         IN  new \in Seq(Round) /\ new # <<>> /\ Len(new) = Len(rs) + 1 /\ new[Len(rs) + 1] = round
OBVIOUS

LEMMA OpenStep ==
  ASSUME ~RepeatIds, TypeOK, InCall, HistoryInv, OpenInv, [Next]_vars
  PROVE  OpenInv'
<1> USE DEF disk, turn, past, vars
<1>t. /\ rounds \in Seq(Round) /\ batch \in Seq(Call) /\ nextId \in Nat
      /\ at \in 1..Len(batch) + 1
  BY DEF TypeOK
<1>1. CASE Start
  <2>1. /\ pc' \in {"batch", "think"}
        /\ pc' = "batch" => /\ prelude' = TRUE /\ skip' = LastAnswered(rounds')
    BY <1>1 DEF Start
  <2> QED BY <2>1 DEF OpenInv, InBatch
<1>2. CASE ChatTools
  <2>1. PICK sigs \in Batches :
          /\ batch' = WithIds(sigs)
          /\ rounds' = Prune(Append(rounds, [calls |-> batch', answered |-> {}, pruned |-> {}]),
                             Budget)
    BY <1>2 DEF ChatTools
  <2> DEFINE round == [calls |-> batch', answered |-> {}, pruned |-> {}]
             new == Append(rounds, round)
  <2>2. round \in Round /\ round.answered = {}
    BY <1>t, <2>1, BatchType DEF Round
  <2> HIDE DEF round
  <2>3. new \in Seq(Round) /\ LastAnswered(new) = {}
    <3>1. /\ new \in Seq(Round) /\ new # <<>> /\ Len(new) = Len(rounds) + 1
          /\ new[Len(rounds) + 1] = round
      BY <1>t, <2>2, RoundAppended
    <3> HIDE DEF new
    <3> QED BY <3>1, <2>2 DEF LastAnswered
  <2>4. rounds' = Prune(new, Budget)
    BY <2>1 DEF round
  <2> HIDE DEF new
  <2>5. LastAnswered(rounds') = {}
    BY <2>3, <2>4, PruneType, PruneAlike, AlikeKeeps
  <2>6. pc' = "batch"
    BY <1>2 DEF ChatTools
  <2> QED BY <2>5, <2>6 DEF OpenInv
<1>3. CASE SkipCall
  <2>1. /\ pc' = "batch" /\ pc = "batch" /\ at' = at + 1 /\ rounds' = rounds
        /\ batch' = batch /\ prelude' = prelude /\ skip' = skip
    BY <1>3 DEF SkipCall
  <2> QED BY <1>t, <2>1 DEF OpenInv, InBatch
<1>4. CASE AnswerFromCache
  <2>1. /\ at \in DOMAIN batch /\ InBatch /\ Observe(cache[Current.sig])
        /\ batch' = batch /\ prelude' = prelude /\ skip' = skip
    BY <1>4, <1>t DEF AnswerFromCache, InBatch
  <2> QED BY <2>1, ObserveOpen
<1>5. CASE SaveResult
  <2>1. /\ at \in DOMAIN batch /\ InBatch /\ Observe(result)
        /\ batch' = batch /\ prelude' = prelude /\ skip' = skip
    BY <1>5 DEF SaveResult, InBatch, InCall
  <2> QED BY <2>1, ObserveOpen
<1>6. CASE BeginCall
  <2>1. /\ pc = "batch" /\ pc' \in {"approval", "tool"} /\ ~Skipped
        /\ batch' = batch /\ at' = at /\ prelude' = prelude /\ skip' = skip
        /\ rounds' = rounds
    BY <1>6 DEF BeginCall
  <2> QED BY <2>1 DEF OpenInv, InBatch, Skipped, Current
<1>7. CASE Approved \/ ToolRuns \/ ToolRefused \/ Cancel \/ UNCHANGED vars
  <2>1. /\ batch' = batch /\ at' = at /\ prelude' = prelude /\ skip' = skip
        /\ rounds' = rounds
        /\ pc' = pc \/ pc \in {"approval", "tool"}
    BY <1>7 DEF Approved, ToolRuns, ToolRefused, Cancel
  <2> QED BY <2>1 DEF OpenInv, InBatch, Current
<1>8. CASE Think \/ Exhausted \/ ChatOverflow \/ ChatText \/ EndBatch \/ StopCanceled
           \/ MarkDone \/ RecordUser \/ RecordAssistant \/ Die
  <2>1. pc' \notin {"batch", "approval", "tool", "save"}
    BY <1>8 DEF Think, Exhausted, ChatOverflow, NextIteration, ChatText, EndBatch,
       StopCanceled, MarkDone, RecordUser, RecordAssistant, Die
  <2> QED BY <2>1 DEF OpenInv, InBatch
<1> QED BY <1>1, <1>2, <1>3, <1>4, <1>5, <1>6, <1>7, <1>8 DEF Next, Step

\* Histories with the same last round are worth the same.
LEMMA SameWorth ==
  ASSUME NEW a, NEW b, LastCalls(a) = LastCalls(b), LastAnswered(a) = LastAnswered(b)
  PROVE  \A s : Worth(a, s) = Worth(b, s)
BY DEF Worth, Pending

\* What the row is worth is worth no more than what is in memory.
LEMMA RowWorth ==
  ASSUME TypeOK, RowInv, pc # "idle", NEW s
  PROVE  /\ InBatch => Worth(row.rounds, s) <= Worth(rounds, s)
         /\ ~InBatch => Worth(row.rounds, s) = 0
<1>1. /\ rounds \in Seq(Round) /\ row.rounds \in Seq(Round)
      /\ Worth(rounds, s) \in Nat /\ Worth(row.rounds, s) \in Nat
  BY WorthType DEF TypeOK
<1>2. CASE Whole(row.rounds)
  BY <1>1, <1>2, WholeWorth
<1>3. CASE ~Whole(row.rounds)
  <2>1. /\ InBatch /\ LastCalls(row.rounds) = LastCalls(rounds)
        /\ LastAnswered(row.rounds) = LastAnswered(rounds)
    BY <1>3 DEF RowInv
  <2>2. Worth(row.rounds, s) = Worth(rounds, s)
    BY <2>1, SameWorth
  <2> QED BY <1>1, <2>1, <2>2
<1> QED BY <1>2, <1>3

LEMMA CountTypes ==
  ASSUME TypeOK, NEW s \in Sig
  PROVE  /\ ran[s] \in Nat /\ asked[s] \in Nat /\ lost[s] \in Nat
         /\ Worth(rounds, s) \in Nat /\ Worth(row.rounds, s) \in Nat
         /\ Unsaved(s) \in {0, 1}
BY WorthType DEF TypeOK, Unsaved

\* A batch is worth what was asked for with it.
LEMMA AskedWorth ==
  ASSUME ~RepeatIds, TypeOK, NumberedTo(rounds, nextId), NEW sigs \in Batches, NEW s, NEW b
  PROVE  Worth(Prune(Append(rounds, [calls |-> WithIds(sigs), answered |-> {},
                                     pruned |-> {}]), b), s)
           = Cardinality({k \in DOMAIN sigs : sigs[k] = s})
<1> DEFINE round == [calls |-> WithIds(sigs), answered |-> {}, pruned |-> {}]
           new == Append(rounds, round)
<1>1. round \in Round /\ round.calls = WithIds(sigs) /\ round.answered = {}
  BY BatchType DEF Round, TypeOK
<1>t. rounds \in Seq(Round)
  BY DEF TypeOK
<1> HIDE DEF round
<1>2. /\ LastCalls(new) = WithIds(sigs) /\ LastAnswered(new) = {} /\ new \in Seq(Round)
      /\ new # <<>> /\ Len(new) = Len(rounds) + 1 /\ \A q \in DOMAIN rounds : new[q] = rounds[q]
  <2>1. /\ new \in Seq(Round) /\ new # <<>> /\ Len(new) = Len(rounds) + 1
        /\ new[Len(rounds) + 1] = round /\ \A q \in DOMAIN rounds : new[q] = rounds[q]
    BY <1>1, <1>t
  <2> HIDE DEF new
  <2> QED BY <1>1, <2>1 DEF LastCalls, LastAnswered
<1>n. ASSUME NEW q \in DOMAIN new, q # Len(new), NEW l \in DOMAIN new[q].calls,
             NEW k \in DOMAIN WithIds(sigs)
      PROVE  new[q].calls[l].id # WithIds(sigs)[k].id
  <2>1. q \in DOMAIN rounds /\ new[q] = rounds[q] /\ rounds[q] \in Round
    BY <1>2, <1>n, <1>t
  <2>2. rounds[q].calls[l] \in Call
    BY <2>1 DEF Round
  <2>3. rounds[q].calls[l].id <= nextId /\ WithIds(sigs)[k].id > nextId
    BY <2>1, BatchIds DEF NumberedTo, TypeOK
  <2>4. WithIds(sigs)[k].id \in Nat /\ nextId \in Nat
    <3>1. WithIds(sigs) \in Seq(Call)
      BY BatchType DEF TypeOK
    <3>2. WithIds(sigs)[k] \in Call
      BY <3>1
    <3> QED BY <3>2 DEF Call, Id, TypeOK
  <2> QED BY <2>1, <2>2, <2>3, <2>4 DEF Call, Id
<1> HIDE DEF new
<1>3. /\ LastCalls(Prune(new, b)) = WithIds(sigs)
      /\ LastAnswered(Prune(new, b)) = {}
  <2>1. Prune(new, b) \in Seq(Round) /\ Alike(new, Prune(new, b))
    BY <1>2, PruneType, PruneAlike
  <2>2. LastCalls(Prune(new, b)) = WithIds(sigs)
    BY <1>2, <1>n, PruneLast
  <2> QED BY <1>2, <2>1, <2>2, AlikeKeeps
<1>4. /\ DOMAIN WithIds(sigs) = DOMAIN sigs
      /\ \A k \in DOMAIN sigs : WithIds(sigs)[k].sig = sigs[k]
  BY BatchIds DEF TypeOK
<1>5. Pending(Prune(new, b), s) = {k \in DOMAIN sigs : sigs[k] = s}
  BY <1>3, <1>4 DEF Pending
<1> QED BY <1>5 DEF Worth, new, round

LEMMA CountStep ==
  ASSUME ~RepeatIds, TypeOK, InCall, HistoryInv, RowInv, OpenInv, CountInv,
         TypeOK', [Next]_vars, NEW s \in Sig
  PROVE  Count(s)'
<1> USE DEF disk, turn, past, vars
<1>t. /\ ran[s] \in Nat /\ asked[s] \in Nat /\ lost[s] \in Nat
      /\ Worth(rounds, s) \in Nat /\ Worth(row.rounds, s) \in Nat /\ Unsaved(s) \in {0, 1}
  BY CountTypes
<1>p. /\ ran'[s] \in Nat /\ Worth(rounds', s) \in Nat /\ Worth(row'.rounds, s) \in Nat
      /\ Unsaved(s)' \in {0, 1}
  BY WorthType DEF TypeOK, Unsaved
<1>c. Count(s)
  BY DEF CountInv
<1>0. /\ rounds \in Seq(Round) /\ row.rounds \in Seq(Round) /\ at \in 1..Len(batch) + 1
  BY DEF TypeOK
<1>1. CASE Start
  <2>1. /\ pc = "idle" /\ ran' = ran /\ asked' = asked /\ lost' = lost
        /\ pc' = "think" \/ (pc' = "batch" /\ rounds' = row.rounds)
    BY <1>1 DEF Start
  <2>2. ran[s] + Worth(row.rounds, s) <= asked[s] + lost[s]
    BY <2>1, <1>c DEF Count
  <2> QED BY <1>t, <1>p, <2>1, <2>2 DEF Count, InBatch
<1>2. CASE ChatTools
  <2>1. PICK sigs \in Batches :
          /\ rounds' = Prune(Append(rounds, [calls |-> WithIds(sigs), answered |-> {},
                                             pruned |-> {}]), Budget)
          /\ asked' = [x \in Sig |->
                         asked[x] + Cardinality({k \in DOMAIN sigs : sigs[k] = x})]
    BY <1>2 DEF ChatTools
  <2>2. pc = "chat" /\ pc' = "batch" /\ ran' = ran /\ lost' = lost
    BY <1>2 DEF ChatTools
  <2>3. asked'[s] = asked[s] + Worth(rounds', s)
    BY <2>1, AskedWorth DEF HistoryInv
  <2>4. ran[s] <= asked[s] + lost[s]
    BY <2>2, <1>c DEF Count, InBatch
  <2> QED BY <1>t, <1>p, <2>2, <2>3, <2>4 DEF Count, InBatch
<1>3. CASE ToolRuns
  <2>1. /\ pc = "tool" /\ pc' = "save" /\ rounds' = rounds /\ asked' = asked /\ lost' = lost
        /\ Current' = Current /\ result' # "refused"
        /\ ran' = [ran EXCEPT ![Current.sig] = @ + 1]
    BY <1>3 DEF ToolRuns, Ends, Current
  <2>2. ran'[s] = IF s = Current.sig THEN ran[s] + 1 ELSE ran[s]
    BY <2>1 DEF TypeOK
  <2>3. Unsaved(s)' = (IF s = Current.sig THEN 1 ELSE 0) /\ Unsaved(s) = 0
    BY <2>1 DEF Unsaved
  <2>4. ran[s] + Worth(rounds, s) <= asked[s] + lost[s]
    BY <1>t, <2>1, <2>3, <1>c DEF Count, InBatch
  <2>5. ran'[s] + Worth(rounds, s) <= asked[s] + lost[s] + Unsaved(s)'
    BY <1>t, <2>2, <2>3, <2>4
  <2> QED BY <2>1, <2>5 DEF Count, InBatch
<1>4. CASE AnswerFromCache \/ SaveResult
  <2>1. /\ pc \in {"batch", "save"} /\ at \in DOMAIN batch /\ pc' = "batch"
        /\ rounds' = AddResult(rounds, Current.id)
        /\ ran' = ran /\ asked' = asked /\ lost' = lost
    BY <1>4, <1>0 DEF AnswerFromCache, SaveResult, Observe, InCall, TypeOK
  <2>2. /\ batch = LastCalls(rounds) /\ Current = LastCalls(rounds)[at] /\ rounds # <<>>
        /\ at \in DOMAIN LastCalls(rounds)
    BY <2>1 DEF HistoryInv, InBatch, BatchInv, Current, LastCalls
  <2>3. /\ Worth(rounds', s) <= Worth(rounds, s)
        /\ Current.id \notin LastAnswered(rounds) /\ Current.sig = s
             => Worth(rounds', s) <= Worth(rounds, s) - 1
    BY <1>0, <2>1, <2>2, ResultWorth
  <2>4. ran[s] + Worth(rounds, s) <= asked[s] + lost[s] + Unsaved(s)
    BY <2>1, <1>c DEF Count, InBatch
  <2>5. Unsaved(s) = 1 => Worth(rounds', s) <= Worth(rounds, s) - 1
    <3>1. ASSUME Unsaved(s) = 1 PROVE Worth(rounds', s) <= Worth(rounds, s) - 1
      <4>1. pc = "save" /\ Current.sig = s
        BY <3>1 DEF Unsaved
      <4>2. Current.id \notin LastAnswered(rounds)
        BY <4>1, OpenCall
      <4> QED BY <4>1, <4>2, <2>3
    <3> QED BY <3>1
  <2>6. Unsaved(s)' = 0
    BY <2>1 DEF Unsaved
  <2>7. ran[s] + Worth(rounds', s) <= asked[s] + lost[s]
    BY <1>t, <1>p, <2>3, <2>4, <2>5
  <2> QED BY <1>t, <2>1, <2>6, <2>7 DEF Count, InBatch
<1>5. CASE SkipCall \/ BeginCall \/ Approved \/ ToolRefused
  <2>1. /\ InBatch /\ pc # "save" /\ rounds' = rounds /\ ran' = ran
        /\ asked' = asked /\ lost' = lost
        /\ pc' \in {"batch", "approval", "tool", "save"}
        /\ pc' = "save" => result' = "refused"
    BY <1>5 DEF SkipCall, BeginCall, Approved, ToolRefused, Ends, InBatch
  <2>2. Unsaved(s)' = 0 /\ Unsaved(s) = 0
    BY <2>1 DEF Unsaved
  <2> QED BY <1>t, <2>1, <2>2, <1>c DEF Count, InBatch
<1>6. CASE Think \/ Exhausted \/ ChatOverflow \/ ChatText \/ EndBatch \/ RecordUser
  <2>1. /\ ran' = ran /\ asked' = asked /\ lost' = lost
        /\ pc' \in {"think", "finish", "chat", "recordAssistant"}
        /\ pc # "save"
    BY <1>6 DEF Think, Exhausted, ChatOverflow, NextIteration, ChatText, EndBatch, RecordUser
  <2>2. Unsaved(s) = 0
    BY <2>1 DEF Unsaved
  <2> QED BY <1>t, <2>1, <2>2, <1>c DEF Count, InBatch
<1>7. CASE StopCanceled \/ MarkDone \/ RecordAssistant
  <2>1. /\ ran' = ran /\ asked' = asked /\ lost' = lost /\ row'.rounds = row.rounds
        /\ pc' \in {"idle", "recordUser"}
        /\ pc \notin {"idle", "save"}
    BY <1>7, MarkKeepsRounds DEF StopCanceled, MarkDone, RecordAssistant
  <2>2. Unsaved(s) = 0
    BY <2>1 DEF Unsaved
  <2>3. ran[s] + Worth(row.rounds, s) <= asked[s] + lost[s]
    BY <1>t, <2>1, <2>2, <1>c, RowWorth DEF Count
  <2> QED BY <1>t, <2>1, <2>3 DEF Count, InBatch
<1>8. CASE Die
  <2>1. /\ ran' = ran /\ asked' = asked /\ row' = row /\ pc' = "idle" /\ pc # "idle"
    BY <1>8 DEF Die
  <2>2. lost'[s] = lost[s] + Unsaved(s)
    <3>1. CASE pc = "save" /\ result # "refused"
      <4>1. lost' = [lost EXCEPT ![Current.sig] = @ + 1] /\ lost \in [Sig -> Nat]
        BY <1>8, <3>1 DEF Die, TypeOK
      <4>2. lost'[s] = IF s = Current.sig THEN lost[s] + 1 ELSE lost[s]
        BY <4>1
      <4> QED BY <3>1, <4>2, <1>t DEF Unsaved
    <3>2. CASE ~(pc = "save" /\ result # "refused")
      BY <1>8, <3>2, <1>t DEF Die, Unsaved
    <3> QED BY <3>1, <3>2
  <2>3. ran[s] + Worth(row.rounds, s) <= asked[s] + lost[s] + Unsaved(s)
    BY <1>t, <2>1, <1>c, RowWorth DEF Count
  <2> QED BY <1>t, <2>1, <2>2, <2>3 DEF Count, InBatch
<1>9. CASE Cancel \/ UNCHANGED vars
  <2>1. /\ ran' = ran /\ asked' = asked /\ lost' = lost /\ row' = row /\ rounds' = rounds
        /\ pc' = pc /\ result' = result /\ Current' = Current
    BY <1>9 DEF Cancel, Current
  <2>2. Unsaved(s)' = Unsaved(s) /\ (InBatch' <=> InBatch)
    BY <2>1 DEF Unsaved, InBatch
  <2> QED BY <2>1, <2>2, <1>c DEF Count
<1> QED BY <1>1, <1>2, <1>3, <1>4, <1>5, <1>6, <1>7, <1>8, <1>9 DEF Next, Step

EffectInv == RowInv /\ OpenInv /\ CountInv

LEMMA EffectInit == Init => EffectInv
<1> SUFFICES ASSUME Init PROVE EffectInv
  OBVIOUS
<1>1. row.rounds = <<>> /\ rounds = <<>> /\ pc = "idle" /\ <<>> \in Seq(Round)
  BY DEF Init
<1>2. Whole(<<>>)
  BY EmptyHistory
<1>3. \A s : Worth(<<>>, s) = 0
  BY <1>1, <1>2, WholeWorth
<1>4. RowInv /\ OpenInv
  BY <1>1, <1>2 DEF RowInv, OpenInv, InBatch
<1>5. ASSUME NEW s \in Sig PROVE Count(s)
  <2>1. ran[s] = 0 /\ asked[s] = 0 /\ lost[s] = 0
    BY DEF Init
  <2> QED BY <1>1, <1>3, <2>1 DEF Count, InBatch
<1> QED BY <1>4, <1>5 DEF EffectInv, CountInv

LEMMA EffectSafe ==
  ASSUME TypeOK, InCall, HistoryInv, EffectInv
  PROVE  EffectsAccounted
<1>1. ASSUME NEW s \in Sig PROVE ran[s] <= asked[s] + lost[s]
  <2>1. /\ ran[s] \in Nat /\ asked[s] \in Nat /\ lost[s] \in Nat
        /\ Worth(rounds, s) \in Nat /\ Unsaved(s) \in {0, 1} /\ Count(s)
    BY CountTypes DEF EffectInv, CountInv
  <2>2. CASE Unsaved(s) = 1
    <3>1. pc = "save" /\ Current.sig = s
      BY <2>2 DEF Unsaved
    <3>2. Current.id \notin LastAnswered(rounds)
      BY <3>1, OpenCall DEF EffectInv
    <3>3. at \in DOMAIN LastCalls(rounds) /\ Current = LastCalls(rounds)[at]
      BY <3>1 DEF InCall, HistoryInv, InBatch, BatchInv, Current
    <3>4. at \in Pending(rounds, s)
      BY <3>1, <3>2, <3>3 DEF Pending
    <3>5. Worth(rounds, s) # 0
      BY <3>4, WorthType, FS_EmptySet DEF Worth, TypeOK
    <3> QED BY <2>1, <2>2, <3>1, <3>5 DEF Count, InBatch
  <2>3. CASE Unsaved(s) = 0
    BY <2>1, <2>3 DEF Count
  <2> QED BY <2>1, <2>2, <2>3
<1> QED BY <1>1 DEF EffectsAccounted

\* With a provider that gives every call its own id, a tool is executed no more
\* often than it was asked for, plus once for every crash between its effect and
\* the checkpoint of its result: no resume, cancel or resubmission adds to that.
THEOREM EffectsAccountedTheorem == ~RepeatIds /\ Spec => []EffectsAccounted
<1> DEFINE All == TypeOK /\ InCall /\ HistoryInv /\ EffectInv
<1>1. All => EffectsAccounted
  BY EffectSafe
<1>2. ASSUME ~RepeatIds, All, [Next]_vars PROVE All'
  <2>1. TypeOK' /\ InCall' /\ HistoryInv' /\ RowInv' /\ OpenInv'
    BY <1>2, TypeStep, HistoryStep, RowStep, OpenStep DEF EffectInv
  <2>2. ASSUME NEW s \in Sig PROVE Count(s)'
    BY <1>2, <2>1, CountStep DEF EffectInv
  <2> QED BY <2>1, <2>2 DEF EffectInv, CountInv
<1>3. Init => All
  BY InitType, HistoryInit, EffectInit
<1> HIDE DEF All
<1>4. ~RepeatIds /\ Spec => []All
  <2>1. CASE ~RepeatIds
    <3>1. All /\ [Next]_vars => All'
      BY <1>2, <2>1
    <3> QED BY <3>1, <1>3, PTL DEF Spec
  <2>2. CASE RepeatIds
    BY <2>2
  <2> QED BY <2>1, <2>2
<1> QED BY <1>1, <1>4, PTL

-----------------------------------------------------------------------------
(* A run only goes forward: every step of its own lowers a measure, of which  *)
(* Stage weighs most and Point least.  With the fairness of Step this is why  *)
(* a turn ends, whatever MaxIter, the batches and a resumed batch are.        *)

Stage ==
  CASE pc = "idle" -> 0 [] pc = "recordAssistant" -> 1 [] pc = "recordUser" -> 2
    [] pc = "finish" -> 3 [] OTHER -> 4
Iterations == IF prelude THEN MaxIter + 1 ELSE MaxIter - iter
Part == CASE pc = "think" -> 2 [] pc = "chat" -> 1 [] OTHER -> 0
Calls == Len(batch) + 1 - at
Point == CASE pc = "batch" -> 3 [] pc = "approval" -> 2 [] pc = "tool" -> 1 [] OTHER -> 0

Measured == {Stage, Iterations, Part, Calls, Point} \subseteq Nat

Forward ==
  \/ Stage' < Stage
  \/ /\ Stage' = Stage
     /\ \/ Iterations' < Iterations
        \/ /\ Iterations' = Iterations
           /\ \/ Part' < Part
              \/ /\ Part' = Part
                 /\ \/ Calls' < Calls
                    \/ Calls' = Calls /\ Point' < Point

\* Only a batch taken over from the row is gone through before the iterations,
\* and an iteration that was begun is one of the MaxIter.
LoopInv ==
  /\ iter <= MaxIter
  /\ pc \notin {"batch", "approval", "tool", "save"} => ~prelude
  /\ pc \in {"chat", "batch", "approval", "tool", "save"} /\ ~prelude => iter < MaxIter

LEMMA LoopMeasured ==
  ASSUME TypeOK, LoopInv
  PROVE  Measured
<1>1. MaxIter \in Nat /\ iter \in Nat /\ iter <= MaxIter
  BY AgentTurnAssumption DEF TypeOK, LoopInv
<1>2. Iterations \in Nat
  BY <1>1 DEF Iterations
<1>3. Calls \in Nat
  BY DEF TypeOK, Calls
<1>4. Stage \in Nat /\ Part \in Nat /\ Point \in Nat
  BY DEF TypeOK, Location, Stage, Part, Point
<1> QED BY <1>2, <1>3, <1>4 DEF Measured

LEMMA LoopForward ==
  ASSUME TypeOK, LoopInv, Step
  PROVE  LoopInv' /\ Forward
<1> USE DEF disk, turn, past
<1>t. /\ MaxIter \in Nat /\ MaxIter > 0 /\ iter \in Nat /\ at \in 1..Len(batch) + 1
      /\ Len(batch) \in Nat /\ prelude \in BOOLEAN
  BY AgentTurnAssumption DEF TypeOK
<1>1. CASE Think
  <2>1. /\ pc = "think" /\ pc' = "chat" /\ iter < MaxIter
        /\ iter' = iter /\ prelude' = prelude
    BY <1>1 DEF Think
  <2> QED BY <2>1 DEF LoopInv, Forward, Stage, Iterations, Part
<1>2. CASE Exhausted \/ ChatText
  <2>1. /\ pc \in {"think", "chat"} /\ pc' = "finish"
        /\ iter' = iter /\ prelude' = prelude
    BY <1>2 DEF Exhausted, ChatText
  <2> QED BY <2>1 DEF LoopInv, Forward, Stage
<1>3. CASE ChatOverflow \/ (EndBatch /\ ~prelude)
  <2>1. /\ pc \in {"chat", "batch"} /\ ~prelude /\ ~prelude' /\ iter' = iter + 1
        /\ pc' = "think"
    BY <1>3 DEF ChatOverflow, EndBatch, NextIteration, LoopInv
  <2>2. iter < MaxIter
    BY <2>1 DEF LoopInv
  <2>3. Iterations' < Iterations
    BY <1>t, <2>1 DEF Iterations
  <2>4. Stage' = Stage
    BY <2>1 DEF Stage
  <2> QED BY <1>t, <2>1, <2>2, <2>3, <2>4 DEF LoopInv, Forward
<1>4. CASE EndBatch /\ prelude
  <2>1. pc = "batch" /\ ~prelude' /\ iter' = iter /\ pc' = "think"
    BY <1>4 DEF EndBatch
  <2>2. Iterations' < Iterations
    BY <1>t, <1>4, <2>1 DEF Iterations
  <2>3. Stage' = Stage
    BY <2>1 DEF Stage
  <2> QED BY <2>1, <2>2, <2>3 DEF LoopInv, Forward
<1>5. CASE ChatTools
  <2>1. pc = "chat" /\ pc' = "batch" /\ iter' = iter /\ prelude' = prelude
    BY <1>5 DEF ChatTools
  <2> QED BY <2>1 DEF LoopInv, Forward, Stage, Iterations, Part
<1>6. CASE StopCanceled \/ MarkDone \/ RecordUser \/ RecordAssistant
  <2>1. pc' \in {"idle", "recordUser", "recordAssistant"} /\ Stage' < Stage
    BY <1>6 DEF StopCanceled, MarkDone, RecordUser, RecordAssistant, Stage
  <2>2. /\ iter' = 0 \/ iter' = iter
        /\ ~prelude' \/ (prelude' = prelude /\ pc \notin {"batch", "approval", "tool", "save"})
    BY <1>6 DEF StopCanceled, MarkDone, Forget, RecordUser, RecordAssistant
  <2> QED BY <1>t, <2>1, <2>2 DEF LoopInv, Forward
<1>7. CASE SkipCall \/ AnswerFromCache \/ SaveResult
  <2>1. /\ pc \in {"batch", "save"} /\ pc' = "batch" /\ at' = at + 1 /\ batch' = batch
        /\ iter' = iter /\ prelude' = prelude
    BY <1>7 DEF SkipCall, AnswerFromCache, SaveResult, Observe
  <2>2. Calls' < Calls
    BY <1>t, <2>1 DEF Calls
  <2>3. Stage' = Stage /\ Iterations' = Iterations /\ Part' = Part
    BY <2>1 DEF Stage, Iterations, Part
  <2> QED BY <2>1, <2>2, <2>3 DEF LoopInv, Forward
<1>8. CASE BeginCall \/ Approved \/ ToolRuns \/ ToolRefused
  <2>1. /\ \/ pc = "batch" /\ pc' \in {"approval", "tool"}
           \/ pc = "approval" /\ pc' = "tool"
           \/ pc \in {"approval", "tool"} /\ pc' = "save"
        /\ at' = at /\ batch' = batch /\ iter' = iter /\ prelude' = prelude
    BY <1>8 DEF BeginCall, Approved, ToolRuns, ToolRefused
  <2>2. Point' < Point
    BY <2>1 DEF Point
  <2>3. Stage' = Stage /\ Iterations' = Iterations /\ Part' = Part /\ Calls' = Calls
    BY <2>1 DEF Stage, Iterations, Part, Calls
  <2> QED BY <2>1, <2>2, <2>3 DEF LoopInv, Forward
<1> QED BY <1>1, <1>2, <1>3, <1>4, <1>5, <1>6, <1>7, <1>8 DEF Step

LEMMA LoopStep ==
  ASSUME TypeOK, LoopInv, [Next]_vars
  PROVE  LoopInv' /\ (Step => Forward)
<1>t. MaxIter \in Nat /\ MaxIter > 0 /\ prelude \in BOOLEAN
  BY AgentTurnAssumption DEF TypeOK
<1>1. CASE Step
  BY <1>1, LoopForward
<1>2. CASE Start
  <2>1. iter' = 0 /\ pc' \in {"batch", "think"} /\ (pc' = "think" => ~prelude')
    BY <1>2 DEF Start
  <2>2. LoopInv'
    BY <1>t, <2>1 DEF LoopInv
  <2> QED BY <2>2, LoopForward
<1>3. CASE Cancel \/ Die \/ UNCHANGED vars
  <2>1. \/ iter' = iter /\ prelude' = prelude /\ pc' = pc
        \/ iter' = 0 /\ ~prelude' /\ pc' = "idle"
    BY <1>3 DEF Cancel, Die, Forget, turn, vars
  <2>2. LoopInv'
    BY <1>t, <2>1 DEF LoopInv
  <2> QED BY <2>2, LoopForward
<1> QED BY <1>1, <1>2, <1>3 DEF Next

\* Overflows, forced text, cancels and resumed batches of any length included, a
\* run cannot go round in circles: every step of its own lowers the measure.
RunGoesForward == [][Step => Forward]_vars

THEOREM RunGoesForwardTheorem == Spec => []Measured /\ RunGoesForward
<1> DEFINE All == TypeOK /\ InCall /\ LoopInv
<1>1. Init => All
  <2>1. ASSUME Init PROVE LoopInv
    BY <2>1, AgentTurnAssumption DEF Init, LoopInv
  <2> QED BY <2>1, InitType
<1>2. All /\ [Next]_vars => All' /\ [Step => Forward]_vars
  BY TypeStep, LoopStep
<1>3. All => Measured
  BY LoopMeasured
<1> HIDE DEF All
<1> QED BY <1>1, <1>2, <1>3, PTL DEF Spec, RunGoesForward

=============================================================================
