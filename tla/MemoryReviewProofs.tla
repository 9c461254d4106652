------------------------- MODULE MemoryReviewProofs -------------------------
(***************************************************************************)
(* What the review gate guarantees for any number of proposals, user edits *)
(* and faults: a merge happens once and only for what an operator approved *)
(* (MergedOnce, OnlyReviewed), user edits are lost in one window only      *)
(* (LostOnlyInGap), and - when a failing audit write leaves no record - the *)
(* audit log with MEMORY.md implements the ledger of ReviewLedger.         *)
(***************************************************************************)
EXTENDS MemoryReview, TLAPS

-----------------------------------------------------------------------------
(* The inductive invariant.                                                *)

\* The merge and its rollback belong to an approve that saw no entry.
Stage ==
  /\ op.at # "idle" => op.pid \in Pid
  /\ op.at \in {"write", "replace", "verify", "rollback", "restore"} =>
        op.kind = "approve" /\ op.previous.entries[op.pid] = 0
  /\ op.at # "idle" <=> op.kind # "none"
  /\ op.kind = "propose" => op.at = "audit"

\* What MEMORY.md holds, and what the operation read from it, was reviewed.
Reviewed ==
  /\ op.kind = "approve" => op.pid \in asked /\ audit[op.pid] # "none"
  /\ \A q \in Pid : memory.entries[q] > 0 => q \in asked /\ audit[q] # "none"
  /\ \A q \in Pid : op.previous.entries[q] > 0 => q \in asked /\ audit[q] # "none"

Once ==
  /\ \A q \in Pid : memory.entries[q] <= 1
  /\ \A q \in Pid : op.previous.entries[q] <= 1

\* Between a check and its replace, what the user adds is added in the gap.
Gap ==
  /\ made \ memory.lines \subseteq inGap
  /\ op.at \in {"replace", "restore"} => memory.lines \ op.previous.lines \subseteq inGap

SafeInv == TypeOK /\ Stage /\ Reviewed /\ Once /\ Gap

-----------------------------------------------------------------------------
LEMMA EmptyMemoryType == EmptyMemory \in Memory
BY DEF EmptyMemory, Memory

LEMMA MergedType ==
  ASSUME NEW m \in Memory, NEW p \in Pid
  PROVE  /\ Merged(m, p) \in Memory
         /\ Merged(m, p).lines = m.lines
         /\ Merged(m, p).entries[p] = m.entries[p] + 1
         /\ \A q \in Pid \ {p} : Merged(m, p).entries[q] = m.entries[q]
BY DEF Merged, Memory

LEMMA InitSafe == Init => SafeInv
<1> SUFFICES ASSUME Init PROVE SafeInv
  OBVIOUS
<1>1. TypeOK
  BY EmptyMemoryType, MemoryReviewAssumption DEF Init, TypeOK, Action, Idle
<1>2. Stage /\ Reviewed /\ Once /\ Gap
  BY DEF Init, Stage, Reviewed, Once, Gap, Idle, EmptyMemory
<1>. QED BY <1>1, <1>2 DEF SafeInv

\* The type of op after each way an operation moves on.
LEMMA EnterType ==
  ASSUME TypeOK, NEW p \in Pid, NEW kind \in {"propose", "approve", "reject"},
         NEW at \in {"write", "audit", "unlink"}, Enter(kind, p, at)
  PROVE  /\ op' \in [kind : {"none", "propose", "approve", "reject"}, pid : Pid \cup {NoPid},
                     at : {"idle", "write", "replace", "verify", "audit", "rollback", "restore",
                           "unlink"},
                     previous : Memory]
         /\ op'.kind = kind /\ op'.pid = p /\ op'.at = at /\ op'.previous = memory
BY DEF TypeOK, Enter

LEMMA GotoType ==
  ASSUME TypeOK,
         NEW at \in {"replace", "verify", "audit", "rollback", "restore", "unlink"}, Goto(at)
  PROVE  /\ op' \in [kind : {"none", "propose", "approve", "reject"}, pid : Pid \cup {NoPid},
                     at : {"idle", "write", "replace", "verify", "audit", "rollback", "restore",
                           "unlink"},
                     previous : Memory]
         /\ op'.kind = op.kind /\ op'.pid = op.pid /\ op'.at = at
         /\ op'.previous = op.previous
BY DEF TypeOK, Goto

LEMMA LeaveType ==
  ASSUME Leave
  PROVE  /\ op' \in [kind : {"none", "propose", "approve", "reject"}, pid : Pid \cup {NoPid},
                     at : {"idle", "write", "replace", "verify", "audit", "rollback", "restore",
                           "unlink"},
                     previous : Memory]
         /\ op'.kind = "none" /\ op'.at = "idle" /\ op'.pid = NoPid
         /\ op'.previous = EmptyMemory
BY EmptyMemoryType DEF Leave, Idle

\* Leaving the lock disturbs nothing but op.
LEMMA LeaveSafe ==
  ASSUME SafeInv, Leave, UNCHANGED <<memory, audit, asked, made, inGap>>
  PROVE  Stage' /\ Reviewed' /\ Once' /\ Gap'
<1>1. \A q \in Pid : EmptyMemory.entries[q] = 0
  BY DEF EmptyMemory
<1>. QED BY <1>1, LeaveType DEF SafeInv, Stage, Reviewed, Once, Gap

LEMMA NextSafe == SafeInv /\ [Next]_vars => SafeInv'
<1> SUFFICES ASSUME SafeInv, [Next]_vars PROVE SafeInv'
  OBVIOUS
<1>t. TypeOK
  BY DEF SafeInv
<1>m. memory \in Memory /\ op.previous \in Memory
  BY <1>t DEF TypeOK
<1>1. ASSUME NEW p \in Pid, BeginPropose(p) PROVE SafeInv'
  <2>1. op'.kind = "propose" /\ op'.pid = p /\ op'.at = "audit" /\ op'.previous = memory
    BY <1>1, <1>t, EnterType DEF BeginPropose
  <2>2. TypeOK'
    BY <1>1, <1>t, EnterType DEF BeginPropose, TypeOK, past
  <2>3. Stage' /\ Reviewed' /\ Once' /\ Gap'
    BY <1>1, <2>1 DEF BeginPropose, SafeInv, Stage, Reviewed, Once, Gap, past
  <2>. QED BY <2>2, <2>3 DEF SafeInv
<1>2. ASSUME NEW p \in Pid, BeginApprove(p) PROVE SafeInv'
  <2>0. PICK at \in {"write", "audit", "unlink"} :
          /\ Enter("approve", p, at)
          /\ at = "write" => ~HasEntry(memory, p)
    BY <1>2 DEF BeginApprove
  <2>1. op'.kind = "approve" /\ op'.pid = p /\ op'.at = at /\ op'.previous = memory
    BY <2>0, <1>t, EnterType
  <2>a. audit[p] # "none"
    BY <1>2 DEF BeginApprove, Proposed, AlreadyApproved
  <2>b. at = "write" => memory.entries[p] = 0
    BY <2>0, <1>m DEF HasEntry, Memory
  <2>c. UNCHANGED <<memory, staged, audit, faults, deleted, made, inGap>> /\ asked' = asked \cup {p}
    BY <1>2 DEF BeginApprove, files
  <2>2. TypeOK'
    BY <2>0, <2>c, <1>t, EnterType DEF TypeOK
  <2>3. Stage' /\ Reviewed' /\ Once' /\ Gap'
    BY <2>1, <2>a, <2>b, <2>c DEF SafeInv, Stage, Reviewed, Once, Gap
  <2>. QED BY <2>2, <2>3 DEF SafeInv
<1>3. ASSUME NEW p \in Pid, BeginReject(p) PROVE SafeInv'
  <2>0. PICK at \in {"audit", "unlink"} : Enter("reject", p, at)
    BY <1>3 DEF BeginReject
  <2>1. op'.kind = "reject" /\ op'.pid = p /\ op'.at = at /\ op'.previous = memory
    BY <2>0, <1>t, EnterType
  <2>c. UNCHANGED <<memory, staged, audit, faults, asked, deleted, made, inGap>>
    BY <1>3 DEF BeginReject, files, past
  <2>2. TypeOK'
    BY <2>0, <2>c, <1>t, EnterType DEF TypeOK
  <2>3. Stage' /\ Reviewed' /\ Once' /\ Gap'
    BY <2>1, <2>c DEF SafeInv, Stage, Reviewed, Once, Gap
  <2>. QED BY <2>2, <2>3 DEF SafeInv
<1>4. ASSUME CheckMemory PROVE SafeInv'
  <2>c. UNCHANGED <<memory, staged, audit, faults, asked, deleted, made, inGap>>
    BY <1>4 DEF CheckMemory, files, past
  <2>1. CASE Goto("replace") /\ memory = op.previous
    <3>1. TypeOK'
      BY <2>1, <2>c, <1>t, GotoType DEF TypeOK
    <3>2. op'.kind = op.kind /\ op'.pid = op.pid /\ op'.at = "replace" /\ op'.previous = op.previous
      BY <2>1, <1>t, GotoType
    <3>3. Stage' /\ Reviewed' /\ Once' /\ Gap'
      BY <2>1, <2>c, <3>2, <1>4 DEF CheckMemory, SafeInv, Stage, Reviewed, Once, Gap
    <3>. QED BY <3>1, <3>3 DEF SafeInv
  <2>2. CASE Leave
    <3>1. TypeOK'
      BY <2>2, <2>c, <1>t, LeaveType DEF TypeOK
    <3>. QED BY <3>1, <2>2, <2>c, LeaveSafe DEF SafeInv
  <2>. QED BY <1>4, <2>1, <2>2 DEF CheckMemory, StillExpected
<1>5. ASSUME ReplaceMemory PROVE SafeInv'
  <2>0. op.pid \in Pid /\ op.kind = "approve" /\ op.previous.entries[op.pid] = 0
    BY <1>5 DEF ReplaceMemory, SafeInv, Stage
  <2>c. UNCHANGED <<staged, audit, faults, asked, deleted, made, inGap>>
        /\ memory' = Merged(op.previous, op.pid) /\ Goto("verify")
    BY <1>5 DEF ReplaceMemory, past
  <2>m. /\ memory' \in Memory /\ memory'.lines = op.previous.lines
        /\ memory'.entries[op.pid] = 1
        /\ \A q \in Pid \ {op.pid} : memory'.entries[q] = op.previous.entries[q]
    BY <2>0, <2>c, <1>m, MergedType
  <2>1. op'.kind = op.kind /\ op'.pid = op.pid /\ op'.at = "verify" /\ op'.previous = op.previous
    BY <2>c, <1>t, GotoType
  <2>2. TypeOK'
    BY <2>c, <2>m, <1>t, GotoType DEF TypeOK
  <2>3. Stage' /\ Once'
    BY <2>0, <2>1, <2>m DEF SafeInv, Stage, Once
  <2>4. Reviewed'
    BY <2>0, <2>1, <2>m, <2>c DEF SafeInv, Reviewed
  <2>5. Gap'
    BY <1>5, <2>1, <2>m, <2>c DEF ReplaceMemory, SafeInv, Gap
  <2>. QED BY <2>2, <2>3, <2>4, <2>5 DEF SafeInv
<1>6. ASSUME VerifyMemory PROVE SafeInv'
  <2>c. UNCHANGED <<memory, staged, audit, faults, asked, deleted, made, inGap>>
    BY <1>6 DEF VerifyMemory, files, past
  <2>1. CASE Goto("audit")
    <3>1. TypeOK'
      BY <2>1, <2>c, <1>t, GotoType DEF TypeOK
    <3>2. op'.kind = op.kind /\ op'.pid = op.pid /\ op'.at = "audit" /\ op'.previous = op.previous
      BY <2>1, <1>t, GotoType
    <3>3. Stage' /\ Reviewed' /\ Once' /\ Gap'
      BY <2>c, <3>2, <1>6 DEF VerifyMemory, SafeInv, Stage, Reviewed, Once, Gap
    <3>. QED BY <3>1, <3>3 DEF SafeInv
  <2>2. CASE Leave
    <3>1. TypeOK'
      BY <2>2, <2>c, <1>t, LeaveType DEF TypeOK
    <3>. QED BY <3>1, <2>2, <2>c, LeaveSafe DEF SafeInv
  <2>. QED BY <1>6, <2>1, <2>2 DEF VerifyMemory
<1>7. ASSUME op.at = "audit", op.pid \in Pid, audit' \in {audit, [audit EXCEPT ![op.pid] = Verdict]},
             UNCHANGED <<memory, asked, deleted, made, inGap>>, staged' \in SUBSET Pid, faults' \in Nat,
             \/ Leave
             \/ Goto("unlink") /\ op.kind # "propose"
             \/ Goto("rollback") /\ Changed
      PROVE  SafeInv'
  <2>1. op.kind \in {"propose", "approve", "reject"}
    BY <1>7, <1>t DEF SafeInv, Stage, TypeOK
  <2>2. Verdict \in {"proposed", "approved", "rejected"}
    BY <2>1 DEF Verdict
  <2>3. audit' \in [Pid -> Action] /\ \A q \in Pid : audit[q] # "none" => audit'[q] # "none"
    BY <2>2, <1>7, <1>t DEF TypeOK, Action
  <2>4. CASE Leave
    <3>1. TypeOK'
      BY <2>4, <2>3, <1>7, <1>t, LeaveType DEF TypeOK
    <3>2. Stage' /\ Reviewed' /\ Once' /\ Gap'
      <4>1. \A q \in Pid : EmptyMemory.entries[q] = 0
        BY DEF EmptyMemory
      <4>. QED BY <4>1, <2>3, <2>4, <1>7, LeaveType DEF SafeInv, Stage, Reviewed, Once, Gap
    <3>. QED BY <3>1, <3>2 DEF SafeInv
  <2>5. CASE Goto("unlink") /\ op.kind # "propose"
    <3>1. TypeOK'
      BY <2>5, <2>3, <1>7, <1>t, GotoType DEF TypeOK
    <3>2. op'.kind = op.kind /\ op'.pid = op.pid /\ op'.at = "unlink" /\ op'.previous = op.previous
      BY <2>5, <1>t, GotoType
    <3>3. Stage' /\ Reviewed' /\ Once' /\ Gap'
      BY <2>3, <2>5, <3>2, <1>7 DEF SafeInv, Stage, Reviewed, Once, Gap
    <3>. QED BY <3>1, <3>3 DEF SafeInv
  <2>6. CASE Goto("rollback") /\ Changed
    <3>1. TypeOK'
      BY <2>6, <2>3, <1>7, <1>t, GotoType DEF TypeOK
    <3>2. op'.kind = op.kind /\ op'.pid = op.pid /\ op'.at = "rollback" /\ op'.previous = op.previous
      BY <2>6, <1>t, GotoType
    <3>3. op.kind = "approve" /\ op.previous.entries[op.pid] = 0
      BY <2>6, <1>7, <1>m DEF Changed, HasEntry, Memory
    <3>4. Stage' /\ Reviewed' /\ Once' /\ Gap'
      BY <2>3, <3>2, <3>3, <1>7 DEF SafeInv, Stage, Reviewed, Once, Gap
    <3>. QED BY <3>1, <3>4 DEF SafeInv
  <2>. QED BY <1>7, <2>4, <2>5, <2>6
<1>p. op.at = "audit" => op.pid \in Pid
  BY DEF SafeInv, Stage
<1>8. CASE AppendAudit
  BY <1>7, <1>8, <1>p, <1>t DEF AppendAudit, TypeOK, past
<1>9. CASE AuditFails
  BY <1>7, <1>9, <1>p, <1>t DEF AuditFails, UndoAudit, Fault, TypeOK, past
<1>10. CASE AuditFailsLate
  BY <1>7, <1>10, <1>p, <1>t DEF AuditFailsLate, UndoAudit, Fault, TypeOK, past
<1>11. CASE CheckRollback
  <2>c. UNCHANGED <<memory, staged, audit, faults, asked, deleted, made, inGap>>
    BY <1>11 DEF CheckRollback, files, past
  <2>0. op.pid \in Pid /\ op.kind = "approve" /\ op.previous.entries[op.pid] = 0
    BY <1>11 DEF CheckRollback, SafeInv, Stage
  <2>1. CASE Goto("restore") /\ memory = Merged(op.previous, op.pid)
    <3>1. TypeOK'
      BY <2>1, <2>c, <1>t, GotoType DEF TypeOK
    <3>2. op'.kind = op.kind /\ op'.pid = op.pid /\ op'.at = "restore" /\ op'.previous = op.previous
      BY <2>1, <1>t, GotoType
    <3>3. memory.lines = op.previous.lines
      BY <2>0, <2>1, <1>m, MergedType
    <3>4. Stage' /\ Reviewed' /\ Once' /\ Gap'
      BY <2>0, <2>c, <3>2, <3>3 DEF SafeInv, Stage, Reviewed, Once, Gap
    <3>. QED BY <3>1, <3>4 DEF SafeInv
  <2>2. CASE Leave
    <3>1. TypeOK'
      BY <2>2, <2>c, <1>t, LeaveType DEF TypeOK
    <3>. QED BY <3>1, <2>2, <2>c, LeaveSafe DEF SafeInv
  <2>. QED BY <1>11, <2>1, <2>2 DEF CheckRollback, StillExpected
<1>12. CASE Restore
  <2>c. UNCHANGED <<staged, audit, faults, asked, deleted, made, inGap>> /\ memory' = op.previous /\ Leave
    BY <1>12 DEF Restore, past
  <2>1. TypeOK'
    BY <2>c, <1>t, <1>m, LeaveType DEF TypeOK
  <2>2. \A q \in Pid : EmptyMemory.entries[q] = 0
    BY DEF EmptyMemory
  <2>3. Stage' /\ Reviewed' /\ Once'
    BY <2>c, <2>2, LeaveType DEF SafeInv, Stage, Reviewed, Once
  <2>4. Gap'
    BY <1>12, <2>c, LeaveType DEF Restore, SafeInv, Gap
  <2>. QED BY <2>1, <2>3, <2>4 DEF SafeInv
<1>13. ASSUME Leave, UNCHANGED <<memory, audit, past>>, staged' \in SUBSET Pid, faults' \in Nat
       PROVE  SafeInv'
  <2>1. TypeOK'
    BY <1>13, <1>t, LeaveType DEF TypeOK, past
  <2>. QED BY <2>1, <1>13, LeaveSafe DEF SafeInv, past
<1>14. CASE Unlink
  BY <1>13, <1>14, <1>t DEF Unlink, TypeOK
<1>15. CASE Stop
  BY <1>13, <1>15, <1>t DEF Stop, Fault, files, TypeOK
<1>16. ASSUME NEW e \in Edit, EditorAdds(e) PROVE SafeInv'
  <2>c. /\ UNCHANGED <<staged, audit, op, faults, asked, deleted>> /\ made' = made \cup {e}
        /\ memory' = [memory EXCEPT !.lines = @ \cup {e}]
        /\ inGap' = IF op.at \in {"replace", "restore"} THEN inGap \cup {e} ELSE inGap
    BY <1>16 DEF EditorAdds
  <2>m. memory' \in Memory /\ memory'.entries = memory.entries /\ memory'.lines = memory.lines \cup {e}
    BY <2>c, <1>m DEF Memory
  <2>1. TypeOK'
    BY <2>c, <2>m, <1>t DEF TypeOK
  <2>2. Stage' /\ Reviewed' /\ Once'
    BY <2>c, <2>m DEF SafeInv, Stage, Reviewed, Once
  <2>3. Gap'
    BY <2>c, <2>m DEF SafeInv, Gap
  <2>. QED BY <2>1, <2>2, <2>3 DEF SafeInv
<1>17. ASSUME NEW p \in Pid, EditorDeletes(p) PROVE SafeInv'
  <2>c. /\ UNCHANGED <<staged, audit, op, faults, asked, made, inGap>> /\ deleted' = deleted \cup {p}
        /\ memory' = [memory EXCEPT !.entries[p] = 0]
    BY <1>17 DEF EditorDeletes
  <2>m. /\ memory' \in Memory /\ memory'.lines = memory.lines
        /\ \A q \in Pid : memory'.entries[q] = IF q = p THEN 0 ELSE memory.entries[q]
    BY <2>c, <1>m DEF Memory
  <2>1. TypeOK'
    BY <2>c, <2>m, <1>t DEF TypeOK
  <2>2. Stage' /\ Reviewed' /\ Once' /\ Gap'
    BY <2>c, <2>m DEF SafeInv, Stage, Reviewed, Once, Gap
  <2>. QED BY <2>1, <2>2 DEF SafeInv
<1>18. CASE UNCHANGED vars
  BY <1>18 DEF vars, files, past, SafeInv, TypeOK, Stage, Reviewed, Once, Gap
<1>. QED
  BY <1>1, <1>2, <1>3, <1>4, <1>5, <1>6, <1>8, <1>9, <1>10, <1>11, <1>12, <1>14, <1>15,
     <1>16, <1>17, <1>18 DEF Next, Step

LEMMA Safe == Spec => []SafeInv
<1>. QED BY InitSafe, NextSafe, PTL DEF Spec

\* The files and the operation keep their types.
THEOREM TypeCorrect == Spec => []TypeOK
<1>1. SafeInv => TypeOK
  BY DEF SafeInv
<1>. QED BY <1>1, Safe, PTL

\* However many approves, crashes, rollbacks and retries there are, no proposal is
\* merged into MEMORY.md twice.
THEOREM MergedOnceTheorem == Spec => []MergedOnce
<1>1. SafeInv => MergedOnce
  BY DEF SafeInv, Once, MergedOnce
<1>. QED BY <1>1, Safe, PTL

\* MEMORY.md holds only what has an audit record and an operator's approval,
\* also when audit writes fail after the fact.
THEOREM OnlyReviewedTheorem == Spec => []OnlyReviewed
<1>1. SafeInv => OnlyReviewed
  BY DEF SafeInv, Reviewed, OnlyReviewed
<1>. QED BY <1>1, Safe, PTL

\* Both: what is in MEMORY.md was reviewed, and is there once.
THEOREM MergedAsReviewedTheorem == Spec => []MergedAsReviewed
<1>1. MergedOnce /\ OnlyReviewed => MergedAsReviewed
  BY DEF MergedAsReviewed
<1>. QED BY <1>1, MergedOnceTheorem, OnlyReviewedTheorem, PTL

\* A saved line is lost only if it was saved between a last check and its replace.
THEOREM LostOnlyInGapTheorem == Spec => []LostOnlyInGap
<1>1. SafeInv => LostOnlyInGap
  BY DEF SafeInv, Gap, LostOnlyInGap
<1>. QED BY <1>1, Safe, PTL

-----------------------------------------------------------------------------
(* Refinement of the ledger.  What has to be carried along: an approved        *)
(* proposal stays in MEMORY.md (or was removed by the user), also across a     *)
(* replace by what an operation read earlier.                                  *)

Kept(m) == \A q \in Pid : audit[q] = "approved" => m.entries[q] > 0 \/ q \in deleted

Commit ==
  /\ Kept(memory)
  /\ op.at \in {"write", "replace", "verify", "audit", "rollback", "restore"} =>
        /\ audit[op.pid] = IF op.kind = "propose" THEN "none" ELSE "proposed"
        /\ op.kind = "approve" => Kept(op.previous)
  /\ op.at = "audit" /\ op.kind = "approve" =>
        memory.entries[op.pid] > 0 \/ op.pid \in deleted
  /\ op.at = "verify" => op.kind = "approve"

\* Then the curated proposals are the approved ones.
LEMMA CuratedApproved ==
  ASSUME Kept(memory) PROVE Curated = {p \in Pid : audit[p] = "approved"}
BY DEF Kept, Curated

LEMMA InitCommit == Init => Commit
BY DEF Init, Commit, Kept, Idle, EmptyMemory

\* A step that neither commits nor touches MEMORY.md, and stays off "audit".
LEMMA QuietCommit ==
  ASSUME SafeInv, Commit, UNCHANGED <<memory, audit, deleted>>,
         \/ Leave
         \/ Goto("unlink")
         \/ Goto("replace") /\ op.at = "write"
         \/ Goto("restore") /\ op.at = "rollback"
         \/ Goto("rollback") /\ op.at = "audit" /\ op.kind = "approve"
         \/ Goto("audit") /\ op.at = "verify" /\ memory.entries[op.pid] > 0
  PROVE  Commit'
<1>t. TypeOK
  BY DEF SafeInv
<1>1. CASE Leave
  BY <1>1, LeaveType DEF Commit, Kept
<1>2. CASE ~Leave
  BY <1>2, <1>t, GotoType DEF Commit, Kept
<1>. QED BY <1>1, <1>2

LEMMA NextCommit == ~LateFailures /\ SafeInv /\ Commit /\ [Next]_vars => Commit'
<1> SUFFICES ASSUME ~LateFailures, SafeInv, Commit, [Next]_vars PROVE Commit'
  OBVIOUS
<1>t. TypeOK
  BY DEF SafeInv
<1>m. memory \in Memory /\ op.previous \in Memory /\ audit \in [Pid -> Action]
  BY <1>t DEF TypeOK
<1>1. ASSUME NEW p \in Pid, BeginPropose(p) PROVE Commit'
  <2>1. op'.kind = "propose" /\ op'.pid = p /\ op'.at = "audit" /\ op'.previous = memory
    BY <1>1, <1>t, EnterType DEF BeginPropose
  <2>. QED BY <1>1, <2>1 DEF BeginPropose, Commit, Kept, past
<1>2. ASSUME NEW p \in Pid, BeginApprove(p) PROVE Commit'
  <2>0. PICK at \in {"write", "audit", "unlink"} :
          /\ Enter("approve", p, at)
          /\ at # "unlink" => audit[p] = "proposed"
          /\ at = "audit" => memory.entries[p] > 0
    BY <1>2 DEF BeginApprove, Proposed, HasEntry
  <2>1. op'.kind = "approve" /\ op'.pid = p /\ op'.at = at /\ op'.previous = memory
    BY <2>0, <1>t, EnterType
  <2>. QED BY <1>2, <2>0, <2>1 DEF BeginApprove, Commit, Kept, files
<1>3. ASSUME NEW p \in Pid, BeginReject(p) PROVE Commit'
  <2>0. PICK at \in {"audit", "unlink"} :
          Enter("reject", p, at) /\ (at = "audit" => audit[p] = "proposed")
    BY <1>3 DEF BeginReject, Proposed
  <2>1. op'.kind = "reject" /\ op'.pid = p /\ op'.at = at
    BY <2>0, <1>t, EnterType
  <2>. QED BY <1>3, <2>0, <2>1 DEF BeginReject, Commit, Kept, files, past
<1>4. CASE CheckMemory
  BY <1>4, QuietCommit DEF CheckMemory, files, past
<1>5. CASE ReplaceMemory
  <2>0. op.pid \in Pid /\ op.kind = "approve"
    BY <1>5 DEF ReplaceMemory, SafeInv, Stage
  <2>m. /\ memory'.entries[op.pid] = op.previous.entries[op.pid] + 1
        /\ \A q \in Pid \ {op.pid} : memory'.entries[q] = op.previous.entries[q]
    BY <1>5, <2>0, <1>m, MergedType DEF ReplaceMemory
  <2>1. op'.kind = op.kind /\ op'.pid = op.pid /\ op'.at = "verify" /\ op'.previous = op.previous
    BY <1>5, <1>t, GotoType DEF ReplaceMemory
  <2>. QED BY <1>5, <2>0, <2>m, <2>1 DEF ReplaceMemory, Commit, Kept, past
<1>6. CASE VerifyMemory
  <2>0. op.pid \in Pid
    BY <1>6 DEF VerifyMemory, SafeInv, Stage
  <2>n. op.previous.entries[op.pid] \in Nat
    BY <2>0, <1>m DEF Memory
  <2>1. memory = Merged(op.previous, op.pid) => memory.entries[op.pid] > 0
    <3> DEFINE merged == Merged(op.previous, op.pid)
    <3>1. merged.entries[op.pid] = op.previous.entries[op.pid] + 1
      BY <2>0, <1>m, MergedType
    <3> HIDE DEF merged
    <3>2. memory = merged => memory.entries[op.pid] > 0
      BY <3>1, <2>n
    <3>. QED BY <3>2 DEF merged
  <2>. QED BY <1>6, <2>1, QuietCommit DEF VerifyMemory, files, past
<1>7. CASE AppendAudit
  <2>0. op.pid \in Pid /\ op.kind \in {"propose", "approve", "reject"}
    BY <1>7, <1>t DEF AppendAudit, SafeInv, Stage, TypeOK
  <2>1. Kept(memory)'
    BY <1>7, <2>0, <1>m DEF AppendAudit, Verdict, Commit, Kept, past
  <2>2. op'.at \in {"idle", "unlink"}
    BY <1>7, <1>t, LeaveType, GotoType DEF AppendAudit
  <2>. QED BY <2>1, <2>2 DEF Commit
<1>8. CASE AuditFails
  BY <1>8, QuietCommit DEF AuditFails, UndoAudit, Changed, past
<1>9. ~AuditFailsLate
  BY DEF AuditFailsLate
<1>10. CASE CheckRollback
  BY <1>10, QuietCommit DEF CheckRollback, files, past
<1>11. CASE Restore
  <2>1. op.kind = "approve"
    BY <1>11 DEF Restore, SafeInv, Stage
  <2>. QED BY <1>11, <2>1, LeaveType DEF Restore, Commit, Kept, past
<1>12. CASE Unlink
  BY <1>12, QuietCommit DEF Unlink, past
<1>13. CASE Stop
  BY <1>13, QuietCommit DEF Stop, files, past
<1>14. ASSUME NEW e \in Edit, EditorAdds(e) PROVE Commit'
  <2>1. memory'.entries = memory.entries
    BY <1>14, <1>m DEF EditorAdds, Memory
  <2>. QED BY <1>14, <2>1 DEF EditorAdds, Commit, Kept
<1>15. ASSUME NEW p \in Pid, EditorDeletes(p) PROVE Commit'
  <2>1. \A q \in Pid : memory'.entries[q] = IF q = p THEN 0 ELSE memory.entries[q]
    BY <1>15, <1>m DEF EditorDeletes, Memory
  <2>2. op.at # "idle" => op.pid \in Pid
    BY DEF SafeInv, Stage
  <2>. QED BY <1>15, <2>1, <2>2 DEF EditorDeletes, Commit, Kept
<1>16. CASE UNCHANGED vars
  BY <1>16 DEF vars, files, past, Commit, Kept
<1>. QED
  BY <1>1, <1>2, <1>3, <1>4, <1>5, <1>6, <1>7, <1>8, <1>9, <1>10, <1>11, <1>12, <1>13,
     <1>14, <1>15, <1>16 DEF Next, Step

\* Every step of the gate is a step of the ledger, or changes nothing there.
LEMMA StepRefines ==
  SafeInv /\ Commit /\ Commit' /\ ~LateFailures /\ [Next]_vars => [Ledger!Next]_(Ledger!ledger)
<1> SUFFICES ASSUME SafeInv, Commit, Commit', ~LateFailures, [Next]_vars
             PROVE  [Ledger!Next]_(Ledger!ledger)
  OBVIOUS
<1>t. TypeOK
  BY DEF SafeInv
<1>a. audit \in [Pid -> Action]
  BY <1>t DEF TypeOK
<1>c. Curated = {p \in Pid : audit[p] = "approved"} /\ Curated' = {p \in Pid : audit'[p] = "approved"}
  BY CuratedApproved DEF Commit, Kept, Curated
<1>1. CASE AppendAudit
  <2>0. op.pid \in Pid /\ op.kind \in {"propose", "approve", "reject"}
    BY <1>1, <1>t DEF AppendAudit, SafeInv, Stage, TypeOK
  <2>1. audit[op.pid] = IF op.kind = "propose" THEN "none" ELSE "proposed"
    BY <1>1 DEF AppendAudit, Commit
  <2>2. audit' = [audit EXCEPT ![op.pid] = Verdict]
    BY <1>1 DEF AppendAudit
  <2>3. CASE op.kind = "propose"
    BY <2>0, <2>1, <2>2, <2>3, <1>a, <1>c DEF Verdict, Ledger!Next, Ledger!Propose
  <2>4. CASE op.kind = "reject"
    BY <2>0, <2>1, <2>2, <2>4, <1>a, <1>c DEF Verdict, Ledger!Next, Ledger!Reject
  <2>5. CASE op.kind = "approve"
    BY <2>0, <2>1, <2>2, <2>5, <1>a, <1>c DEF Verdict, Ledger!Next, Ledger!Approve
  <2>. QED BY <2>0, <2>3, <2>4, <2>5
<1>2. CASE ~AppendAudit
  <2>1. audit' = audit
    BY <1>2 DEF Next, Step, BeginPropose, BeginApprove, BeginReject, CheckMemory, ReplaceMemory,
       VerifyMemory, AuditFails, AuditFailsLate, CheckRollback, Restore, Unlink, Stop, EditorAdds,
       EditorDeletes, vars, files, past
  <2>. QED BY <2>1, <1>c DEF Ledger!ledger
<1>. QED BY <1>1, <1>2

\* When an audit write that fails leaves no record behind, the audit log and
\* MEMORY.md together are the ledger: every verdict is final, and a proposal
\* becomes approved and curated in one step, whatever crashes in between.
THEOREM RefinesLedgerTheorem == ~LateFailures => (Spec => RefinesLedger)
<1> SUFFICES ASSUME ~LateFailures PROVE Spec => RefinesLedger
  OBVIOUS
<1>1. Init => Ledger!Init
  BY DEF Init, Ledger!Init, Curated, EmptyMemory
<1>2. SafeInv /\ Commit /\ [Next]_vars => Commit'
  BY NextCommit
<1>3. SafeInv /\ Commit /\ Commit' /\ [Next]_vars => [Ledger!Next]_(Ledger!ledger)
  BY StepRefines
<1>. QED BY <1>1, <1>2, <1>3, Safe, InitCommit, PTL DEF Spec, RefinesLedger, Ledger!Spec

=============================================================================
