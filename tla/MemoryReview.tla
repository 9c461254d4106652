---------------------------- MODULE MemoryReview ----------------------------
(***************************************************************************)
(* The memory review gate (memory/review_gate.py): an agent stages         *)
(* proposals, an operator approves or rejects them, and only an approval   *)
(* writes MEMORY.md.                                                       *)
(*                                                                         *)
(* One operation runs at a time: a thread lock and a file lock are held    *)
(* for the whole of it (_transaction), and the system drops both when the  *)
(* process dies.  MEMORY.md is also edited by the user's own editor, which *)
(* takes no lock.  A file is written by checking that it still is the      *)
(* version that was read, and replacing it in a later step.                *)
(*                                                                         *)
(* The audit log is kept as the action of the latest record of each        *)
(* proposal, which is all that _verify_pending_audit looks at.             *)
(***************************************************************************)
EXTENDS Integers, FiniteSets

CONSTANTS
  Pid,            \* ids of proposals
  NoPid,
  Edit,           \* lines the user may add to MEMORY.md in an editor
  Deletes,        \* TRUE: the user also removes approved entries
  LateFailures,   \* TRUE: the audit write may fail after the file was replaced
  MaxFaults       \* bound: crashes and I/O errors

ASSUME MemoryReviewAssumption ==
  /\ NoPid \notin Pid
  /\ Deletes \in BOOLEAN /\ LateFailures \in BOOLEAN
  /\ MaxFaults \in Nat

VARIABLES
  memory,    \* MEMORY.md: how often each entry occurs, and the user's lines
  staged,    \* files in memory/pending
  audit,     \* action of the latest audit record of each proposal
  op,        \* the operation that holds the lock
  faults,    \* crashes and I/O errors so far
  asked,     \* history: proposals an operator asked to approve
  deleted,   \* history: entries the user removed
  made,      \* history: lines the user added
  inGap      \* history: those added between a check and its replace

files == <<memory, staged, audit>>
past == <<asked, deleted, made, inGap>>
vars == <<files, op, faults, past>>

Action == {"none", "proposed", "approved", "rejected"}
Memory == [entries : [Pid -> Nat], lines : SUBSET Edit]
EmptyMemory == [entries |-> [p \in Pid |-> 0], lines |-> {}]

Idle == [kind |-> "none", pid |-> NoPid, at |-> "idle", previous |-> EmptyMemory]

\* current + marker and chunk
Merged(previous, p) == [previous EXCEPT !.entries[p] = @ + 1]

\* "entry in current"
ForgetsEntry(m, p) == FALSE                                    \* faulty variant
HasEntry(m, p) == m.entries[p] > 0

\* _verify_pending_audit: the lifecycle an operation may go on from.
AnyLifecycle(p) == TRUE                                        \* faulty variant
Proposed(p) == audit[p] = "proposed"

\* The terminal branch of approve: audited and merged, staging alone is left.
NoTerminalBranch(p) == FALSE                                   \* faulty variant
AlreadyApproved(p) == audit[p] = "approved" /\ HasEntry(memory, p)

Verdict == CASE op.kind = "propose" -> "proposed"
             [] op.kind = "approve" -> "approved"
             [] op.kind = "reject"  -> "rejected"
             [] OTHER -> "none"

Enter(kind, p, at) ==
  op' = [kind |-> kind, pid |-> p, at |-> at, previous |-> memory]
Goto(at) == op' = [op EXCEPT !.at = at]
Leave == op' = Idle
Fault == faults < MaxFaults /\ faults' = faults + 1

\* memory_changed: the entry was not there when MEMORY.md was read.
Changed == op.kind = "approve" /\ ~HasEntry(op.previous, op.pid)

-----------------------------------------------------------------------------
Init ==
  /\ memory = EmptyMemory /\ staged = {} /\ audit = [p \in Pid |-> "none"]
  /\ op = Idle /\ faults = 0
  /\ asked = {} /\ deleted = {} /\ made = {} /\ inGap = {}

\* propose: the staging file is created exclusively, then the audit is written.
BeginPropose(p) ==
  /\ op = Idle /\ p \notin staged /\ audit[p] = "none"
  /\ staged' = staged \cup {p}
  /\ Enter("propose", p, "audit")
  /\ UNCHANGED <<memory, audit, faults, past>>

\* approve, up to its first write.  An entry that is already in MEMORY.md is not
\* merged again.
BeginApprove(p) ==
  /\ op = Idle /\ p \in staged
  /\ \/ Proposed(p) /\ Enter("approve", p, IF HasEntry(memory, p) THEN "audit" ELSE "write")
     \/ AlreadyApproved(p) /\ Enter("approve", p, "unlink")
  /\ asked' = asked \cup {p}
  /\ UNCHANGED <<files, faults, deleted, made, inGap>>

BeginReject(p) ==
  /\ op = Idle /\ p \in staged
  /\ \/ Proposed(p) /\ Enter("reject", p, "audit")
     \/ audit[p] = "rejected" /\ Enter("reject", p, "unlink")
  /\ UNCHANGED <<files, faults, past>>

\* _atomic_write_at: the last read before os.replace still sees the version that
\* was expected, or the operation gives up.
CheckNothing(expected) == TRUE                                 \* faulty variant
StillExpected(expected) == memory = expected

CheckMemory ==
  /\ op.at = "write"
  /\ IF StillExpected(op.previous) THEN Goto("replace") ELSE Leave
  /\ UNCHANGED <<files, faults, past>>

ReplaceMemory ==
  /\ op.at = "replace"
  /\ memory' = Merged(op.previous, op.pid)
  /\ Goto("verify")
  /\ UNCHANGED <<staged, audit, faults, past>>

\* The file is read back; what was written must be what is there.
VerifyMemory ==
  /\ op.at = "verify"
  /\ IF memory = Merged(op.previous, op.pid) THEN Goto("audit") ELSE Leave
  /\ UNCHANGED <<files, faults, past>>

\* _append_audit commits; a proposal is then complete, a verdict has still to
\* consume its staging file.
AppendAudit ==
  /\ op.at = "audit"
  /\ audit' = [audit EXCEPT ![op.pid] = Verdict]
  /\ IF op.kind = "propose" THEN Leave ELSE Goto("unlink")
  /\ UNCHANGED <<memory, staged, faults, past>>

\* _append_audit raises: staging is undone, a merge is rolled back.
UndoAudit ==
  \/ op.kind = "propose" /\ staged' = staged \ {op.pid} /\ Leave
  \/ Changed /\ Goto("rollback") /\ UNCHANGED staged
  \/ op.kind # "propose" /\ ~Changed /\ Leave /\ UNCHANGED staged

AuditFails ==
  /\ op.at = "audit" /\ Fault
  /\ UndoAudit
  /\ UNCHANGED <<memory, audit, past>>

\* The same exception, from the fsync or the read-back after os.replace.
AuditFailsLate ==
  /\ LateFailures
  /\ op.at = "audit" /\ Fault
  /\ audit' = [audit EXCEPT ![op.pid] = Verdict]
  /\ UndoAudit
  /\ UNCHANGED <<memory, past>>

CheckRollback ==
  /\ op.at = "rollback"
  /\ IF StillExpected(Merged(op.previous, op.pid)) THEN Goto("restore") ELSE Leave
  /\ UNCHANGED <<files, faults, past>>

Restore ==
  /\ op.at = "restore"
  /\ memory' = op.previous
  /\ Leave
  /\ UNCHANGED <<staged, audit, faults, past>>

Unlink ==
  /\ op.at = "unlink"
  /\ staged' = staged \ {op.pid}
  /\ Leave
  /\ UNCHANGED <<memory, audit, faults, past>>

\* The process dies, or an OSError ends the operation where it stands.
Stop ==
  /\ op # Idle /\ Fault
  /\ Leave
  /\ UNCHANGED <<files, past>>

\* The user saves MEMORY.md from an editor, in between any two steps.
EditorAdds(e) ==
  /\ e \notin made
  /\ memory' = [memory EXCEPT !.lines = @ \cup {e}]
  /\ made' = made \cup {e}
  /\ inGap' = IF op.at \in {"replace", "restore"} THEN inGap \cup {e} ELSE inGap
  /\ UNCHANGED <<staged, audit, op, faults, asked, deleted>>

EditorDeletes(p) ==
  /\ Deletes /\ memory.entries[p] > 0 /\ p \notin deleted
  /\ memory' = [memory EXCEPT !.entries[p] = 0]
  /\ deleted' = deleted \cup {p}
  /\ UNCHANGED <<staged, audit, op, faults, asked, made, inGap>>

Step ==
  \/ CheckMemory \/ ReplaceMemory \/ VerifyMemory \/ AppendAudit
  \/ CheckRollback \/ Restore \/ Unlink

Next ==
  \/ \E p \in Pid : BeginPropose(p) \/ BeginApprove(p) \/ BeginReject(p)
  \/ Step
  \/ AuditFails \/ AuditFailsLate \/ Stop
  \/ \E e \in Edit : EditorAdds(e)
  \/ \E p \in Pid : EditorDeletes(p)

Spec == Init /\ [][Next]_vars

\* An operation that holds the lock goes on.  The operator repeats what failed: he
\* keeps approving a proposal, or rejecting one whose rejection was audited.
FinishReject(p) == audit[p] = "rejected" /\ BeginReject(p)
RetrySpec ==
  /\ Spec /\ WF_vars(Step)
  /\ \A p \in Pid : SF_vars(BeginApprove(p)) /\ SF_vars(FinishReject(p))

-----------------------------------------------------------------------------
\* The files and the operation in progress have the shape the code gives them.
TypeOK ==
  /\ memory \in Memory
  /\ staged \subseteq Pid
  /\ audit \in [Pid -> Action]
  /\ op \in [kind : {"none", "propose", "approve", "reject"}, pid : Pid \cup {NoPid},
             at : {"idle", "write", "replace", "verify", "audit", "rollback", "restore",
                   "unlink"},
             previous : Memory]
  /\ faults \in Nat
  /\ asked \subseteq Pid /\ deleted \subseteq Pid /\ made \subseteq Edit /\ inGap \subseteq made

\* The gate merges a proposal once, whatever crashes, rollbacks and retries lie
\* between the first approve and the one that succeeds.
MergedOnce == \A p \in Pid : memory.entries[p] <= 1

\* Nothing reaches MEMORY.md that was not audited as a proposal and approved by
\* an operator; what a crash left in staging without an audit record never does.
OnlyReviewed == \A p \in Pid : memory.entries[p] > 0 => p \in asked /\ audit[p] # "none"

\* Together: an approval is what puts a proposal into MEMORY.md, and it does so once.
MergedAsReviewed == MergedOnce /\ OnlyReviewed

\* A line the user saved is lost only if it was saved in the instant between the
\* last check of an operation and its replace.
LostOnlyInGap == made \ memory.lines \subseteq inGap

\* Refinement: through crashes and partial failures the audit log and MEMORY.md
\* together behave like the ledger with its atomic approval.  What the user takes
\* out of the file by hand counts as still approved.
Curated == {p \in Pid : audit[p] = "approved" /\ (memory.entries[p] > 0 \/ p \in deleted)}
Ledger == INSTANCE ReviewLedger WITH verdict <- audit, curated <- Curated
RefinesLedger == Ledger!Spec

\* A proposal with an audit record does not stay in staging for ever if the
\* operator repeats what failed and leaves its entry in the file: whatever a crash
\* or an I/O error left half done, no lifecycle is a dead end.
Consumed ==
  \A p \in Pid : p \in staged /\ audit[p] # "none" ~> p \notin staged \/ p \in deleted

-----------------------------------------------------------------------------
(* What a comment of the code promises and the code does not keep. *)

\* review_gate.py:330: the audit is the durable commit record.  What it calls
\* rejected is not in MEMORY.md.
RejectedIsOut == \A p \in Pid : audit[p] = "rejected" => memory.entries[p] = 0

=============================================================================
