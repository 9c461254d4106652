---------------------------- MODULE ReviewLedger ----------------------------
(***************************************************************************)
(* What the memory review gate promises its operator: a proposal gets one  *)
(* verdict for good, and approving it is atomic - the moment the verdict   *)
(* is approved, the proposal is part of the curated memory.                *)
(* MemoryReview implements this with three files and a lock.               *)
(***************************************************************************)
CONSTANT Pid   \* ids of proposals

VARIABLES
  verdict,     \* what became of each proposal
  curated      \* the proposals the gate made part of MEMORY.md

ledger == <<verdict, curated>>

Init ==
  /\ verdict = [p \in Pid |-> "none"]
  /\ curated = {}

Propose(p) ==
  /\ verdict[p] = "none"
  /\ verdict' = [verdict EXCEPT ![p] = "proposed"]
  /\ UNCHANGED curated

Approve(p) ==
  /\ verdict[p] = "proposed"
  /\ verdict' = [verdict EXCEPT ![p] = "approved"]
  /\ curated' = curated \cup {p}

Reject(p) ==
  /\ verdict[p] = "proposed"
  /\ verdict' = [verdict EXCEPT ![p] = "rejected"]
  /\ UNCHANGED curated

Next == \E p \in Pid : Propose(p) \/ Approve(p) \/ Reject(p)

Spec == Init /\ [][Next]_ledger

=============================================================================
