---------------------------- MODULE ControlLease ----------------------------
(***************************************************************************)
(* The lease that says who may drive the one live session: automation or a *)
(* human, at which epoch (execution/lease.py).  The module declares the    *)
(* two fields of ControlLease, its two transfers and its fencing test; the *)
(* kernel and the replay session extend it.                                *)
(***************************************************************************)
EXTENDS Integers

VARIABLES
  owner,    \* _owner, a ControlOwner
  epoch     \* _epoch, advanced by every transfer

lease == << owner, epoch >>

ControlOwner == {"automation", "human"}

\* captured_epoch=None: the caller fences on ownership alone.
NoEpoch == -1

LeaseTypeOK ==
  /\ owner \in ControlOwner
  /\ epoch \in Nat

LeaseInit ==
  /\ owner = "automation"
  /\ epoch = 0

-----------------------------------------------------------------------------

\* A same-owner transition raises ControlLeaseError, so neither is enabled then.
ToHuman ==
  /\ owner # "human"
  /\ owner' = "human"
  /\ epoch' = epoch + 1

ToAutomation ==
  /\ owner # "automation"
  /\ owner' = "automation"
  /\ epoch' = epoch + 1

\* Mutant: the fence looks at the owner and not at the epoch.
MayActAnyEpoch(captured) == owner = "automation"

\* assert_automation_may_act returns instead of raising.
MayAct(captured) ==
  /\ owner = "automation"
  /\ captured # NoEpoch => captured = epoch

=============================================================================
