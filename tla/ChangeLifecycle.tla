-------------------------- MODULE ChangeLifecycle --------------------------
(***************************************************************************)
(* What the wallet promises about change addresses, with no processes, no  *)
(* locks and no crashes.  Every child index of the change branch is, in    *)
(* order, AVAILABLE, RESERVED for one draft and ISSUED; it may go back     *)
(* from RESERVED to AVAILABLE, and ISSUED is final.  Only the next index   *)
(* can be anything but issued or untouched, so one counter, one holder and *)
(* the owner of each issued index are the whole state.                     *)
(***************************************************************************)
EXTENDS Naturals

CONSTANTS Draft, IndexLimit, NoDraft, Manual

VARIABLES
  next,      \* the current index; every lower one is issued
  holder,    \* the draft the current index is reserved for, or NoDraft
  owner      \* whom each issued index was issued for

lifeVars == <<next, holder, owner>>

LifeInit ==
  /\ next = 0
  /\ holder = NoDraft
  /\ owner = [k \in 0 .. IndexLimit - 1 |-> NoDraft]

Reserve(d) ==
  /\ next < IndexLimit /\ holder = NoDraft
  /\ holder' = d
  /\ UNCHANGED <<next, owner>>

GiveBack ==
  /\ holder # NoDraft
  /\ holder' = NoDraft
  /\ UNCHANGED <<next, owner>>

IssueTo(u) ==
  /\ next < IndexLimit
  /\ owner' = [owner EXCEPT ![next] = u]
  /\ next' = next + 1
  /\ holder' = NoDraft

IssueReserved == holder # NoDraft /\ IssueTo(holder)
IssueManual == holder = NoDraft /\ IssueTo(Manual)

LifeNext ==
  \/ \E d \in Draft : Reserve(d)
  \/ GiveBack \/ IssueReserved \/ IssueManual

LifeSpec == LifeInit /\ [][LifeNext]_lifeVars
=============================================================================
