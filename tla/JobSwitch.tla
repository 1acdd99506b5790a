------------------------------- MODULE JobSwitch -------------------------------
(* What OffStaysOut means to an owner, who does not see queue, executor and      *)
(* poll: a promise about what is sent, which speaks of the past. A history       *)
(* variable remembers it.                                                        *)
EXTENDS JobSchedulerInvariants

VARIABLE
    off   \* off[j]: j has been off ever since some moment when it was at rest

switchVars == <<vars, off>>

\* At rest: neither in the queue nor executed, and the poller is not between its
\* reads of the contract and its last push.
AtRest(j) == ~Held(j) /\ pc \notin DispatchStages

SwitchInit ==
    /\ Init
    /\ off = [j \in Jobs |-> ~log[j].enabled /\ AtRest(j)]

\* The history follows every step of the scheduler and restrains none.
SwitchNext ==
    /\ Next
    /\ off' = [j \in Jobs |-> ~log'[j].enabled /\ (off[j] \/ AtRest(j)')]

SwitchSpec == SwitchInit /\ [][SwitchNext]_switchVars

\* A job that is off, and was at rest at some moment since it was switched off, is
\* not sent until it is switched on again.
SwitchedOffIsUnsent ==
    [][ \A j \in Jobs : Len(ops'[j]) > Len(ops[j]) => ~off[j] ]_switchVars

--------------------------------------------------------------------------------
(* The inductive invariant behind it.                                            *)

SwitchInv ==
    /\ \A j \in Jobs : off[j] => OutOfReach(j)
    /\ pc \notin {"fetch", "filter", "complete"} => config = NoConfigs /\ picked = {}
================================================================================
