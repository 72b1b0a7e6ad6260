------------------------------ MODULE MCLedger ------------------------------
(* Small instances for TLC of four parts that share no state, in one run:   *)
(* the scheduler with callbacks of its own; the ledger on its own, with two *)
(* workflows, whose entries may collide, and two accounts; the scripts of   *)
(* two requests, which have ledgers of their own; and one membership        *)
(* application.                                                             *)
EXTENDS Duplicates, Onboarding, EventScheduler

MCEntryIds == {<<"w1", "ENTRY">>, <<"w2", "DEBIT">>, <<"w2", "CREDIT">>}

VARIABLE part    \* the part that moves in this behaviour

MCInit == /\ LedgerInit /\ script = <<>> /\ ApplicationInit /\ Init
          /\ part \in {"scheduler", "ledger", "script", "application"}
          /\ part # "application" => eligibleRegion
          /\ part # "scheduler" => clock = 0

MCVars == <<vars, entries, script, applicationVars, part>>

SchedulerPart(action) ==
  part = "scheduler" /\ action /\ UNCHANGED <<entries, script, applicationVars, part>>

MCNext ==
  \/ SchedulerPart(Next)
  \/ /\ part = "ledger" /\ LedgerNext
     /\ UNCHANGED <<vars, script, applicationVars, part>>
  \/ /\ part = "script" /\ deliver
     /\ UNCHANGED <<vars, entries, applicationVars, part>>
  \/ /\ part = "application" /\ ApplicationNext
     /\ UNCHANGED <<vars, entries, script, part>>

\* The fairness of FairSpec, which is the scheduler's.
MCSpec == MCInit /\ [][MCNext]_MCVars /\ WF_MCVars(SchedulerPart(RunNext))
=============================================================================
