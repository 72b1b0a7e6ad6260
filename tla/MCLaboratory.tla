---------------------------- MODULE MCLaboratory ----------------------------
(* Small instances for TLC, in one run: the retry processors on their own,  *)
(* whose work is external and may raise, and the laboratory.  There is one  *)
(* retry after the first attempt, so that scripts of two failures exhaust   *)
(* it, and two identifiers for three payments, so that some share one.      *)
EXTENDS Laboratory

Plain == [kind |-> "post"]
Fixed(k, time) == [kind |-> k, at |-> time]

MCWorks == {("PAY-1" :> Plain) @@ ("PAY-2" :> Fixed("keyed", 3)),
            ("PAY-1" :> Fixed("ordered", 2)) @@ ("PAY-2" :> Fixed("keyed", 3))}

\* The processors on their own have no works.
NoWorks == works = <<>>

MCInit == \/ LabInit
          \/ /\ Init /\ NoWorks
             /\ ledger = <<OpenEntry>> /\ keys = {} /\ ordered = {} /\ refusals = {}

MCRunNext == \/ NoWorks /\ RunNext /\ UNCHANGED labVars
             \/ ~NoWorks /\ LabRunNext

MCNext == \/ NoWorks /\ Next /\ UNCHANGED labVars
          \/ ~NoWorks /\ LabNext

\* The fairness of FairSpec and of FairLabSpec.
MCFairSpec == /\ MCInit /\ [][MCNext]_allVars
              /\ []<>(queue = {}) \/ []<><<MCRunNext>>_allVars
=============================================================================
