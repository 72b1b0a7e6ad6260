----------------------------- MODULE Onboarding -----------------------------
(***************************************************************************)
(* One membership application (bank_sim/onboarding.py), whose operations   *)
(* are called in any order.  A call that raises changes nothing and is no  *)
(* step.  Names and texts of the application are left out, and its region  *)
(* is kept as what the fixed rule makes of it.                             *)
(***************************************************************************)
EXTENDS Integers, Sequences

VARIABLES application,  \* MemberApplication: its statuses and rejection reason
          eligibleRegion,   \* whether its region is in ELIGIBLE_REGIONS
          log           \* MemberApplication._history: the details in order

applicationVars == <<application, eligibleRegion, log>>

RejectionReason == {"Incomplete application", "Ineligible",
                    "Identity verification failed"}

Draft == [status |-> "Draft", eligibility |-> "Not evaluated",
          identity |-> "Not started", reason |-> "None"]

ApplicationInit == /\ application = Draft
                   /\ eligibleRegion \in BOOLEAN
                   /\ log = <<[event |-> "created", detail |-> "Draft"]>>

\* _require_status.
In(expected) == application.status = expected

\* The application changes to next, with one record.
Changes(next, name, text) ==
  /\ application' = next
  /\ log' = Append(log, [event |-> name, detail |-> text])
  /\ UNCHANGED eligibleRegion

submit_application ==
  /\ In("Draft")
  /\ Changes([application EXCEPT !.status = "Submitted"], "submitted", "Submitted")

begin_review ==
  /\ In("Submitted")
  /\ Changes([application EXCEPT !.status = "Under review"], "review started",
             "Under review")

evaluate_eligibility ==
  LET result == IF eligibleRegion THEN "Eligible" ELSE "Ineligible" IN
  /\ In("Under review")
  /\ application.eligibility = "Not evaluated"
  /\ Changes([application EXCEPT !.eligibility = result], "eligibility", result)

\* Seeded bug: a verification may be recorded again.
record_identity_verificationAgain(result) ==
  /\ In("Under review")
  /\ Changes([application EXCEPT !.identity = result], "identity", result)

record_identity_verification(result) ==
  /\ In("Under review")
  /\ application.identity = "Not started"
  /\ Changes([application EXCEPT !.identity = result], "identity", result)

approve ==
  /\ In("Under review")
  /\ application.eligibility = "Eligible" /\ application.identity = "Passed"
  /\ Changes([application EXCEPT !.status = "Approved", !.reason = "None"],
             "approved", "Approved")

\* A reason other than an incomplete application needs its fact.
reject_application(reason) ==
  /\ In("Under review")
  /\ reason = "Ineligible" => application.eligibility = "Ineligible"
  /\ reason = "Identity verification failed" => application.identity = "Failed"
  /\ Changes([application EXCEPT !.status = "Rejected", !.reason = reason],
             "rejected", reason)

ApplicationNext ==
  \/ submit_application
  \/ begin_review
  \/ evaluate_eligibility
  \/ \E result \in {"Passed", "Failed"} : record_identity_verification(result)
  \/ approve
  \/ \E reason \in RejectionReason : reject_application(reason)

ApplicationSpec == ApplicationInit /\ [][ApplicationNext]_applicationVars
-----------------------------------------------------------------------------
Details(name) == {log[i].detail : i \in {j \in DOMAIN log : log[j].event = name}}
Times(name) == {j \in DOMAIN log : log[j].event = name}

\* The history alone supports the decision, whatever the order of the calls: a
\* decision is recorded once and last, after a review; an approval has one eligible
\* and one passed check behind it and no other; a rejection that names a check has
\* that check's failure behind it, and no application is approved in spite of a
\* failed one (Chapter 2, the guards of approve, reject and the two checks).
DecisionSupported ==
  LET decided == Times("approved") \cup Times("rejected") IN
  /\ decided \subseteq {Len(log)}
  /\ decided # {} <=> application.status \in {"Approved", "Rejected"}
  /\ \A i \in decided : \E j \in Times("review started") : j < i
  /\ Times("approved") # {} => /\ Details("eligibility") = {"Eligible"}
                               /\ Details("identity") = {"Passed"}
  /\ "Ineligible" \in Details("rejected") => Details("eligibility") = {"Ineligible"}
  /\ "Identity verification failed" \in Details("rejected") =>
       Details("identity") = {"Failed"}
=============================================================================
