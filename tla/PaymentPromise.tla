--------------------------- MODULE PaymentPromise ---------------------------
(***************************************************************************)
(* What a payment workflow promises its account holders, whatever its      *)
(* mechanism: a payment is refused without moving money or debited once,   *)
(* and a debit is restored at most once.  Nothing else touches the money.  *)
(* Workflows map their own state to outcome and moved and implement Spec.  *)
(***************************************************************************)
EXTENDS Integers

CONSTANTS Payments,  \* payment identifiers
          Amount     \* the amounts a payment may have

VARIABLES outcome,   \* outcome[p] of payment p
          moved      \* moved[p]: the cents p has taken from its account

vars == <<outcome, moved>>

Outcome == {"open", "refused", "debited", "restored"}

Init == /\ outcome = [p \in Payments |-> "open"]
        /\ moved = [p \in Payments |-> 0]

Refuse(p) == /\ outcome[p] = "open"
             /\ outcome' = [outcome EXCEPT ![p] = "refused"]
             /\ UNCHANGED moved

Debit(p) == /\ outcome[p] = "open"
            /\ outcome' = [outcome EXCEPT ![p] = "debited"]
            /\ \E cents \in Amount : moved' = [moved EXCEPT ![p] = cents]

Restore(p) == /\ outcome[p] = "debited"
              /\ outcome' = [outcome EXCEPT ![p] = "restored"]
              /\ moved' = [moved EXCEPT ![p] = 0]

Next == \E p \in Payments : Refuse(p) \/ Debit(p) \/ Restore(p)

Spec == Init /\ [][Next]_vars
=============================================================================
