--------------------------- MODULE BatchAgreement ---------------------------
(***************************************************************************)
(* What one region transfer promises the two applications.  The receiver   *)
(* votes for a batch it has imported; the coordinator commits a batch only *)
(* on a vote for that very batch; the receiver may refuse instead, which   *)
(* leaves both sessions usable.  An endpoint reports a transaction once:   *)
(* Active only if it was committed, Refused only if it was refused, and    *)
(* Failed at any time, which costs it its session.  There is no promise    *)
(* that both endpoints report the same thing: COMMIT is not acknowledged.  *)
(***************************************************************************)
CONSTANTS
    Ends,          \* the two endpoints
    Transactions,  \* transaction numbers
    Batches        \* what can be transferred

VARIABLES
    vote,      \* the batch the receiver voted for, or NoBatch
    decision,  \* Open, Refused, or Committed and what was committed
    outcome    \* what each endpoint reported of each transaction

agreementVars == <<vote, decision, outcome>>

NoBatch == {}
Undecided == [kind |-> "Open", batch |-> NoBatch]

Init ==
    /\ vote = [t \in Transactions |-> NoBatch]
    /\ decision = [t \in Transactions |-> Undecided]
    /\ outcome = [e \in Ends |-> [t \in Transactions |-> "Pending"]]

Vote(t, b) ==
    /\ vote[t] = NoBatch
    /\ decision[t] = Undecided
    /\ vote' = [vote EXCEPT ![t] = b]
    /\ UNCHANGED <<decision, outcome>>

Commit(t, b) ==
    /\ vote[t] = b
    /\ decision[t] = Undecided
    /\ decision' = [decision EXCEPT ![t] = [kind |-> "Committed", batch |-> b]]
    /\ UNCHANGED <<vote, outcome>>

Refuse(t) ==
    /\ vote[t] = NoBatch
    /\ decision[t] = Undecided
    /\ decision' = [decision EXCEPT ![t] = [kind |-> "Refused", batch |-> NoBatch]]
    /\ UNCHANGED <<vote, outcome>>

Report(e, t, result) ==
    /\ outcome[e][t] = "Pending"
    /\ result = "Active" => decision[t].kind = "Committed"
    /\ result = "Refused" => decision[t].kind = "Refused"
    /\ outcome' = [outcome EXCEPT ![e][t] = result]
    /\ UNCHANGED <<vote, decision>>

Next ==
    \E t \in Transactions :
        \/ \E b \in Batches : Vote(t, b) \/ Commit(t, b)
        \/ Refuse(t)
        \/ \E e \in Ends, r \in {"Active", "Refused", "Failed"} : Report(e, t, r)

Spec == Init /\ [][Next]_agreementVars
=============================================================================
