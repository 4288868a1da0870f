---------------------------- MODULE SlotMailbox ----------------------------
(***************************************************************************)
(* What a slot and its acknowledgement cell promise their two endpoints:   *)
(* each slot is a mailbox for one payload.  A payload is put only into an  *)
(* empty mailbox, stays there unchanged until it is taken, and is taken    *)
(* exactly as it was put.  The payloads of slot i carry the sequences      *)
(* i + 1, i + 1 + SlotCount, i + 1 + 2 * SlotCount and so on.              *)
(***************************************************************************)
EXTENDS Integers

CONSTANTS
    SlotCount,    \* slots of the region
    MaxSequence,  \* the largest sequence
    Payloads      \* what a payload may be

VARIABLES
    box,   \* the payload in each slot's mailbox, or Empty
    last,  \* the last sequence put into each slot, 0 before the first
    taken  \* the last payload taken from each slot, or Empty

mailboxVars == <<box, last, taken>>

Slots == 0..(SlotCount - 1)

Empty == [sequence |-> 0, payload |-> <<>>]

NextSequence(i) == IF last[i] = 0 THEN i + 1 ELSE last[i] + SlotCount

Init ==
    /\ box = [i \in Slots |-> Empty]
    /\ last = [i \in Slots |-> 0]
    /\ taken = [i \in Slots |-> Empty]

Put(i) ==
    /\ box[i] = Empty
    /\ NextSequence(i) <= MaxSequence
    /\ last' = [last EXCEPT ![i] = NextSequence(i)]
    /\ \E p \in Payloads :
         box' = [box EXCEPT ![i] = [sequence |-> NextSequence(i), payload |-> p]]
    /\ UNCHANGED taken

Take(i) ==
    /\ box[i] # Empty
    /\ taken' = [taken EXCEPT ![i] = box[i]]
    /\ box' = [box EXCEPT ![i] = Empty]
    /\ UNCHANGED last

Next == \E i \in Slots : Put(i) \/ Take(i)

Spec == Init /\ [][Next]_mailboxVars
=============================================================================
