------------------------------ MODULE SlotRing ------------------------------
(***************************************************************************)
(* Slot publication and acknowledgement in shared memory (native-ipc-core: *)
(* slot.rs and mapping.rs).                                                *)
(*                                                                         *)
(* The sole writer of a region publishes into its slots.  Any thread with  *)
(* the read-only mapping copies payloads out; one of them, the consumer,   *)
(* also acknowledges what it has copied, in a cell of the region that the  *)
(* opposite endpoint owns.  The writer reuses a slot only on an exact      *)
(* acknowledgement.  A step is one access to shared memory, so the words   *)
(* of a payload are written and copied one at a time.                      *)
(*                                                                         *)
(* Data: a payload word holds the sequence it was written for, which is    *)
(* all that telling a torn copy from a whole one needs.  Role, generation  *)
(* and cell index are fixed for a bound region and always match.           *)
(***************************************************************************)
EXTENDS Integers, Sequences

CONSTANTS
    SlotCount,    \* slots of the region
    Capacity,     \* payload capacity of a slot, in words
    MaxSequence,  \* u64::MAX, scaled down
    Readers,      \* threads that copy payloads
    Consumer      \* the one of them that acknowledges

ASSUME RingAssumption ==
    /\ SlotCount \in Nat \ {0}
    /\ Capacity \in Nat \ {0}
    /\ MaxSequence \in Nat
    /\ Consumer \in Readers

VARIABLES
    published,   \* SlotMetadata.published_sequence of each slot
    payloadLen,  \* SlotMetadata.payload_len of each slot
    word,        \* the payload words of each slot
    cell,        \* AcknowledgementCell.sequence of the cell routed to each slot
    writer,      \* the writer thread: its place in publish
    ackSeen,     \* the AcknowledgementObservations the writer holds
    reader,      \* each reader thread: its place in copy_payload
    taken        \* history: the last payload the consumer copied and acknowledged

memory == <<published, payloadLen, word, cell>>
vars == <<published, payloadLen, word, cell, writer, ackSeen, reader, taken>>

Slots == 0..(SlotCount - 1)
SequenceNumbers == 0..MaxSequence
Words == 1..Capacity
Nothing == [sequence |-> 0, payload |-> <<>>]

IdleReader == [pc |-> "Idle", slot |-> 0, sequence |-> 0, len |-> 0, copy |-> <<>>]
IdleWriter == [pc |-> "Idle", slot |-> 0, sequence |-> 0, len |-> 0, done |-> 0]

Init ==
    /\ published = [i \in Slots |-> 0]
    /\ payloadLen = [i \in Slots |-> 0]
    /\ word = [i \in Slots |-> [k \in Words |-> 0]]
    /\ cell = [i \in Slots |-> 0]
    /\ writer = IdleWriter
    /\ ackSeen = [i \in Slots |-> 0]
    /\ reader = [r \in Readers |-> IdleReader]
    /\ taken = [i \in Slots |-> Nothing]

\* validate_sequence_slot: the only slot of sequence s is (s - 1) mod SlotCount.
SequenceFitsSlot(i, s) == s # 0 /\ (s - 1) % SlotCount = i

-----------------------------------------------------------------------------
(***************************************************************************)
(* The writer.                                                             *)
(***************************************************************************)

\* AcknowledgementReader::observe; the observation may be used much later.
ObserveAcknowledgement(i) ==
    /\ writer.pc = "Idle"
    /\ ackSeen' = [ackSeen EXCEPT ![i] = cell[i]]
    /\ UNCHANGED <<memory, writer, reader, taken>>

\* Reuse on any observation of the slot, without comparing its sequence.
PrepareOnAnyAcknowledgement(i, s, observedSlot) ==
    /\ SequenceFitsSlot(i, s)
    /\ IF published[i] = 0
       THEN s = i + 1
       ELSE /\ published[i] + SlotCount <= MaxSequence
            /\ s = published[i] + SlotCount
            /\ observedSlot = i

\* Reuse without the slot comparison.
PrepareOnOtherSlot(i, s, observedSlot) ==
    /\ SequenceFitsSlot(i, s)
    /\ IF published[i] = 0
       THEN s = i + 1
       ELSE /\ published[i] + SlotCount <= MaxSequence
            /\ s = published[i] + SlotCount
            /\ ackSeen[observedSlot] >= published[i]

\* The wrap check off by one: the last sequence is refused.
PrepareWrapsEarly(i, s, observedSlot) ==
    /\ SequenceFitsSlot(i, s)
    /\ IF published[i] = 0
       THEN s = i + 1
       ELSE /\ published[i] + SlotCount < MaxSequence
            /\ s = published[i] + SlotCount
            /\ observedSlot = i
            /\ ackSeen[observedSlot] = published[i]

(***************************************************************************)
(* prepare_publish: the first sequence of slot i is i + 1; afterwards the  *)
(* sequence is the current one plus SlotCount (no wrap) and the            *)
(* observation passed in must be of this slot and exactly the current      *)
(* sequence, neither lagging nor ahead.                                    *)
(***************************************************************************)
PrepareAllowed(i, s, observedSlot) ==
    /\ SequenceFitsSlot(i, s)
    /\ IF published[i] = 0
       THEN s = i + 1
       ELSE /\ published[i] + SlotCount <= MaxSequence
            /\ s = published[i] + SlotCount
            /\ observedSlot = i
            /\ ackSeen[observedSlot] = published[i]

\* WriterRegion::publish up to the reservation; an over-long payload and a
\* refused reservation return an error and change nothing.
Prepare(i, s, observedSlot, len) ==
    /\ writer.pc = "Idle"
    /\ len <= Capacity
    /\ PrepareAllowed(i, s, observedSlot)
    /\ writer' = [pc |-> "Copy", slot |-> i, sequence |-> s, len |-> len, done |-> 0]
    /\ UNCHANGED <<memory, ackSeen, reader, taken>>

\* A copy loop that runs one word past the payload.
WriteWordPastEnd ==
    /\ writer.pc = "Copy"
    /\ writer.done <= writer.len
    /\ word' = [word EXCEPT ![writer.slot][writer.done + 1] = writer.sequence]
    /\ writer' = [writer EXCEPT !.done = @ + 1]
    /\ UNCHANGED <<published, payloadLen, cell, ackSeen, reader, taken>>

\* copy_nonoverlapping of the payload, a word at a time.
WriteWord ==
    /\ writer.pc = "Copy"
    /\ writer.done < writer.len
    /\ word' = [word EXCEPT ![writer.slot][writer.done + 1] = writer.sequence]
    /\ writer' = [writer EXCEPT !.done = @ + 1]
    /\ UNCHANGED <<published, payloadLen, cell, ackSeen, reader, taken>>

\* PublishReservation::publish: the length, then the Release store.
StoreLength ==
    /\ writer.pc = "Copy"
    /\ writer.done = writer.len
    /\ payloadLen' = [payloadLen EXCEPT ![writer.slot] = writer.len]
    /\ writer' = [writer EXCEPT !.pc = "Publish"]
    /\ UNCHANGED <<published, word, cell, ackSeen, reader, taken>>

StoreSequence ==
    /\ writer.pc = "Publish"
    /\ published' = [published EXCEPT ![writer.slot] = writer.sequence]
    /\ writer' = IdleWriter
    /\ UNCHANGED <<payloadLen, word, cell, ackSeen, reader, taken>>

-----------------------------------------------------------------------------
(***************************************************************************)
(* A reader: copy_payload and copy_payload_into.                           *)
(***************************************************************************)

\* ReaderSlot::observe, the Acquire load; any other sequence is StaleSequence.
LoadSequence(r, i, s) ==
    /\ reader[r].pc = "Idle"
    /\ SequenceFitsSlot(i, s)
    /\ published[i] = s
    /\ reader' = [reader EXCEPT ![r] =
                    [pc |-> "Length", slot |-> i, sequence |-> s, len |-> 0, copy |-> <<>>]]
    /\ UNCHANGED <<memory, writer, ackSeen, taken>>

LoadLength(r) ==
    /\ reader[r].pc = "Length"
    /\ reader' = [reader EXCEPT ![r].pc = "Copy", ![r].len = payloadLen[reader[r].slot]]
    /\ UNCHANGED <<memory, writer, ackSeen, taken>>

\* volatile_copy, a word at a time.
ReadWord(r) ==
    /\ reader[r].pc = "Copy"
    /\ Len(reader[r].copy) < reader[r].len
    /\ reader' = [reader EXCEPT ![r].copy =
                    Append(@, word[reader[r].slot][Len(@) + 1])]
    /\ UNCHANGED <<memory, writer, ackSeen, taken>>

(***************************************************************************)
(* ReaderSlot::recheck: the sequence and then the length must be what they *)
(* were; otherwise the copy is discarded with an error.                    *)
(***************************************************************************)
RecheckSequence(r) ==
    /\ reader[r].pc = "Copy"
    /\ Len(reader[r].copy) = reader[r].len
    /\ reader' = [reader EXCEPT ![r] =
                    IF published[@.slot] = @.sequence
                    THEN [@ EXCEPT !.pc = "Recheck"] ELSE IdleReader]
    /\ UNCHANGED <<memory, writer, ackSeen, taken>>

RecheckLength(r) ==
    /\ reader[r].pc = "Recheck"
    /\ reader' = [reader EXCEPT ![r] =
                    IF payloadLen[@.slot] = @.len
                    THEN [@ EXCEPT !.pc = "Copied"] ELSE IdleReader]
    /\ UNCHANGED <<memory, writer, ackSeen, taken>>

(***************************************************************************)
(* AcknowledgementWriter::acknowledge of the observation just copied: a    *)
(* smaller sequence than the cell's is refused, an equal one changes       *)
(* nothing.  The consumer acknowledges after the copy, as the protocol of  *)
(* the README has it; it may also keep the copy and not acknowledge.       *)
(***************************************************************************)
Acknowledge ==
    LET c == reader[Consumer]
    IN /\ c.pc = "Copied"
       /\ IF c.sequence > cell[c.slot]
          THEN /\ cell' = [cell EXCEPT ![c.slot] = c.sequence]
               /\ taken' = [taken EXCEPT ![c.slot] =
                              [sequence |-> c.sequence, payload |-> c.copy]]
          ELSE UNCHANGED <<cell, taken>>
       /\ reader' = [reader EXCEPT ![Consumer] = IdleReader]
       /\ UNCHANGED <<published, payloadLen, word, writer, ackSeen>>

Forget(r) ==
    /\ reader[r].pc = "Copied"
    /\ reader' = [reader EXCEPT ![r] = IdleReader]
    /\ UNCHANGED <<memory, writer, ackSeen, taken>>

-----------------------------------------------------------------------------
WriterStep ==
    \/ \E i \in Slots : ObserveAcknowledgement(i)
    \/ \E i, o \in Slots, s \in SequenceNumbers, n \in 0..Capacity : Prepare(i, s, o, n)
    \/ WriteWord
    \/ StoreLength
    \/ StoreSequence

ReaderStep(r) ==
    \/ \E i \in Slots, s \in SequenceNumbers : LoadSequence(r, i, s)
    \/ LoadLength(r)
    \/ ReadWord(r)
    \/ RecheckSequence(r)
    \/ RecheckLength(r)
    \/ Forget(r)

Next == WriterStep \/ Acknowledge \/ \E r \in Readers : ReaderStep(r)

Spec == Init /\ [][Next]_vars

(***************************************************************************)
(* Fairness.  A call that has begun runs to its end.  Beyond that the      *)
(* liveness property assumes applications that keep using the ring: a      *)
(* writer that keeps observing and publishing in every slot, a consumer    *)
(* that keeps reading every slot and acknowledges what it copies.          *)
(***************************************************************************)
FairSpec ==
    /\ Spec
    /\ WF_vars(WriteWord) /\ WF_vars(StoreLength) /\ WF_vars(StoreSequence)
    /\ \A i \in Slots :
         /\ SF_vars(ObserveAcknowledgement(i))
         /\ SF_vars(\E o \in Slots, s \in SequenceNumbers, n \in 0..Capacity :
                       Prepare(i, s, o, n))
         /\ SF_vars(\E s \in SequenceNumbers : LoadSequence(Consumer, i, s))
         /\ SF_vars(Acknowledge /\ reader[Consumer].slot = i)
    /\ WF_vars(LoadLength(Consumer)) /\ WF_vars(ReadWord(Consumer))
    /\ WF_vars(RecheckSequence(Consumer)) /\ WF_vars(RecheckLength(Consumer))

-----------------------------------------------------------------------------
WriterTypes ==
    [pc : {"Idle", "Copy", "Publish"}, slot : Slots, sequence : SequenceNumbers,
     len : 0..Capacity, done : 0..Capacity]

ReaderTypes ==
    [pc : {"Idle", "Length", "Copy", "Recheck", "Copied"}, slot : Slots,
     sequence : SequenceNumbers, len : 0..Capacity, copy : Seq(SequenceNumbers)]

\* Every index, length and sequence stays within the declared ring: no write
\* passes the end of a slot and no sequence wraps (prepare_publish, copy_payload).
TypeInv ==
    /\ published \in [Slots -> SequenceNumbers]
    /\ payloadLen \in [Slots -> 0..Capacity]
    /\ word \in [Slots -> [Words -> SequenceNumbers]]
    /\ cell \in [Slots -> SequenceNumbers]
    /\ writer \in WriterTypes
    /\ ackSeen \in [Slots -> SequenceNumbers]
    /\ reader \in [Readers -> ReaderTypes]
    /\ taken \in [Slots -> [sequence : SequenceNumbers, payload : Seq(SequenceNumbers)]]

(***************************************************************************)
(* A copy that passed its recheck before its sequence is acknowledged is   *)
(* whole: every word, and the length, are those published under that       *)
(* sequence, whatever the writer does meanwhile and however often the      *)
(* observations it holds are reused (prepare_publish against copy_payload).*)
(* After the acknowledgement the recheck alone promises nothing.           *)
(***************************************************************************)
UnacknowledgedCopyIsWhole ==
    \A r \in Readers :
        LET c == reader[r]
        IN (c.pc = "Copied" /\ cell[c.slot] < c.sequence) =>
             /\ c.len = payloadLen[c.slot]
             /\ Len(c.copy) = c.len
             /\ \A k \in 1..c.len : c.copy[k] = c.sequence

(***************************************************************************)
(* The writer touches a slot only when its last publication is             *)
(* acknowledged: no word, length or sequence of a slot changes while the   *)
(* cell routed to it lags, so a stale observation, one of another slot, or *)
(* one of an earlier lap never authorizes reuse (prepare_publish).         *)
(***************************************************************************)
OnlyAcknowledgedSlotsChange ==
    [][\A i \in Slots :
         (word'[i] # word[i] \/ payloadLen'[i] # payloadLen[i] \/ published'[i] # published[i])
           => cell[i] = published[i]]_vars

(***************************************************************************)
(* The ring implements one mailbox per slot: the mailbox is full while the *)
(* cell differs from the published sequence, its content is what the       *)
(* memory holds, and an acknowledgement takes exactly what was put         *)
(* (publish, copy_payload and acknowledge together).                       *)
(***************************************************************************)
InBox(i) ==
    IF published[i] = cell[i]
    THEN Nothing
    ELSE [sequence |-> published[i], payload |-> SubSeq(word[i], 1, payloadLen[i])]

Mailbox ==
    INSTANCE SlotMailbox WITH
        box <- [i \in Slots |-> InBox(i)],
        last <- published,
        Payloads <- UNION {[1..n -> SequenceNumbers] : n \in 0..Capacity}

RefinesMailbox == Mailbox!Spec

(***************************************************************************)
(* No slot is ever wedged: with applications that keep using the ring,     *)
(* every sequence up to the last one that does not wrap is published,      *)
(* taken and acknowledged in every slot (the exact-acknowledgement rule    *)
(* and the checked_add of prepare_publish).                                *)
(***************************************************************************)
EverySequenceFlows == \A i \in Slots : <>(cell[i] + SlotCount > MaxSequence)

-----------------------------------------------------------------------------
(***************************************************************************)
(* The inductive invariant behind the safety properties.                   *)
(***************************************************************************)
CellsLag == \A i \in Slots : ackSeen[i] <= cell[i] /\ cell[i] <= published[i]

\* A slot being written is acknowledged, and holds the words written so far.
WriterHoldsSlot ==
    writer.pc # "Idle" =>
        LET i == writer.slot
        IN /\ cell[i] = published[i]
           /\ writer.sequence = IF published[i] = 0 THEN i + 1 ELSE published[i] + SlotCount
           /\ writer.done <= writer.len
           /\ \A k \in 1..writer.done : word[i][k] = writer.sequence
           /\ writer.pc = "Publish" => writer.done = writer.len /\ payloadLen[i] = writer.len

UnacknowledgedSlotIsWhole ==
    \A i \in Slots :
        cell[i] < published[i] => \A k \in 1..payloadLen[i] : word[i][k] = published[i]

\* What a reader holds is a prefix of the payload, until it is acknowledged.
ReaderHoldsPrefix(c) ==
    /\ published[c.slot] = c.sequence
    /\ IF c.pc = "Length"
       THEN c.copy = <<>>
       ELSE c.len = payloadLen[c.slot] /\ Len(c.copy) <= c.len
    /\ c.pc \in {"Recheck", "Copied"} => Len(c.copy) = c.len
    /\ \A k \in 1..Len(c.copy) : c.copy[k] = c.sequence

ReadersHoldPrefixes ==
    \A r \in Readers :
        reader[r].pc # "Idle" =>
            /\ reader[r].sequence <= published[reader[r].slot]
            /\ cell[reader[r].slot] < reader[r].sequence => ReaderHoldsPrefix(reader[r])

IInv ==
    /\ TypeInv
    /\ CellsLag
    /\ WriterHoldsSlot
    /\ UnacknowledgedSlotIsWhole
    /\ ReadersHoldPrefixes
=============================================================================
