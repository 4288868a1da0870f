--------------------------- MODULE SlotRingProofs ---------------------------
(***************************************************************************)
(* Proofs, for every number of slots, every capacity, every bound on       *)
(* sequences and every set of readers, of the safety properties of         *)
(* SlotRing, and that the ring implements one mailbox per slot.            *)
(***************************************************************************)
EXTENDS SlotRing, TLAPS

-----------------------------------------------------------------------------
\* The constants' sets are what the steps below need of them.
LEMMA Domains ==
  /\ 0 \in Slots /\ Slots \subseteq Nat
  /\ 0 \in SequenceNumbers /\ SequenceNumbers \subseteq Nat
  /\ 0 \in 0..Capacity /\ Words \subseteq Nat /\ 0..Capacity \subseteq Nat
  BY RingAssumption DEF Slots, SequenceNumbers, Words

\* A thread between two calls is well typed.
LEMMA IdleTypes == IdleReader \in ReaderTypes /\ IdleWriter \in WriterTypes
<1>1. <<>> \in Seq(SequenceNumbers)
  OBVIOUS
<1> QED BY <1>1, Domains DEF IdleReader, IdleWriter, ReaderTypes, WriterTypes

\* The initial state satisfies the inductive invariant.
LEMMA InitIInv == Init => IInv
<1> SUFFICES ASSUME Init PROVE IInv
  OBVIOUS
<1>1. TypeInv
  <2>1. Nothing \in [sequence : SequenceNumbers, payload : Seq(SequenceNumbers)]
    <3>1. <<>> \in Seq(SequenceNumbers)
      OBVIOUS
    <3> QED BY <3>1, Domains DEF Nothing
  <2> QED BY <2>1, Domains, IdleTypes DEF Init, TypeInv
<1>2. CellsLag
  BY DEF Init, CellsLag
<1>3. WriterHoldsSlot
  BY DEF Init, WriterHoldsSlot, IdleWriter
<1>4. UnacknowledgedSlotIsWhole
  BY DEF Init, UnacknowledgedSlotIsWhole
<1>5. ReadersHoldPrefixes
  BY DEF Init, ReadersHoldPrefixes, IdleReader
<1> QED BY <1>1, <1>2, <1>3, <1>4, <1>5 DEF IInv

-----------------------------------------------------------------------------
\* A step of one reader that changes nothing else keeps the invariant when
\* what the reader then holds is a prefix.
LEMMA ReaderFrame ==
  ASSUME IInv, NEW r \in Readers, NEW c \in ReaderTypes,
         reader' = [reader EXCEPT ![r] = c],
         UNCHANGED <<memory, writer, ackSeen, taken>>,
         c.pc # "Idle" => /\ c.sequence <= published[c.slot]
                          /\ cell[c.slot] < c.sequence => ReaderHoldsPrefix(c)
  PROVE  IInv'
<1>1. TypeInv'
  BY DEF IInv, TypeInv, memory
<1>2. CellsLag' /\ WriterHoldsSlot' /\ UnacknowledgedSlotIsWhole'
  BY DEF IInv, CellsLag, WriterHoldsSlot, UnacknowledgedSlotIsWhole, memory
<1>3. ReadersHoldPrefixes'
  <2> SUFFICES ASSUME NEW q \in Readers, reader'[q].pc # "Idle"
               PROVE  /\ reader'[q].sequence <= published'[reader'[q].slot]
                      /\ cell'[reader'[q].slot] < reader'[q].sequence
                           => ReaderHoldsPrefix(reader[q])'
    BY DEF ReadersHoldPrefixes
  <2>1. CASE q = r
    BY <2>1 DEF IInv, TypeInv, ReaderHoldsPrefix, memory
  <2>2. CASE q # r
    BY <2>2 DEF IInv, TypeInv, ReadersHoldPrefixes, ReaderHoldsPrefix, memory
  <2> QED BY <2>1, <2>2
<1> QED BY <1>1, <1>2, <1>3 DEF IInv

\* Every step of copy_payload keeps the invariant.
LEMMA ReaderKeepsIInv ==
  ASSUME IInv, NEW r \in Readers, ReaderStep(r)
  PROVE  IInv'
<1> DEFINE c == reader[r]
<1>1. c \in ReaderTypes
  BY DEF IInv, TypeInv
<1>2. c.pc # "Idle" => /\ c.sequence <= published[c.slot]
                       /\ cell[c.slot] < c.sequence => ReaderHoldsPrefix(c)
  BY DEF IInv, ReadersHoldPrefixes
<1>3. IdleReader.pc = "Idle" /\ IdleReader \in ReaderTypes
  BY IdleTypes DEF IdleReader
<1>4. ASSUME NEW i \in Slots, NEW s \in SequenceNumbers, LoadSequence(r, i, s)
      PROVE  IInv'
  <2> DEFINE d == [pc |-> "Length", slot |-> i, sequence |-> s, len |-> 0, copy |-> <<>>]
  <2>1. d \in ReaderTypes
    <3>1. <<>> \in Seq(SequenceNumbers)
      OBVIOUS
    <3> QED BY <3>1, Domains DEF ReaderTypes
  <2>2. published[i] = s /\ s \in Nat
    BY <1>4, Domains DEF LoadSequence
  <2>3. d.sequence <= published[d.slot] /\ ReaderHoldsPrefix(d)
    BY <2>2 DEF ReaderHoldsPrefix
  <2>4. reader' = [reader EXCEPT ![r] = d] /\ UNCHANGED <<memory, writer, ackSeen, taken>>
    BY <1>4 DEF LoadSequence
  <2> HIDE DEF d
  <2> QED BY <2>1, <2>3, <2>4, ReaderFrame
<1>5. CASE LoadLength(r)
  <2> DEFINE d == [c EXCEPT !.pc = "Copy", !.len = payloadLen[c.slot]]
  <2>1. c.pc = "Length" /\ UNCHANGED <<memory, writer, ackSeen, taken>>
    BY <1>5 DEF LoadLength
  <2>2. reader' = [reader EXCEPT ![r] = d]
    BY <1>5 DEF LoadLength, IInv, TypeInv
  <2>3. payloadLen[c.slot] \in 0..Capacity
    BY <1>1 DEF IInv, TypeInv, ReaderTypes
  <2>4. /\ d \in ReaderTypes /\ d.pc = "Copy" /\ d.slot = c.slot
        /\ d.sequence = c.sequence /\ d.copy = c.copy /\ d.len = payloadLen[c.slot]
    BY <1>1, <2>3 DEF ReaderTypes
  <2>5. cell[c.slot] < c.sequence => Len(c.copy) = 0 /\ published[c.slot] = c.sequence
    BY <1>2, <2>1 DEF ReaderHoldsPrefix
  <2>6. cell[d.slot] < d.sequence => ReaderHoldsPrefix(d)
    <3> HIDE DEF c, d
    <3> QED BY <2>3, <2>4, <2>5 DEF ReaderHoldsPrefix
  <2> HIDE DEF d
  <2> QED BY <1>2, <2>1, <2>2, <2>4, <2>6, ReaderFrame
<1>6. CASE ReadWord(r)
  <2> DEFINE w == word[c.slot][Len(c.copy) + 1]
             d == [c EXCEPT !.copy = Append(c.copy, w)]
  <2>1. /\ c.pc = "Copy" /\ Len(c.copy) < c.len
        /\ UNCHANGED <<memory, writer, ackSeen, taken>>
    BY <1>6 DEF ReadWord
  <2>2. reader' = [reader EXCEPT ![r] = d]
    BY <1>6 DEF ReadWord, IInv, TypeInv
  <2>3. c.slot \in Slots /\ c.copy \in Seq(SequenceNumbers) /\ c.len \in 0..Capacity
    BY <1>1 DEF ReaderTypes
  <2>4. Len(c.copy) \in Nat /\ Len(c.copy) + 1 \in 1..c.len
    BY <2>1, <2>3, Domains
  <2>5. w \in SequenceNumbers
    <3>1. Len(c.copy) + 1 \in Words
      BY <2>3, <2>4, RingAssumption DEF Words
    <3> QED BY <2>3, <3>1 DEF IInv, TypeInv
  <2>6. Append(c.copy, w) \in Seq(SequenceNumbers)
    BY <2>3, <2>5
  <2>7. /\ d \in ReaderTypes /\ d.pc = "Copy" /\ d.slot = c.slot
        /\ d.sequence = c.sequence /\ d.len = c.len /\ d.copy = Append(c.copy, w)
    BY <1>1, <2>1, <2>6 DEF ReaderTypes
  <2>8. ASSUME cell[c.slot] < c.sequence PROVE ReaderHoldsPrefix(d)
    <3>1. ReaderHoldsPrefix(c) /\ c.sequence = published[c.slot] /\ c.len = payloadLen[c.slot]
      BY <1>2, <2>1, <2>8 DEF ReaderHoldsPrefix
    <3>2. w = c.sequence
      BY <2>3, <2>4, <2>8, <3>1 DEF IInv, UnacknowledgedSlotIsWhole
    <3>3. Len(d.copy) = Len(c.copy) + 1
      BY <2>3, <2>5, <2>7
    <3>4. \A k \in 1..Len(d.copy) : d.copy[k] = c.sequence
      <4> HIDE DEF w, d
      <4> QED BY <2>3, <2>4, <2>5, <2>7, <3>1, <3>2, <3>3 DEF ReaderHoldsPrefix
    <3> HIDE DEF d, c, w
    <3> QED BY <2>1, <2>4, <2>7, <3>1, <3>3, <3>4 DEF ReaderHoldsPrefix
  <2> HIDE DEF d
  <2> QED BY <1>2, <2>1, <2>2, <2>7, <2>8, ReaderFrame
<1>7. CASE RecheckSequence(r)
  <2> DEFINE d == [c EXCEPT !.pc = "Recheck"]
  <2>1. /\ c.pc = "Copy" /\ Len(c.copy) = c.len
        /\ UNCHANGED <<memory, writer, ackSeen, taken>>
    BY <1>7 DEF RecheckSequence
  <2>2. reader' = [reader EXCEPT ![r] = d] \/ reader' = [reader EXCEPT ![r] = IdleReader]
    BY <1>7 DEF RecheckSequence, IInv, TypeInv
  <2>3. /\ d \in ReaderTypes /\ d.pc = "Recheck" /\ d.slot = c.slot
        /\ d.sequence = c.sequence /\ d.len = c.len /\ d.copy = c.copy
    BY <1>1 DEF ReaderTypes
  <2>4. cell[d.slot] < d.sequence => ReaderHoldsPrefix(d)
    <3> HIDE DEF d, c
    <3> QED BY <1>2, <2>1, <2>3 DEF ReaderHoldsPrefix
  <2> HIDE DEF d
  <2> QED BY <1>2, <1>3, <2>1, <2>2, <2>3, <2>4, ReaderFrame
<1>8. CASE RecheckLength(r)
  <2> DEFINE d == [c EXCEPT !.pc = "Copied"]
  <2>1. c.pc = "Recheck" /\ UNCHANGED <<memory, writer, ackSeen, taken>>
    BY <1>8 DEF RecheckLength
  <2>2. reader' = [reader EXCEPT ![r] = d] \/ reader' = [reader EXCEPT ![r] = IdleReader]
    BY <1>8 DEF RecheckLength, IInv, TypeInv
  <2>3. /\ d \in ReaderTypes /\ d.pc = "Copied" /\ d.slot = c.slot
        /\ d.sequence = c.sequence /\ d.len = c.len /\ d.copy = c.copy
    BY <1>1 DEF ReaderTypes
  <2>4. cell[d.slot] < d.sequence => ReaderHoldsPrefix(d)
    <3> HIDE DEF d, c
    <3> QED BY <1>2, <2>1, <2>3 DEF ReaderHoldsPrefix
  <2> HIDE DEF d
  <2> QED BY <1>2, <1>3, <2>1, <2>2, <2>3, <2>4, ReaderFrame
<1>9. CASE Forget(r)
  BY <1>3, <1>9, ReaderFrame DEF Forget
<1> QED BY <1>4, <1>5, <1>6, <1>7, <1>8, <1>9 DEF ReaderStep

-----------------------------------------------------------------------------
\* A prepared publication has the slot's next sequence, and the slot it will
\* overwrite is acknowledged: the observation is a lower bound of the cell.
LEMMA PreparedSlotIsAcknowledged ==
  ASSUME IInv, NEW i \in Slots, NEW o \in Slots, NEW s \in SequenceNumbers,
         PrepareAllowed(i, s, o)
  PROVE  /\ cell[i] = published[i]
         /\ s = IF published[i] = 0 THEN i + 1 ELSE published[i] + SlotCount
<1>1. ackSeen[i] \in Nat /\ cell[i] \in Nat /\ published[i] \in Nat
  BY Domains DEF IInv, TypeInv
<1>2. ackSeen[i] <= cell[i] /\ cell[i] <= published[i]
  BY DEF IInv, CellsLag
<1> QED BY <1>1, <1>2 DEF PrepareAllowed

\* The writer's steps before the Release store.
LEMMA WriterKeepsIInv ==
  ASSUME IInv,
         \/ \E i \in Slots : ObserveAcknowledgement(i)
         \/ \E i, o \in Slots, s \in SequenceNumbers, n \in 0..Capacity : Prepare(i, s, o, n)
         \/ WriteWord
         \/ StoreLength
  PROVE  IInv'
<1> DEFINE j == writer.slot
<1>1. /\ j \in Slots /\ writer.sequence \in SequenceNumbers /\ writer.len \in 0..Capacity
      /\ writer.done \in 0..Capacity /\ writer.done \in Nat
  BY Domains DEF IInv, TypeInv, WriterTypes
<1>2. \A i \in Slots : cell[i] \in Nat /\ published[i] \in Nat
  BY Domains DEF IInv, TypeInv
<1>3. \A r \in Readers : /\ reader[r].slot \in Slots /\ reader[r].sequence \in Nat
  BY Domains DEF IInv, TypeInv, ReaderTypes
<1>4. ASSUME NEW i \in Slots, ObserveAcknowledgement(i)
      PROVE  IInv'
  <2>1. UNCHANGED <<memory, writer, reader, taken>> /\ ackSeen' = [ackSeen EXCEPT ![i] = cell[i]]
    BY <1>4 DEF ObserveAcknowledgement
  <2>2. TypeInv'
    BY <2>1 DEF IInv, TypeInv, memory
  <2>3. CellsLag'
    BY <1>2, <2>1 DEF IInv, TypeInv, CellsLag, memory
  <2> QED BY <2>1, <2>2, <2>3
       DEF IInv, WriterHoldsSlot, UnacknowledgedSlotIsWhole, ReadersHoldPrefixes,
           ReaderHoldsPrefix, memory
<1>5. ASSUME NEW i \in Slots, NEW o \in Slots, NEW s \in SequenceNumbers,
             NEW n \in 0..Capacity, Prepare(i, s, o, n)
      PROVE  IInv'
  <2>1. /\ UNCHANGED <<memory, ackSeen, reader, taken>>
        /\ writer' = [pc |-> "Copy", slot |-> i, sequence |-> s, len |-> n, done |-> 0]
        /\ PrepareAllowed(i, s, o)
    BY <1>5 DEF Prepare
  <2>2. TypeInv'
    BY <2>1, Domains DEF IInv, TypeInv, WriterTypes, memory
  <2>3. WriterHoldsSlot'
    <3>1. /\ cell[i] = published[i]
          /\ s = IF published[i] = 0 THEN i + 1 ELSE published[i] + SlotCount
      BY <2>1, PreparedSlotIsAcknowledged
    <3>2. n \in Nat
      BY Domains
    <3> QED BY <2>1, <3>1, <3>2 DEF WriterHoldsSlot, memory
  <2> QED BY <2>1, <2>2, <2>3
       DEF IInv, CellsLag, UnacknowledgedSlotIsWhole, ReadersHoldPrefixes,
           ReaderHoldsPrefix, memory
<1>6. CASE WriteWord
  <2>1. /\ writer.pc = "Copy" /\ writer.done < writer.len
        /\ word' = [word EXCEPT ![j][writer.done + 1] = writer.sequence]
        /\ writer' = [writer EXCEPT !.done = @ + 1]
        /\ UNCHANGED <<published, payloadLen, cell, ackSeen, reader, taken>>
    BY <1>6 DEF WriteWord
  <2>2. writer.done + 1 \in 1..Capacity /\ writer.done + 1 \in 0..Capacity
    BY <1>1, <2>1, RingAssumption
  <2>3. /\ writer' \in WriterTypes /\ writer'.pc = "Copy" /\ writer'.slot = j
        /\ writer'.sequence = writer.sequence /\ writer'.len = writer.len
        /\ writer'.done = writer.done + 1
    BY <2>1, <2>2 DEF IInv, TypeInv, WriterTypes
  <2>4. word' \in [Slots -> [Words -> SequenceNumbers]]
    BY <1>1, <2>1, <2>2 DEF IInv, TypeInv, Words
  <2>5. TypeInv'
    BY <2>1, <2>3, <2>4 DEF IInv, TypeInv
  <2>6. cell[j] = published[j]
    BY <2>1 DEF IInv, WriterHoldsSlot
  <2>7. WriterHoldsSlot'
    <3>1. \A k \in 1..writer.done + 1 : word'[j][k] = writer.sequence
      <4> SUFFICES ASSUME NEW k \in 1..writer.done + 1 PROVE word'[j][k] = writer.sequence
        OBVIOUS
      <4>1. word[j] \in [Words -> SequenceNumbers] /\ k \in Words
        BY <1>1, <2>2, RingAssumption DEF IInv, TypeInv, Words
      <4>2. word'[j] = [word[j] EXCEPT ![writer.done + 1] = writer.sequence]
        BY <1>1, <2>1 DEF IInv, TypeInv
      <4>3. k # writer.done + 1 => word[j][k] = writer.sequence
        BY <1>1, <2>1 DEF IInv, WriterHoldsSlot
      <4> QED BY <4>1, <4>2, <4>3
    <3>2. writer.done + 1 <= writer.len
      BY <1>1, <2>1, Domains
    <3> HIDE DEF j
    <3> QED BY <1>1, <2>1, <2>3, <2>6, <3>1, <3>2 DEF IInv, WriterHoldsSlot, j
  <2>8. UnacknowledgedSlotIsWhole'
    <3> SUFFICES ASSUME NEW i \in Slots, cell[i] < published[i], NEW k \in 1..payloadLen[i]
                 PROVE  word'[i][k] = published[i]
      BY <2>1 DEF UnacknowledgedSlotIsWhole
    <3>1. i # j
      BY <1>2, <2>6
    <3>2. word'[i] = word[i]
      BY <2>1, <3>1 DEF IInv, TypeInv
    <3> QED BY <3>2 DEF IInv, UnacknowledgedSlotIsWhole
  <2> QED BY <2>1, <2>5, <2>7, <2>8
       DEF IInv, CellsLag, ReadersHoldPrefixes, ReaderHoldsPrefix
<1>7. CASE StoreLength
  <2>1. /\ writer.pc = "Copy" /\ writer.done = writer.len
        /\ payloadLen' = [payloadLen EXCEPT ![j] = writer.len]
        /\ writer' = [writer EXCEPT !.pc = "Publish"]
        /\ UNCHANGED <<published, word, cell, ackSeen, reader, taken>>
    BY <1>7 DEF StoreLength
  <2>2. /\ writer' \in WriterTypes /\ writer'.pc = "Publish" /\ writer'.slot = j
        /\ writer'.sequence = writer.sequence /\ writer'.len = writer.len
        /\ writer'.done = writer.done
    BY <2>1 DEF IInv, TypeInv, WriterTypes
  <2>3. TypeInv'
    BY <1>1, <2>1, <2>2 DEF IInv, TypeInv
  <2>4. cell[j] = published[j]
    BY <2>1 DEF IInv, WriterHoldsSlot
  <2>5. payloadLen'[j] = writer.len /\ \A i \in Slots : i # j => payloadLen'[i] = payloadLen[i]
    BY <1>1, <2>1 DEF IInv, TypeInv
  <2>6. WriterHoldsSlot'
    <3> HIDE DEF j
    <3> QED BY <1>1, <2>1, <2>2, <2>5 DEF IInv, WriterHoldsSlot, j
  <2>7. UnacknowledgedSlotIsWhole'
    BY <1>2, <2>1, <2>4, <2>5 DEF IInv, UnacknowledgedSlotIsWhole
  <2>8. ReadersHoldPrefixes'
    <3> SUFFICES ASSUME NEW r \in Readers, reader[r].pc # "Idle"
                 PROVE  /\ reader[r].sequence <= published[reader[r].slot]
                        /\ cell[reader[r].slot] < reader[r].sequence
                             => ReaderHoldsPrefix(reader[r])'
      BY <2>1 DEF ReadersHoldPrefixes
    <3>1. reader[r].sequence <= published[reader[r].slot]
      BY DEF IInv, ReadersHoldPrefixes
    <3>2. CASE reader[r].slot = j
      BY <1>1, <1>2, <1>3, <2>4, <3>1, <3>2
    <3>3. CASE reader[r].slot # j
      BY <1>3, <2>1, <2>5, <3>3 DEF IInv, ReadersHoldPrefixes, ReaderHoldsPrefix
    <3> QED BY <3>1, <3>2, <3>3
  <2> QED BY <2>1, <2>3, <2>6, <2>7, <2>8 DEF IInv, CellsLag
<1> QED BY <1>4, <1>5, <1>6, <1>7

\* The Release store publishes a whole payload in an acknowledged slot, so
\* every reader of that slot holds a sequence that is acknowledged already.
LEMMA StoreKeepsIInv ==
  ASSUME IInv, StoreSequence
  PROVE  IInv'
<1> DEFINE j == writer.slot
           s == writer.sequence
<1>1. /\ writer.pc = "Publish" /\ writer' = IdleWriter
      /\ published' = [published EXCEPT ![j] = s]
      /\ UNCHANGED <<payloadLen, word, cell, ackSeen, reader, taken>>
  BY DEF StoreSequence
<1>2. j \in Slots /\ s \in SequenceNumbers /\ j \in Nat /\ s \in Nat
  BY Domains DEF IInv, TypeInv, WriterTypes
<1>3. \A i \in Slots : cell[i] \in Nat /\ published[i] \in Nat
  BY Domains DEF IInv, TypeInv
<1>4. /\ cell[j] = published[j]
      /\ s = IF published[j] = 0 THEN j + 1 ELSE published[j] + SlotCount
      /\ payloadLen[j] = writer.len /\ \A k \in 1..writer.len : word[j][k] = s
  BY <1>1 DEF IInv, WriterHoldsSlot
<1>5. published[j] < s
  BY <1>2, <1>3, <1>4, RingAssumption
<1>6. published'[j] = s /\ \A i \in Slots : i # j => published'[i] = published[i]
  BY <1>1, <1>2 DEF IInv, TypeInv
<1>7. TypeInv'
  BY <1>1, <1>2, IdleTypes DEF IInv, TypeInv
<1>8. CellsLag'
  BY <1>1, <1>2, <1>3, <1>4, <1>5, <1>6 DEF IInv, CellsLag
<1>9. WriterHoldsSlot'
  BY <1>1 DEF WriterHoldsSlot, IdleWriter
<1>10. UnacknowledgedSlotIsWhole'
  BY <1>1, <1>4, <1>6 DEF IInv, UnacknowledgedSlotIsWhole
<1>11. ReadersHoldPrefixes'
  <2> SUFFICES ASSUME NEW r \in Readers, reader[r].pc # "Idle"
               PROVE  /\ reader[r].sequence <= published'[reader[r].slot]
                      /\ cell[reader[r].slot] < reader[r].sequence
                           => ReaderHoldsPrefix(reader[r])'
    BY <1>1 DEF ReadersHoldPrefixes
  <2>1. reader[r].sequence <= published[reader[r].slot]
    BY DEF IInv, ReadersHoldPrefixes
  <2>2. reader[r].slot \in Slots /\ reader[r].sequence \in Nat
    BY Domains DEF IInv, TypeInv, ReaderTypes
  <2>3. CASE reader[r].slot = j
    BY <1>2, <1>3, <1>4, <1>5, <1>6, <2>1, <2>2, <2>3
  <2>4. CASE reader[r].slot # j
    BY <1>1, <1>6, <2>1, <2>2, <2>4 DEF IInv, ReadersHoldPrefixes, ReaderHoldsPrefix
  <2> QED BY <2>3, <2>4
<1> QED BY <1>7, <1>8, <1>9, <1>10, <1>11 DEF IInv

\* An acknowledgement raises one cell to a sequence that is published.
LEMMA AcknowledgeKeepsIInv ==
  ASSUME IInv, Acknowledge
  PROVE  IInv'
<1> DEFINE c == reader[Consumer]
<1>1. /\ c.pc = "Copied" /\ reader' = [reader EXCEPT ![Consumer] = IdleReader]
      /\ UNCHANGED <<published, payloadLen, word, writer, ackSeen>>
  BY DEF Acknowledge
<1>2. c \in ReaderTypes /\ Consumer \in Readers
  BY RingAssumption DEF IInv, TypeInv
<1>3. c.slot \in Slots /\ c.sequence \in SequenceNumbers /\ c.copy \in Seq(SequenceNumbers)
  BY <1>2 DEF ReaderTypes
<1>4. \A i \in Slots : ackSeen[i] \in Nat /\ cell[i] \in Nat /\ published[i] \in Nat
  BY Domains DEF IInv, TypeInv
<1>5. c.sequence <= published[c.slot] /\ c.sequence \in Nat
  BY <1>1, <1>2, <1>3, Domains DEF IInv, ReadersHoldPrefixes
<1>6. CASE c.sequence > cell[c.slot]
  <2>1. /\ cell' = [cell EXCEPT ![c.slot] = c.sequence]
        /\ taken' = [taken EXCEPT ![c.slot] = [sequence |-> c.sequence, payload |-> c.copy]]
    BY <1>6 DEF Acknowledge
  <2>2. /\ cell'[c.slot] = c.sequence
        /\ \A i \in Slots : i # c.slot => cell'[i] = cell[i]
    BY <1>3, <2>1 DEF IInv, TypeInv
  <2>3. \A i \in Slots : /\ cell[i] <= cell'[i] /\ cell'[i] <= published[i]
                         /\ cell'[i] \in Nat
    BY <1>3, <1>4, <1>5, <1>6, <2>2 DEF IInv, CellsLag
  <2>4. TypeInv'
    BY <1>1, <1>2, <1>3, <2>1, IdleTypes DEF IInv, TypeInv
  <2>5. CellsLag'
    BY <1>1, <1>4, <2>3 DEF IInv, CellsLag
  <2>6. WriterHoldsSlot'
    <3>1. writer.slot \in Slots
      BY DEF IInv, TypeInv, WriterTypes
    <3>2. writer.pc # "Idle" => cell'[writer.slot] = cell[writer.slot]
      BY <1>4, <2>3, <3>1 DEF IInv, WriterHoldsSlot
    <3> QED BY <1>1, <3>2 DEF IInv, WriterHoldsSlot
  <2>7. UnacknowledgedSlotIsWhole'
    <3>1. \A i \in Slots : cell'[i] < published[i] => cell[i] < published[i]
      BY <1>4, <2>3
    <3> QED BY <1>1, <3>1 DEF IInv, UnacknowledgedSlotIsWhole
  <2>8. ReadersHoldPrefixes'
    <3> SUFFICES ASSUME NEW r \in Readers, reader'[r].pc # "Idle"
                 PROVE  /\ reader'[r].sequence <= published[reader'[r].slot]
                        /\ cell'[reader'[r].slot] < reader'[r].sequence
                             => ReaderHoldsPrefix(reader[r])'
      BY <1>1 DEF ReadersHoldPrefixes
    <3>1. reader'[r] = reader[r]
      BY <1>1, <1>2 DEF IInv, TypeInv, IdleReader
    <3>2. reader[r].slot \in Slots /\ reader[r].sequence \in Nat
      BY Domains DEF IInv, TypeInv, ReaderTypes
    <3>3. cell'[reader[r].slot] < reader[r].sequence => cell[reader[r].slot] < reader[r].sequence
      BY <1>4, <2>3, <3>2
    <3> QED BY <1>1, <3>1, <3>3 DEF IInv, ReadersHoldPrefixes, ReaderHoldsPrefix
  <2> QED BY <2>4, <2>5, <2>6, <2>7, <2>8 DEF IInv
<1>7. CASE ~(c.sequence > cell[c.slot])
  <2>1. UNCHANGED <<memory, writer, ackSeen, taken>>
    BY <1>1, <1>7 DEF Acknowledge, memory
  <2>2. IdleReader.pc = "Idle" /\ IdleReader \in ReaderTypes
    BY IdleTypes DEF IdleReader
  <2> QED BY <1>1, <1>2, <2>1, <2>2, ReaderFrame
<1> QED BY <1>6, <1>7

-----------------------------------------------------------------------------
\* Every step keeps the invariant.
LEMMA NextIInv == IInv /\ [Next]_vars => IInv'
<1> SUFFICES ASSUME IInv, [Next]_vars PROVE IInv'
  OBVIOUS
<1>1. CASE WriterStep
  BY <1>1, WriterKeepsIInv, StoreKeepsIInv DEF WriterStep
<1>2. CASE Acknowledge
  BY <1>2, AcknowledgeKeepsIInv
<1>3. CASE \E r \in Readers : ReaderStep(r)
  BY <1>3, ReaderKeepsIInv
<1>4. CASE UNCHANGED vars
  BY <1>4 DEF vars, IInv, TypeInv, CellsLag, WriterHoldsSlot, UnacknowledgedSlotIsWhole,
              ReadersHoldPrefixes, ReaderHoldsPrefix
<1> QED BY <1>1, <1>2, <1>3, <1>4 DEF Next

\* Every reachable state satisfies the inductive invariant.
THEOREM Inductive == Spec => []IInv
  BY InitIInv, NextIInv, PTL DEF Spec

\* Types: no copy, of the writer or of a reader, leaves the slot's payload.
THEOREM TypesHold == Spec => []TypeInv
  BY Inductive, PTL DEF IInv

\* A copy that passed its recheck before its sequence was acknowledged is
\* whole (copy_payload against prepare_publish).
THEOREM CopiesAreWhole == Spec => []UnacknowledgedCopyIsWhole
<1>1. IInv => UnacknowledgedCopyIsWhole
  BY DEF IInv, ReadersHoldPrefixes, ReaderHoldsPrefix, UnacknowledgedCopyIsWhole
<1> QED BY <1>1, Inductive, PTL

\* No word, length or sequence of a slot changes before its publication is
\* acknowledged (prepare_publish).
THEOREM SlotsAwaitAcknowledgement == Spec => OnlyAcknowledgedSlotsChange
<1>1. IInv /\ [Next]_vars =>
        [\A i \in Slots :
           (word'[i] # word[i] \/ payloadLen'[i] # payloadLen[i] \/ published'[i] # published[i])
             => cell[i] = published[i]]_vars
  <2> SUFFICES ASSUME IInv, Next, NEW i \in Slots, cell[i] # published[i]
               PROVE  word'[i] = word[i] /\ payloadLen'[i] = payloadLen[i] /\ published'[i] = published[i]
    OBVIOUS
  <2>1. writer.pc # "Idle" => writer.slot # i /\ writer.slot \in Slots
    BY DEF IInv, TypeInv, WriterTypes, WriterHoldsSlot
  <2>2. CASE WriterStep
    BY <2>1, <2>2 DEF WriterStep, ObserveAcknowledgement, Prepare, WriteWord, StoreLength,
                      StoreSequence, memory, IInv, TypeInv
  <2>3. CASE Acknowledge
    BY <2>3 DEF Acknowledge
  <2>4. CASE \E r \in Readers : ReaderStep(r)
    BY <2>4 DEF ReaderStep, LoadSequence, LoadLength, ReadWord, RecheckSequence,
                RecheckLength, Forget, memory
  <2> QED BY <2>2, <2>3, <2>4 DEF Next
<1> QED BY <1>1, Inductive, PTL DEF Spec, OnlyAcknowledgedSlotsChange

-----------------------------------------------------------------------------
\* A step that moves neither a published sequence nor a cell, and keeps the
\* payload of every full mailbox, is a stutter of the mailboxes.
LEMMA QuietStep ==
  ASSUME published' = published, cell' = cell, taken' = taken,
         \A i \in Slots : published[i] # cell[i] =>
            word'[i] = word[i] /\ payloadLen'[i] = payloadLen[i]
  PROVE  UNCHANGED Mailbox!mailboxVars
<1>1. \A i \in Slots : InBox(i)' = InBox(i)
  BY DEF InBox
<1> QED BY <1>1 DEF Mailbox!mailboxVars

\* The Release store puts the payload into an empty mailbox.
LEMMA StorePuts ==
  ASSUME IInv, StoreSequence
  PROVE  Mailbox!Put(writer.slot)
<1>0. PICK j \in Slots : j = writer.slot
  BY DEF IInv, TypeInv, WriterTypes
<1> DEFINE s == writer.sequence
           p == SubSeq(word[j], 1, payloadLen[j])
           box == [i \in Slots |-> InBox(i)]
<1>1. /\ writer.pc = "Publish" /\ published' = [published EXCEPT ![j] = s]
      /\ UNCHANGED <<payloadLen, word, cell, taken>>
  BY <1>0 DEF StoreSequence
<1>2. j \in Slots /\ s \in SequenceNumbers /\ j \in Nat /\ s \in Nat
  BY Domains DEF IInv, TypeInv, WriterTypes
<1>3. published[j] \in Nat /\ cell[j] = published[j]
  BY <1>0, <1>1, <1>2, Domains DEF IInv, TypeInv, WriterHoldsSlot
<1>4. s = (IF published[j] = 0 THEN j + 1 ELSE published[j] + SlotCount)
  BY <1>0, <1>1 DEF IInv, WriterHoldsSlot
<1>5. published'[j] = s /\ s # cell[j] /\ s <= MaxSequence
  BY <1>1, <1>2, <1>3, <1>4, RingAssumption DEF IInv, TypeInv, SequenceNumbers
<1>6. InBox(j) = Nothing /\ InBox(j)' = [sequence |-> s, payload |-> p]
  BY <1>1, <1>3, <1>5 DEF InBox
<1>7. \A i \in Slots : i # j => InBox(i)' = InBox(i)
  BY <1>1, <1>2 DEF InBox, IInv, TypeInv
<1>8. [i \in Slots |-> InBox(i)]' = [box EXCEPT ![j] = [sequence |-> s, payload |-> p]]
  BY <1>2, <1>6, <1>7
<1>9. p \in UNION {[1..n -> SequenceNumbers] : n \in 0..Capacity}
  <2>1. payloadLen[j] \in 0..Capacity /\ payloadLen[j] \in Nat
    BY <1>2, Domains DEF IInv, TypeInv
  <2>2. word[j] \in [1..Capacity -> SequenceNumbers]
    BY <1>2 DEF IInv, TypeInv, Words
  <2>3. p \in [1..payloadLen[j] -> SequenceNumbers]
    <3>1. p \in Seq(SequenceNumbers) /\ Len(p) = payloadLen[j]
      BY <2>1, <2>2, RingAssumption
    <3> HIDE DEF p
    <3> QED BY <3>1
  <2> QED BY <2>1, <2>3
<1>10. Mailbox!NextSequence(j) = s
  BY <1>4 DEF Mailbox!NextSequence
<1>11. box[j] = Nothing
  BY <1>2, <1>6
<1> QED BY <1>0, <1>1, <1>5, <1>8, <1>9, <1>10, <1>11 DEF Mailbox!Put, Mailbox!Empty, Nothing

\* An acknowledgement that raises its cell takes what the mailbox holds.
LEMMA AcknowledgeTakes ==
  ASSUME IInv, Acknowledge, reader[Consumer].sequence > cell[reader[Consumer].slot]
  PROVE  Mailbox!Take(reader[Consumer].slot)
<1> DEFINE c == reader[Consumer]
<1>0. PICK j \in Slots : j = c.slot
  BY RingAssumption DEF IInv, TypeInv, ReaderTypes
<1> DEFINE box == [i \in Slots |-> InBox(i)]
           p == SubSeq(word[j], 1, payloadLen[j])
<1>1. /\ c.pc = "Copied" /\ UNCHANGED <<published, payloadLen, word>>
      /\ cell' = [cell EXCEPT ![j] = c.sequence]
      /\ taken' = [taken EXCEPT ![j] = [sequence |-> c.sequence, payload |-> c.copy]]
  BY <1>0 DEF Acknowledge
<1>2. j \in Slots /\ c.sequence \in Nat /\ c.copy \in Seq(SequenceNumbers) /\ cell[j] \in Nat
  BY RingAssumption, Domains DEF IInv, TypeInv, ReaderTypes
<1>3. cell[j] < c.sequence
  BY <1>0, <1>2
<1>4. ReaderHoldsPrefix(c)
  BY <1>0, <1>1, <1>3, RingAssumption DEF IInv, ReadersHoldPrefixes
<1>5. published[j] = c.sequence /\ Len(c.copy) = payloadLen[j]
  BY <1>0, <1>1, <1>4 DEF ReaderHoldsPrefix
<1>6. c.copy = p
  <2>1. payloadLen[j] \in Nat /\ payloadLen[j] <= Capacity
    BY <1>2, RingAssumption DEF IInv, TypeInv
  <2>2. word[j] \in [1..Capacity -> SequenceNumbers]
    BY <1>2 DEF IInv, TypeInv, Words
  <2>3. /\ DOMAIN p = 1..payloadLen[j]
        /\ \A k \in 1..payloadLen[j] : p[k] = word[j][k]
        /\ p \in Seq(SequenceNumbers)
    BY <2>1, <2>2, RingAssumption
  <2>4. \A k \in 1..payloadLen[j] : word[j][k] = c.sequence /\ c.copy[k] = c.sequence
    BY <1>2, <1>3, <1>4, <1>5 DEF IInv, UnacknowledgedSlotIsWhole, ReaderHoldsPrefix
  <2> HIDE DEF c, p
  <2> QED BY <1>2, <1>5, <2>3, <2>4
<1>7. InBox(j) = [sequence |-> c.sequence, payload |-> c.copy]
  BY <1>2, <1>3, <1>5, <1>6 DEF InBox
<1>8. InBox(j)' = Nothing
  BY <1>1, <1>2, <1>5 DEF InBox, IInv, TypeInv
<1>9. \A i \in Slots : i # j => InBox(i)' = InBox(i)
  BY <1>1, <1>2 DEF InBox, IInv, TypeInv
<1>10. [i \in Slots |-> InBox(i)]' = [box EXCEPT ![j] = Nothing]
  BY <1>2, <1>8, <1>9
<1>11. box[j] = [sequence |-> c.sequence, payload |-> c.copy] /\ box[j] # Nothing
  <2>1. c.sequence # 0
    BY <1>2, <1>3
  <2> QED BY <1>2, <1>7, <2>1 DEF Nothing
<1> QED BY <1>0, <1>1, <1>10, <1>11 DEF Mailbox!Take, Mailbox!Empty, Nothing

\* The ring implements one mailbox per slot (publish, copy_payload and
\* acknowledge together): a put payload is taken exactly once, as it was put.
THEOREM ImplementsMailbox == Spec => RefinesMailbox
<1>1. Init => Mailbox!Init
  BY DEF Init, Mailbox!Init, InBox, Nothing, Mailbox!Empty, Mailbox!Slots, Slots
<1>2. IInv /\ [Next]_vars => [Mailbox!Next]_Mailbox!mailboxVars
  <2> SUFFICES ASSUME IInv, [Next]_vars PROVE [Mailbox!Next]_Mailbox!mailboxVars
    OBVIOUS
  <2>1. writer.pc # "Idle" =>
          writer.slot \in Slots /\ cell[writer.slot] = published[writer.slot]
    BY DEF IInv, TypeInv, WriterTypes, WriterHoldsSlot
  <2>2. CASE StoreSequence
    <3>1. Mailbox!Put(writer.slot) /\ writer.slot \in Mailbox!Slots
      BY <2>1, <2>2, StorePuts DEF StoreSequence, Mailbox!Slots, Slots
    <3> QED BY <3>1 DEF Mailbox!Next
  <2>3. CASE WriteWord \/ StoreLength
    BY <2>1, <2>3, QuietStep DEF WriteWord, StoreLength, IInv, TypeInv
  <2>4. CASE \/ \E i \in Slots : ObserveAcknowledgement(i)
             \/ \E i, o \in Slots, s \in SequenceNumbers, n \in 0..Capacity : Prepare(i, s, o, n)
    BY <2>4, QuietStep DEF ObserveAcknowledgement, Prepare, memory
  <2>5. CASE Acknowledge
    <3>1. reader[Consumer].slot \in Mailbox!Slots
      BY RingAssumption DEF IInv, TypeInv, ReaderTypes, Mailbox!Slots, Slots
    <3>2. CASE reader[Consumer].sequence > cell[reader[Consumer].slot]
      BY <2>5, <3>1, <3>2, AcknowledgeTakes DEF Mailbox!Next
    <3>3. CASE ~(reader[Consumer].sequence > cell[reader[Consumer].slot])
      BY <2>5, <3>3, QuietStep DEF Acknowledge
    <3> QED BY <3>2, <3>3
  <2>6. CASE \E r \in Readers : ReaderStep(r)
    BY <2>6, QuietStep DEF ReaderStep, LoadSequence, LoadLength, ReadWord,
                           RecheckSequence, RecheckLength, Forget, memory
  <2>7. CASE UNCHANGED vars
    BY <2>7, QuietStep DEF vars
  <2> QED BY <2>2, <2>3, <2>4, <2>5, <2>6, <2>7 DEF Next, WriterStep
<1> QED BY <1>1, <1>2, Inductive, PTL DEF Spec, RefinesMailbox, Mailbox!Spec
=============================================================================
