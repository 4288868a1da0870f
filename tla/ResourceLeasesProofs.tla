------------------------ MODULE ResourceLeasesProofs ------------------------
(***************************************************************************)
(* Proofs, for every set of leases, every pair of limits and every set of  *)
(* batches, of the safety properties of ResourceLeases.                    *)
(*                                                                         *)
(* The counters are compared with cardinalities: RegionCharged counts      *)
(* regions and PagesOf(ByteCharged) counts pages.  A step adds or removes  *)
(* one lease at most, so the finite-set lemmas below give every case.      *)
(***************************************************************************)
EXTENDS ResourceLeases, FiniteSetTheorems, TLAPS

Pages == PagesOf(ByteCharged)

-----------------------------------------------------------------------------
\* The page column {l} \X (1..n) of one lease has n pages.
LEMMA ColumnCount ==
  ASSUME NEW l, NEW n \in Nat
  PROVE  /\ IsFiniteSet({l} \X (1..n))
         /\ Cardinality({l} \X (1..n)) = n
<1>1. IsFiniteSet(1..n) /\ Cardinality(1..n) = n
  BY FS_Interval
<1>2. IsFiniteSet({l}) /\ Cardinality({l}) = 1
  BY FS_Singleton
<1> QED BY <1>1, <1>2, FS_Product

\* Cardinality is additive on disjoint finite sets.
LEMMA DisjointCount ==
  ASSUME NEW S, NEW T, IsFiniteSet(S), IsFiniteSet(T), S \cap T = {}
  PROVE  Cardinality(S \cup T) = Cardinality(S) + Cardinality(T)
<1>1. Cardinality(S \cup T) = Cardinality(S) + Cardinality(T) - Cardinality(S \cap T)
  BY FS_Union
<1>2. Cardinality(S \cap T) = 0
  BY FS_EmptySet
<1>3. Cardinality(S) \in Nat /\ Cardinality(T) \in Nat
  BY FS_CardinalityType
<1> QED BY <1>1, <1>2, <1>3

\* The pages of any set of leases are finitely many.
LEMMA PagesFinite ==
  ASSUME NEW S \in SUBSET Leases
  PROVE  /\ IsFiniteSet(PagesOf(S))
         /\ Cardinality(PagesOf(S)) \in Nat
<1>1. IsFiniteSet(S)
  BY LimitsAssumption, FS_Subset
<1>2. IsFiniteSet(1..MaxBytes)
  BY LimitsAssumption, FS_Interval
<1>3. IsFiniteSet(S \X (1..MaxBytes))
  BY <1>1, <1>2, FS_Product
<1>4. PagesOf(S) \in SUBSET (S \X (1..MaxBytes))
  BY DEF PagesOf
<1>5. IsFiniteSet(PagesOf(S))
  BY <1>3, <1>4, FS_Subset
<1> QED BY <1>5, FS_CardinalityType

\* The charged leases and their pages are finite sets.
LEMMA ChargesFinite ==
  /\ IsFiniteSet(RegionCharged) /\ Cardinality(RegionCharged) \in Nat
  /\ IsFiniteSet(Pages) /\ Cardinality(Pages) \in Nat
<1>1. RegionCharged \in SUBSET Leases /\ ByteCharged \in SUBSET Leases
  BY DEF RegionCharged, ByteCharged
<1>2. IsFiniteSet(RegionCharged)
  BY <1>1, LimitsAssumption, FS_Subset
<1> QED BY <1>1, <1>2, FS_CardinalityType, PagesFinite DEF Pages

-----------------------------------------------------------------------------
\* A step that keeps every lease's bytes and its place among the charged
\* ones keeps what the counters stand for.
LEMMA SameCharges ==
  ASSUME TypeInv, lease' \in [Leases -> [phase : Phases, bytes : Nat]],
         \A l \in Leases :
            /\ lease'[l].bytes = lease[l].bytes
            /\ lease'[l].phase = "Free" <=> lease[l].phase = "Free"
            /\ lease'[l].phase \in {"Held", "Mapped", "Unmapped"}
                 <=> lease[l].phase \in {"Held", "Mapped", "Unmapped"}
  PROVE  RegionCharged' = RegionCharged /\ Pages' = Pages
<1>1. RegionCharged' = RegionCharged
  BY DEF RegionCharged
<1>2. ByteCharged' = ByteCharged
  BY DEF ByteCharged
<1>3. Pages' = Pages
  BY <1>2 DEF Pages, PagesOf, ByteCharged
<1> QED BY <1>1, <1>3

\* Minting a lease of n pages adds one region and n pages.
LEMMA MintCharges ==
  ASSUME TypeInv, NEW l \in Leases, NEW n \in 1..MaxBytes,
         lease[l].phase = "Free",
         lease' = [lease EXCEPT ![l] = [phase |-> "Held", bytes |-> n]]
  PROVE  /\ Cardinality(RegionCharged') = Cardinality(RegionCharged) + 1
         /\ Cardinality(Pages') = Cardinality(Pages) + n
<1>1. l \notin RegionCharged /\ RegionCharged' = RegionCharged \cup {l}
  BY DEF RegionCharged, TypeInv
<1>2. ByteCharged' = ByteCharged \cup {l} /\ l \notin ByteCharged
  BY DEF ByteCharged, TypeInv
<1> DEFINE column == {l} \X (1..n)
<1>3. Pages' = Pages \cup column
  <2>1. \A p \in (ByteCharged \cup {l}) \X (1..MaxBytes) :
           p[2] <= lease'[p[1]].bytes <=> p \in Pages \cup column
    BY <1>2, LimitsAssumption DEF Pages, PagesOf, ByteCharged, TypeInv
  <2>2. Pages \cup column \subseteq (ByteCharged \cup {l}) \X (1..MaxBytes)
    BY LimitsAssumption DEF Pages, PagesOf
  <2> QED BY <1>2, <2>1, <2>2 DEF Pages, PagesOf
<1>4. Pages \cap column = {}
  BY <1>2 DEF Pages, PagesOf
<1>5. IsFiniteSet(column) /\ Cardinality(column) = n
  BY ColumnCount
<1>6. Cardinality(Pages \cup column) = Cardinality(Pages) + n
  <2> HIDE DEF column
  <2> QED BY <1>4, <1>5, DisjointCount, ChargesFinite
<1>7. Cardinality(RegionCharged \cup {l}) = Cardinality(RegionCharged) + 1
  BY <1>1, ChargesFinite, FS_AddElement
<1> QED BY <1>1, <1>3, <1>6, <1>7

\* Returning the bytes of an unmapped lease removes its pages and no region.
LEMMA BytesReturn ==
  ASSUME TypeInv, OwnerKnows, NEW l \in Leases, lease[l].phase = "Unmapped",
         lease' = [lease EXCEPT ![l].phase = "BytesReturned"]
  PROVE  /\ RegionCharged' = RegionCharged
         /\ Cardinality(Pages) = Cardinality(Pages') + lease[l].bytes
<1>1. RegionCharged' = RegionCharged
  BY DEF RegionCharged, TypeInv
<1>2. ByteCharged = ByteCharged' \cup {l} /\ l \notin ByteCharged'
  BY DEF ByteCharged, TypeInv
<1> DEFINE n == lease[l].bytes
           column == {l} \X (1..n)
<1>3. n \in Nat /\ n <= MaxBytes
  BY DEF TypeInv, OwnerKnows
<1>4. Pages = Pages' \cup column
  <2>1. \A p \in (ByteCharged' \cup {l}) \X (1..MaxBytes) :
           p[2] <= lease[p[1]].bytes <=> p \in Pages' \cup column
    BY <1>2, <1>3, LimitsAssumption DEF Pages, PagesOf, ByteCharged, TypeInv
  <2>2. Pages' \cup column \subseteq (ByteCharged' \cup {l}) \X (1..MaxBytes)
    BY <1>3, LimitsAssumption DEF Pages, PagesOf
  <2> QED BY <1>2, <2>1, <2>2 DEF Pages, PagesOf
<1>5. Pages' \cap column = {}
  BY <1>2 DEF Pages, PagesOf
<1>6. IsFiniteSet(column) /\ Cardinality(column) = n
  BY <1>3, ColumnCount
<1>7. IsFiniteSet(Pages')
  <2>1. Pages' \in SUBSET Pages
    BY <1>4
  <2> QED BY <2>1, ChargesFinite, FS_Subset
<1>8. Cardinality(Pages' \cup column) = Cardinality(Pages') + n
  <2> HIDE DEF column, n
  <2> QED BY <1>5, <1>6, <1>7, DisjointCount
<1> QED BY <1>1, <1>4, <1>8

\* Returning the region of a lease removes it and no page.
LEMMA RegionReturn ==
  ASSUME TypeInv, NEW l \in Leases, lease[l].phase = "BytesReturned",
         lease' = [lease EXCEPT ![l] = [phase |-> "Free", bytes |-> 0]]
  PROVE  /\ Cardinality(RegionCharged) = Cardinality(RegionCharged') + 1
         /\ RegionCharged' \subseteq RegionCharged
         /\ Pages' = Pages
<1>1. RegionCharged' = RegionCharged \ {l} /\ l \in RegionCharged
  BY DEF RegionCharged, TypeInv
<1>2. Cardinality(RegionCharged \ {l}) = Cardinality(RegionCharged) - 1
  BY <1>1, ChargesFinite, FS_RemoveElement
<1>3. ByteCharged' = ByteCharged /\ l \notin ByteCharged
  BY DEF ByteCharged, TypeInv
<1>4. Pages' = Pages
  BY <1>3 DEF Pages, PagesOf, ByteCharged, TypeInv
<1> QED BY <1>1, <1>2, <1>4, ChargesFinite

-----------------------------------------------------------------------------
\* The initial state satisfies the inductive invariant: nothing is charged.
LEMMA InitIInv == Init => IInv
<1> SUFFICES ASSUME Init PROVE IInv
  OBVIOUS
<1>1. TypeInv
  BY LimitsAssumption DEF Init, TypeInv, NewOwner, States, Phases, Calls
<1>2. RegionCharged = {} /\ ByteCharged = {}
  BY DEF Init, RegionCharged, ByteCharged
<1>3. PagesOf(ByteCharged) = {}
  BY <1>2 DEF PagesOf
<1>4. UnmintedRegions = 0 /\ UnmintedBytes = 0
  BY DEF Init, NewOwner, UnmintedRegions, UnmintedBytes
<1>5. Accounted
  BY <1>2, <1>3, <1>4, FS_EmptySet, LimitsAssumption DEF Init, Accounted
<1>6. OwnerKnows
  BY LimitsAssumption DEF Init, OwnerKnows, NewOwner
<1> QED BY <1>1, <1>2, <1>5, <1>6 DEF IInv, Init

\* What the accounting needs of a step that leaves the leases and the
\* counters alone: the owner holds the same unminted charge.
LEMMA SameAccount ==
  ASSUME IInv, UNCHANGED <<activeRegions, activeBytes, lease>>,
         UnmintedRegions' = UnmintedRegions, UnmintedBytes' = UnmintedBytes
  PROVE  Accounted' /\ RegionCharged' = RegionCharged
<1>1. RegionCharged' = RegionCharged /\ PagesOf(ByteCharged)' = PagesOf(ByteCharged)
  BY DEF RegionCharged, PagesOf, ByteCharged
<1> QED BY <1>1 DEF IInv, Accounted

\* Entering a call and leaving it keep the inductive invariant.
LEMMA BeginStep ==
  ASSUME IInv, (\E b \in Batches : BeginBatch(b)) \/ ReserveCheck
  PROVE  IInv'
<1>1. CASE \E b \in Batches : BeginBatch(b)
  <2>1. PICK b \in Batches : BeginBatch(b)
    BY <1>1
  <2>2. b \in Seq(Nat)
    BY LimitsAssumption
  <2>3. TypeInv'
    BY <2>1, <2>2 DEF IInv, TypeInv, BeginBatch, Calls
  <2>4. UnmintedRegions' = UnmintedRegions /\ UnmintedBytes' = UnmintedBytes
    BY <2>1 DEF BeginBatch, UnmintedRegions, UnmintedBytes, IInv, TypeInv
  <2>5. Accounted' /\ RegionCharged' = RegionCharged
    BY <2>1, <2>4, SameAccount DEF BeginBatch
  <2>6. OwnerKnows'
    BY <2>1 DEF BeginBatch, OwnerKnows, IInv, TypeInv
  <2> QED BY <2>1, <2>3, <2>5, <2>6 DEF IInv, BeginBatch
<1>2. CASE ReserveCheck
  <2>1. TypeInv'
    BY <1>2 DEF IInv, TypeInv, ReserveCheck, Calls, Goto
  <2>2. UnmintedRegions' = UnmintedRegions /\ UnmintedBytes' = UnmintedBytes
    BY <1>2 DEF ReserveCheck, Goto, UnmintedRegions, UnmintedBytes, IInv, TypeInv
  <2>3. Accounted' /\ RegionCharged' = RegionCharged
    BY <1>2, <2>2, SameAccount DEF ReserveCheck
  <2>4. owner.todo # <<>> => Head(owner.todo) \in Nat
    BY DEF IInv, TypeInv
  <2>5. OwnerKnows'
    <3>1. /\ owner'.got = owner.got /\ owner'.todo = owner.todo
          /\ owner'.pc \in {"Reserved", "Unwind", "Regions"}
      BY <1>2 DEF ReserveCheck, Goto, IInv, TypeInv
    <3>2. owner'.pc = "Regions" =>
             owner.todo # <<>> /\ Head(owner.todo) \in 1..MaxBytes /\ state = "Active"
      BY <1>2, <2>4, LimitsAssumption DEF ReserveCheck, Goto, IInv, TypeInv
    <3> QED BY <1>2, <3>1, <3>2 DEF ReserveCheck, OwnerKnows, IInv
  <2> QED BY <1>2, <2>1, <2>3, <2>5 DEF IInv, ReserveCheck
<1> QED BY <1>1, <1>2

\* Goto moves the owner's place and nothing else of it.
LEMMA GotoMoves ==
  ASSUME TypeInv, NEW p \in Calls, Goto(p)
  PROVE  /\ owner' \in [pc : Calls, todo : Seq(Nat), got : SUBSET Leases,
                        closing : BOOLEAN, sawRegions : Nat, sawBytes : Nat]
         /\ owner'.pc = p /\ owner'.todo = owner.todo /\ owner'.got = owner.got
         /\ owner'.sawRegions = owner.sawRegions /\ owner'.sawBytes = owner.sawBytes
  BY DEF Goto, TypeInv

\* The charging half of reserve keeps the inductive invariant: the owner
\* holds an unminted region, then unminted bytes too.
LEMMA ChargeStep ==
  ASSUME IInv, ChargeRegion \/ ChargeBytes \/ UndoRegion
  PROVE  IInv'
<1>1. lease' = lease /\ state' = state /\ state = "Active"
  BY DEF ChargeRegion, ChargeBytes, UndoRegion, IInv, OwnerKnows
<1>2. RegionCharged' = RegionCharged /\ Pages' = Pages
  BY <1>1 DEF RegionCharged, Pages, PagesOf, ByteCharged
<1>3. CASE ChargeRegion
  <2>1. owner.pc = "Regions" /\ owner'.todo = owner.todo /\ owner'.got = owner.got
    BY <1>3 DEF ChargeRegion, Goto, IInv, TypeInv
  <2>2. \/ owner'.pc = "Bytes" /\ activeRegions < MaxRegions /\ activeRegions' = activeRegions + 1
        \/ owner'.pc = "Unwind" /\ activeRegions' = activeRegions
    BY <1>3 DEF ChargeRegion, Goto, IInv, TypeInv
  <2>3. TypeInv'
    <3>1. Goto("Bytes") \/ Goto("Unwind")
      BY <1>3 DEF ChargeRegion
    <3> QED BY <1>1, <1>3, <2>2, <3>1, GotoMoves DEF ChargeRegion, IInv, TypeInv, Calls
  <2>4. UnmintedRegions = 0 /\ UnmintedBytes = 0 /\ UnmintedBytes' = 0
    BY <2>1, <2>2 DEF UnmintedRegions, UnmintedBytes
  <2>5. UnmintedRegions' = activeRegions' - activeRegions
    <3>1. activeRegions \in Nat
      BY DEF IInv, TypeInv
    <3> QED BY <2>2, <3>1 DEF UnmintedRegions
  <2>6. Accounted'
    BY <1>2, <1>3, <2>2, <2>3, <2>4, <2>5, ChargesFinite, LimitsAssumption
    DEF Accounted, Pages, ChargeRegion, IInv, TypeInv
  <2>7. OwnerKnows'
    BY <1>1, <2>1, <2>2 DEF OwnerKnows, IInv
  <2> QED BY <1>1, <2>3, <2>6, <2>7 DEF IInv
<1>4. CASE ChargeBytes
  <2>1. owner.pc = "Bytes" /\ owner'.todo = owner.todo /\ owner'.got = owner.got
    BY <1>4 DEF ChargeBytes, Goto, IInv, TypeInv
  <2>2. Head(owner.todo) \in 1..MaxBytes /\ owner.todo # <<>>
    BY <2>1 DEF IInv, OwnerKnows
  <2>3. \/ /\ owner'.pc = "Recheck" /\ activeBytes' = activeBytes + Head(owner.todo)
           /\ activeBytes' <= MaxBytes
        \/ owner'.pc = "UndoRegion" /\ activeBytes' = activeBytes
    BY <1>4 DEF ChargeBytes, Goto, IInv, TypeInv
  <2>4. TypeInv'
    <3>1. Goto("Recheck") \/ Goto("UndoRegion")
      BY <1>4 DEF ChargeBytes
    <3>2. activeBytes' \in Nat
      BY <2>2, <2>3, LimitsAssumption DEF IInv, TypeInv
    <3> QED BY <1>1, <1>4, <3>1, <3>2, GotoMoves DEF ChargeBytes, IInv, TypeInv, Calls
  <2>5. UnmintedRegions = 1 /\ UnmintedRegions' = 1 /\ UnmintedBytes = 0
    BY <2>1, <2>3 DEF UnmintedRegions, UnmintedBytes
  <2>6. UnmintedBytes' = activeBytes' - activeBytes
    BY <2>1, <2>2, <2>3, LimitsAssumption DEF UnmintedBytes, IInv, TypeInv
  <2>7. Accounted'
    BY <1>2, <1>4, <2>3, <2>4, <2>5, <2>6, ChargesFinite, LimitsAssumption
    DEF Accounted, Pages, ChargeBytes, IInv, TypeInv
  <2>8. OwnerKnows'
    BY <1>1, <2>1, <2>2, <2>3 DEF OwnerKnows, IInv
  <2> QED BY <1>1, <2>4, <2>7, <2>8 DEF IInv
<1>5. CASE UndoRegion
  <2>1. /\ owner.pc = "UndoRegion" /\ owner'.pc = "Unwind" /\ owner'.got = owner.got
        /\ activeRegions' = activeRegions - 1 /\ activeBytes' = activeBytes
    BY <1>5 DEF UndoRegion, Goto, IInv, TypeInv
  <2>2. /\ UnmintedRegions = 1 /\ UnmintedRegions' = 0
        /\ UnmintedBytes = 0 /\ UnmintedBytes' = 0
    BY <2>1 DEF UnmintedRegions, UnmintedBytes
  <2>3. activeRegions >= 1
    BY <2>2, ChargesFinite DEF IInv, Accounted
  <2>4. TypeInv'
    <3>1. Goto("Unwind") /\ activeRegions' \in Nat
      BY <1>5, <2>1, <2>3 DEF UndoRegion, IInv, TypeInv
    <3> QED BY <1>1, <2>1, <3>1, GotoMoves DEF IInv, TypeInv, Calls
  <2>5. Accounted'
    BY <1>2, <2>1, <2>2, ChargesFinite, LimitsAssumption
    DEF Accounted, Pages, IInv, TypeInv
  <2>6. OwnerKnows'
    BY <1>1, <2>1 DEF OwnerKnows, IInv
  <2> QED BY <1>1, <2>4, <2>5, <2>6 DEF IInv
<1> QED BY <1>3, <1>4, <1>5

\* Minting moves the unminted charge onto a fresh lease.
LEMMA MintStep ==
  ASSUME IInv, NEW l \in Leases, Mint(l)
  PROVE  IInv'
<1> DEFINE n == Head(owner.todo)
<1>1. /\ owner.pc = "Recheck" /\ state = "Active" /\ state' = state
      /\ owner.todo # <<>> /\ n \in 1..MaxBytes
  BY DEF Mint, IInv, OwnerKnows
<1>2. /\ lease[l].phase = "Free"
      /\ lease' = [lease EXCEPT ![l] = [phase |-> "Held", bytes |-> n]]
      /\ owner' = [owner EXCEPT !.pc = "Check", !.todo = Tail(@), !.got = @ \cup {l}]
      /\ UNCHANGED <<activeRegions, activeBytes>>
  BY <1>1 DEF Mint
<1>3. owner'.pc = "Check" /\ owner'.got = owner.got \cup {l}
  BY <1>2 DEF IInv, TypeInv
<1>4. Tail(owner.todo) \in Seq(Nat)
  BY <1>1 DEF IInv, TypeInv
<1>5. n \in Nat /\ n <= MaxBytes
  BY <1>1, LimitsAssumption
<1>6. TypeInv'
  BY <1>1, <1>2, <1>4, <1>5 DEF IInv, TypeInv, Calls, Phases
<1>7. /\ UnmintedRegions = 1 /\ UnmintedRegions' = 0
      /\ UnmintedBytes = n /\ UnmintedBytes' = 0
  BY <1>1, <1>3 DEF UnmintedRegions, UnmintedBytes
<1>8. /\ Cardinality(RegionCharged') = Cardinality(RegionCharged) + 1
      /\ Cardinality(Pages') = Cardinality(Pages) + n
  <2> HIDE DEF n
  <2> QED BY <1>1, <1>2, MintCharges DEF IInv
<1>9. Accounted'
  BY <1>2, <1>5, <1>7, <1>8, ChargesFinite DEF Accounted, Pages, IInv, TypeInv
<1>10. OwnerKnows'
  BY <1>2, <1>3, <1>5 DEF OwnerKnows, IInv, TypeInv
<1> QED BY <1>1, <1>6, <1>9, <1>10 DEF IInv

\* A step that only moves a lease between charged phases, or only moves the
\* owner, keeps the invariant when it keeps the types and the owner's facts.
LEMMA SameChargeStep ==
  ASSUME IInv, TypeInv', OwnerKnows', UNCHANGED <<activeRegions, activeBytes>>,
         RegionCharged' = RegionCharged, Pages' = Pages,
         UnmintedRegions' = UnmintedRegions, UnmintedBytes' = UnmintedBytes,
         state' = "Closed" => state = "Closed"
  PROVE  IInv'
  BY DEF IInv, Accounted, Pages

\* Giving a batch up, delivering it and finishing its drops.
LEMMA EndBatchStep ==
  ASSUME IInv, (\E p \in BOOLEAN : AbandonBatch(p)) \/ Deliver \/ Unwound
  PROVE  IInv'
<1>1. lease' = lease /\ UNCHANGED <<activeRegions, activeBytes>>
  BY DEF AbandonBatch, Deliver, Unwound
<1>2. RegionCharged' = RegionCharged /\ Pages' = Pages
  BY <1>1 DEF RegionCharged, Pages, PagesOf, ByteCharged
<1>3. owner.pc \in {"Reserved", "Unwind"} /\ owner'.pc \in {"Unwind", "Idle"}
  BY DEF AbandonBatch, Deliver, Unwound, Goto, IInv, TypeInv
<1>4. UnmintedRegions' = UnmintedRegions /\ UnmintedBytes' = UnmintedBytes
  BY <1>3 DEF UnmintedRegions, UnmintedBytes
<1>5. state' \in States /\ (state' = "Closed" => state = "Closed")
  BY DEF AbandonBatch, Deliver, Unwound, Poisoned, States, IInv, TypeInv
<1>6. CASE \E p \in BOOLEAN : AbandonBatch(p)
  <2>1. Goto("Unwind")
    BY <1>6 DEF AbandonBatch
  <2>2. TypeInv'
    BY <1>1, <1>5, <2>1, GotoMoves DEF IInv, TypeInv, Calls
  <2>3. OwnerKnows'
    BY <1>1, <2>1, GotoMoves DEF IInv, OwnerKnows, Calls
  <2> QED BY <1>1, <1>2, <1>4, <1>5, <2>2, <2>3, SameChargeStep
<1>7. CASE Deliver
  <2>1. TypeInv'
    BY <1>1, <1>5, <1>7 DEF Deliver, IInv, TypeInv, Calls
  <2>2. \A l \in Leases : lease[l].phase # "Held"
    BY <1>7 DEF Deliver, IInv, OwnerKnows
  <2>3. owner'.got = {} /\ owner'.pc = "Idle"
    BY <1>7 DEF Deliver, IInv, TypeInv
  <2>4. OwnerKnows'
    BY <1>1, <2>2, <2>3 DEF IInv, OwnerKnows
  <2> QED BY <1>1, <1>2, <1>4, <1>5, <2>1, <2>4, SameChargeStep
<1>8. CASE Unwound
  <2>1. TypeInv'
    <3>1. <<>> \in Seq(Nat)
      OBVIOUS
    <3> QED BY <1>1, <1>5, <1>8, <3>1 DEF Unwound, IInv, TypeInv, Calls
  <2>2. \A l \in Leases : lease[l].phase # "Held"
    BY <1>8 DEF Unwound, IInv, OwnerKnows
  <2>3. owner'.got = {} /\ owner'.pc = "Idle"
    BY <1>8 DEF Unwound, IInv, TypeInv
  <2>4. OwnerKnows'
    BY <1>1, <2>2, <2>3 DEF IInv, OwnerKnows
  <2> QED BY <1>1, <1>2, <1>4, <1>5, <2>1, <2>4, SameChargeStep
<1> QED BY <1>6, <1>7, <1>8

\* Poisoning between calls, the two loads, and dropping the owner.
LEMMA FactsStep ==
  ASSUME IInv, \/ Poison
               \/ \E c \in BOOLEAN : BeginFacts(c)
               \/ LoadRegions
               \/ LoadBytes
               \/ DropOwner
  PROVE  IInv'
<1>1. lease' = lease /\ UNCHANGED <<activeRegions, activeBytes>>
  BY DEF Poison, BeginFacts, LoadRegions, LoadBytes, DropOwner
<1>2. RegionCharged' = RegionCharged /\ Pages' = Pages
  BY <1>1 DEF RegionCharged, Pages, PagesOf, ByteCharged
<1>3. /\ owner.pc \in {"Idle", "LoadRegions", "LoadBytes"} /\ owner.got = {}
      /\ owner'.got = {}
  BY DEF Poison, BeginFacts, LoadRegions, LoadBytes, DropOwner, Goto, IInv, TypeInv, OwnerKnows
<1>4. /\ owner'.pc \in {"Idle", "LoadRegions", "LoadBytes", "Facts", "Gone"}
      /\ owner'.pc = "LoadBytes" => owner'.sawRegions = activeRegions
      /\ owner'.pc = "Facts" => /\ owner.pc = "LoadBytes"
                                /\ owner'.sawRegions = owner.sawRegions
                                /\ owner'.sawBytes = activeBytes
  BY DEF Poison, BeginFacts, LoadRegions, LoadBytes, DropOwner, Goto, IInv, TypeInv
<1>5. UnmintedRegions' = UnmintedRegions /\ UnmintedBytes' = UnmintedBytes
  BY <1>3, <1>4 DEF UnmintedRegions, UnmintedBytes
<1>6. state' \in States /\ (state' = "Closed" => state = "Closed")
  BY DEF Poison, BeginFacts, LoadRegions, LoadBytes, DropOwner, Poisoned, States, IInv, TypeInv
<1>7. owner' \in [pc : Calls, todo : Seq(Nat), got : SUBSET Leases,
                  closing : BOOLEAN, sawRegions : Nat, sawBytes : Nat]
  <2>1. CASE Poison
    BY <2>1 DEF Poison, IInv, TypeInv
  <2>2. CASE \E c \in BOOLEAN : BeginFacts(c)
    BY <2>2 DEF BeginFacts, IInv, TypeInv, Calls
  <2>3. CASE LoadRegions
    BY <2>3 DEF LoadRegions, IInv, TypeInv, Calls
  <2>4. CASE LoadBytes
    BY <2>4 DEF LoadBytes, IInv, TypeInv, Calls
  <2>5. CASE DropOwner
    BY <2>5, GotoMoves DEF DropOwner, IInv, Calls
  <2> QED BY <2>1, <2>2, <2>3, <2>4, <2>5
<1>8. TypeInv'
  BY <1>1, <1>6, <1>7 DEF IInv, TypeInv
<1>9. activeRegions \in Nat /\ activeBytes \in Nat
  BY DEF IInv, TypeInv
<1>10. OwnerKnows'
  BY <1>1, <1>3, <1>4, <1>9 DEF IInv, OwnerKnows
<1> QED BY <1>1, <1>2, <1>5, <1>6, <1>8, <1>10, SameChargeStep

\* try_close closes only when it saw two zeros; the region load is then a
\* bound that proves every lease free.
LEMMA FinishStep ==
  ASSUME IInv, FinishFacts
  PROVE  IInv'
<1>1. lease' = lease /\ UNCHANGED <<activeRegions, activeBytes>>
  BY DEF FinishFacts
<1>2. RegionCharged' = RegionCharged /\ Pages' = Pages
  BY <1>1 DEF RegionCharged, Pages, PagesOf, ByteCharged
<1>3. owner.pc = "Facts" /\ owner'.pc = "Idle" /\ owner.got = {} /\ owner'.got = {}
  BY DEF FinishFacts, IInv, TypeInv, OwnerKnows
<1>4. UnmintedRegions = 0 /\ UnmintedRegions' = 0 /\ UnmintedBytes' = UnmintedBytes
  BY <1>3 DEF UnmintedRegions, UnmintedBytes
<1>5. TypeInv'
  BY <1>1 DEF FinishFacts, IInv, TypeInv, Calls, States
<1>6. OwnerKnows'
  BY <1>1, <1>3 DEF IInv, OwnerKnows
<1>7. Accounted'
  BY <1>1, <1>2, <1>4 DEF IInv, Accounted, Pages, UnmintedRegions
<1>8. owner.sawRegions = 0 => RegionCharged = {}
  <2>1. owner.sawRegions = 0 => activeRegions = 0
    BY <1>3 DEF IInv, TypeInv, OwnerKnows
  <2> QED BY <1>4, <2>1, ChargesFinite, FS_EmptySet DEF IInv, Accounted
<1>9. state' = "Closed" => RegionCharged = {}
  BY <1>8 DEF FinishFacts, FactsAreExact, IInv
<1> QED BY <1>2, <1>5, <1>6, <1>7, <1>9 DEF IInv

\* Activating one reservation, or failing to.
LEMMA CompleteStep ==
  ASSUME IInv, NEW l \in Leases, NEW n, Complete(l, n)
  PROVE  IInv'
<1>1. /\ owner.pc = "Reserved" /\ lease[l].phase = "Held"
      /\ UNCHANGED <<activeRegions, activeBytes>>
  BY DEF Complete
<1>2. CASE lease' = [lease EXCEPT ![l].phase = "Mapped"] /\ UNCHANGED <<state, owner>>
  <2>1. TypeInv'
    BY <1>1, <1>2 DEF IInv, TypeInv, Phases
  <2>2. RegionCharged' = RegionCharged /\ Pages' = Pages
    BY <1>1, <1>2, <2>1, SameCharges DEF IInv, TypeInv
  <2>3. UnmintedRegions' = UnmintedRegions /\ UnmintedBytes' = UnmintedBytes
    BY <1>2 DEF UnmintedRegions, UnmintedBytes
  <2>4. OwnerKnows'
    BY <1>1, <1>2 DEF IInv, TypeInv, OwnerKnows
  <2> QED BY <1>1, <1>2, <2>1, <2>2, <2>3, <2>4, SameChargeStep
<1>3. CASE state' = Poisoned(state) /\ Goto("Unwind") /\ UNCHANGED lease
  <2>1. TypeInv'
    BY <1>1, <1>3, GotoMoves DEF IInv, TypeInv, Calls, Poisoned, States
  <2>2. RegionCharged' = RegionCharged /\ Pages' = Pages
    BY <1>3 DEF RegionCharged, Pages, PagesOf, ByteCharged
  <2>3. owner'.pc = "Unwind" /\ owner'.got = owner.got
    BY <1>3, GotoMoves DEF IInv, Calls
  <2>4. UnmintedRegions' = UnmintedRegions /\ UnmintedBytes' = UnmintedBytes
    BY <1>1, <2>3 DEF UnmintedRegions, UnmintedBytes
  <2>5. OwnerKnows'
    BY <1>3, <2>3 DEF IInv, OwnerKnows
  <2> QED BY <1>1, <1>3, <2>1, <2>2, <2>4, <2>5, SameChargeStep DEF Poisoned
<1> QED BY <1>2, <1>3 DEF Complete

\* Dropping the batch's reservations and mappings starts their returns.
LEMMA UnwindStep ==
  ASSUME IInv, Unwind
  PROVE  IInv'
<1> DEFINE S == {l \in owner.got : lease[l].phase \in {"Held", "Mapped"}}
<1>1. /\ owner.pc = "Unwind" /\ UNCHANGED <<state, activeRegions, activeBytes, owner>>
      /\ lease' = [l \in Leases |->
                     IF l \in S THEN [lease[l] EXCEPT !.phase = "Unmapped"] ELSE lease[l]]
  BY DEF Unwind, DropAll
<1>2. \A l \in Leases : /\ lease[l] \in [phase : Phases, bytes : Nat]
                        /\ lease'[l] \in [phase : Phases, bytes : Nat]
                        /\ lease'[l].bytes = lease[l].bytes
                        /\ l \in S => lease'[l].phase = "Unmapped"
                        /\ l \notin S => lease'[l].phase = lease[l].phase
  BY <1>1 DEF IInv, TypeInv, Phases
<1>3. lease' \in [Leases -> [phase : Phases, bytes : Nat]]
  BY <1>1, <1>2
<1>4. TypeInv'
  BY <1>1, <1>3 DEF IInv, TypeInv
<1>5. RegionCharged' = RegionCharged /\ Pages' = Pages
  BY <1>2, <1>3, SameCharges DEF IInv
<1>6. UnmintedRegions' = UnmintedRegions /\ UnmintedBytes' = UnmintedBytes
  BY <1>1 DEF UnmintedRegions, UnmintedBytes
<1>7. OwnerKnows'
  BY <1>1, <1>2 DEF IInv, OwnerKnows
<1> QED BY <1>1, <1>4, <1>5, <1>6, <1>7, SameChargeStep

\* A drop on any thread: the mapping, then the bytes, then the region.
LEMMA DropStep ==
  ASSUME IInv, NEW l \in Leases, LeaseStep(l)
  PROVE  IInv'
<1>1. UNCHANGED <<state, owner>>
  BY DEF LeaseStep, DestroyMapping, ReturnBytes, ReturnRegion
<1>2. UnmintedRegions' = UnmintedRegions /\ UnmintedBytes' = UnmintedBytes
  BY <1>1 DEF UnmintedRegions, UnmintedBytes
<1>3. UnmintedRegions \in Nat /\ UnmintedBytes \in Nat
  BY LimitsAssumption DEF UnmintedRegions, UnmintedBytes, IInv, OwnerKnows
<1>4. CASE DestroyMapping(l)
  <2>1. TypeInv'
    BY <1>1, <1>4 DEF DestroyMapping, IInv, TypeInv, Phases
  <2>2. RegionCharged' = RegionCharged /\ Pages' = Pages
    BY <1>4, <2>1, SameCharges DEF DestroyMapping, IInv, TypeInv
  <2>3. OwnerKnows'
    BY <1>1, <1>4 DEF DestroyMapping, IInv, TypeInv, OwnerKnows
  <2> QED BY <1>1, <1>2, <1>4, <2>1, <2>2, <2>3, SameChargeStep DEF DestroyMapping
<1>5. CASE ReturnBytes(l)
  <2> DEFINE n == lease[l].bytes
  <2>1. /\ lease[l].phase = "Unmapped" /\ n \in Nat
        /\ lease' = [lease EXCEPT ![l].phase = "BytesReturned"]
        /\ activeBytes' = activeBytes - n /\ activeRegions' = activeRegions
    BY <1>5 DEF ReturnBytes, IInv, TypeInv
  <2>2. lease' \in [Leases -> [phase : Phases, bytes : Nat]]
    BY <2>1 DEF IInv, TypeInv, Phases
  <2>3. RegionCharged' = RegionCharged /\ Cardinality(Pages) = Cardinality(Pages') + n
    BY <2>1, BytesReturn DEF IInv
  <2>4. Cardinality(Pages') \in Nat
    <3>1. ByteCharged' \subseteq ByteCharged
      BY <2>1 DEF ByteCharged, IInv, TypeInv
    <3>2. Pages' \in SUBSET Pages
      BY <2>1, <3>1 DEF Pages, PagesOf, ByteCharged, IInv, TypeInv
    <3>3. IsFiniteSet(Pages')
      BY <3>2, ChargesFinite, FS_Subset
    <3> QED BY <3>3, FS_CardinalityType
  <2>5. activeBytes' = Cardinality(Pages') + UnmintedBytes
    BY <1>3, <2>1, <2>3, <2>4 DEF IInv, Accounted, Pages
  <2>6. activeBytes' \in Nat /\ activeBytes' <= activeBytes
    BY <1>3, <2>1, <2>4, <2>5 DEF IInv, TypeInv
  <2>7. TypeInv'
    BY <1>1, <2>1, <2>2, <2>6 DEF IInv, TypeInv
  <2>8. Accounted'
    BY <1>2, <2>1, <2>3, <2>5, <2>6, LimitsAssumption DEF IInv, TypeInv, Accounted, Pages
  <2>9. OwnerKnows'
    BY <1>1, <2>1, <2>6 DEF IInv, TypeInv, OwnerKnows
  <2> QED BY <1>1, <2>3, <2>7, <2>8, <2>9 DEF IInv
<1>6. CASE ReturnRegion(l)
  <2>1. /\ lease[l].phase = "BytesReturned"
        /\ lease' = [lease EXCEPT ![l] = [phase |-> "Free", bytes |-> 0]]
        /\ activeRegions' = activeRegions - 1 /\ activeBytes' = activeBytes
    BY <1>6 DEF ReturnRegion
  <2>2. lease' \in [Leases -> [phase : Phases, bytes : Nat]]
    BY <2>1 DEF IInv, TypeInv, Phases
  <2>3. /\ Cardinality(RegionCharged) = Cardinality(RegionCharged') + 1
        /\ RegionCharged' \subseteq RegionCharged /\ Pages' = Pages
    BY <2>1, RegionReturn DEF IInv
  <2>4. Cardinality(RegionCharged') \in Nat
    BY <2>3, ChargesFinite, FS_Subset, FS_CardinalityType
  <2>5. activeRegions' = Cardinality(RegionCharged') + UnmintedRegions
    BY <1>3, <2>1, <2>3, <2>4 DEF IInv, Accounted
  <2>6. activeRegions' \in Nat /\ activeRegions' <= activeRegions
    BY <1>3, <2>1, <2>4, <2>5 DEF IInv, TypeInv
  <2>7. TypeInv'
    BY <1>1, <2>1, <2>2, <2>6 DEF IInv, TypeInv
  <2>8. Accounted'
    BY <1>2, <2>1, <2>3, <2>5, <2>6, LimitsAssumption DEF IInv, TypeInv, Accounted, Pages
  <2>9. OwnerKnows'
    BY <1>1, <2>1, <2>6, LimitsAssumption DEF IInv, TypeInv, OwnerKnows
  <2> QED BY <1>1, <2>3, <2>7, <2>8, <2>9 DEF IInv
<1> QED BY <1>4, <1>5, <1>6 DEF LeaseStep

-----------------------------------------------------------------------------
\* Every step of the owner and of every dropping thread keeps the invariant.
LEMMA NextIInv == IInv /\ [Next]_vars => IInv'
<1> SUFFICES ASSUME IInv, [Next]_vars PROVE IInv'
  OBVIOUS
<1>1. CASE OwnerStep
  BY <1>1, BeginStep, ChargeStep, MintStep, EndBatchStep, CompleteStep,
     UnwindStep, FactsStep, FinishStep DEF OwnerStep
<1>2. CASE \E l \in Leases : LeaseStep(l)
  BY <1>2, DropStep
<1>3. CASE UNCHANGED vars
  BY <1>3 DEF vars, IInv, TypeInv, Accounted, OwnerKnows, RegionCharged, PagesOf,
              ByteCharged, UnmintedRegions, UnmintedBytes
<1> QED BY <1>1, <1>2, <1>3 DEF Next

\* Every reachable state satisfies the inductive invariant.
THEOREM Inductive == Spec => []IInv
  BY InitIInv, NextIInv, PTL DEF Spec

\* Types hold, and with them the debug_asserts of RegionLease::drop: no
\* fetch_sub of a drop or of a rollback wraps a counter below zero.
THEOREM CountersNeverWrap == Spec => []TypeInv
  BY Inductive, PTL DEF IInv

\* What is mapped never exceeds the negotiated limits, on any interleaving
\* of reservations with drops on other threads (reserve, the drop order).
THEOREM BudgetHolds == Spec => []MappedWithinBudget
<1>1. IInv => MappedWithinBudget
  <2> SUFFICES ASSUME IInv PROVE MappedWithinBudget
    OBVIOUS
  <2>1. UnmintedRegions \in Nat /\ UnmintedBytes \in Nat
    BY LimitsAssumption DEF UnmintedRegions, UnmintedBytes, IInv, OwnerKnows
  <2>2. MappedLeases \in SUBSET RegionCharged
    BY DEF MappedLeases, RegionCharged
  <2>3. PagesOf(MappedLeases) \in SUBSET Pages
    BY DEF MappedLeases, ByteCharged, Pages, PagesOf
  <2>4. Cardinality(MappedLeases) <= Cardinality(RegionCharged)
    BY <2>2, ChargesFinite, FS_Subset
  <2>5. Cardinality(PagesOf(MappedLeases)) <= Cardinality(Pages)
    BY <2>3, ChargesFinite, FS_Subset
  <2>6. Cardinality(MappedLeases) \in Nat /\ Cardinality(PagesOf(MappedLeases)) \in Nat
    BY <2>2, <2>3, ChargesFinite, FS_Subset, FS_CardinalityType
  <2> QED BY <2>1, <2>4, <2>5, <2>6, ChargesFinite DEF MappedWithinBudget, IInv, Accounted, Pages
<1> QED BY <1>1, Inductive, PTL

\* Between calls the counters are exactly the outstanding leases: a batch
\* that failed at any point returned all it had charged.
THEOREM NoLeak == Spec => []NothingLeaksBetweenCalls
<1>1. IInv => NothingLeaksBetweenCalls
  <2> SUFFICES ASSUME IInv, owner.pc \in {"Idle", "Gone"}
               PROVE  /\ \A l \in Leases : lease[l].phase # "Held"
                      /\ activeRegions = Cardinality(RegionCharged)
                      /\ activeBytes = Cardinality(PagesOf(ByteCharged))
    BY DEF NothingLeaksBetweenCalls
  <2>1. UnmintedRegions = 0 /\ UnmintedBytes = 0
    BY DEF UnmintedRegions, UnmintedBytes
  <2> QED BY <2>1, ChargesFinite DEF IInv, Accounted, OwnerKnows, Pages
<1> QED BY <1>1, Inductive, PTL

\* A session that try_close closed has no lease left on any thread.
THEOREM ClosedIsReleased == Spec => []ClosedMeansReleased
<1>1. IInv => ClosedMeansReleased
  <2> SUFFICES ASSUME IInv, state = "Closed" PROVE ClosedMeansReleased
    BY DEF ClosedMeansReleased
  <2>1. RegionCharged = {}
    BY DEF IInv
  <2>2. \A l \in Leases : lease[l].phase = "Free"
    BY <2>1 DEF RegionCharged
  <2>3. Pages = {}
    BY <2>2 DEF Pages, PagesOf, ByteCharged
  <2>4. UnmintedRegions = 0 /\ UnmintedBytes = 0
    BY DEF UnmintedRegions, UnmintedBytes, IInv, OwnerKnows
  <2> QED BY <2>1, <2>2, <2>3, <2>4, FS_EmptySet DEF ClosedMeansReleased, IInv, Accounted, Pages
<1> QED BY <1>1, Inductive, PTL

\* A report of active_lease_facts is never below the counters, and an Exact
\* one is the truth, whatever drops ran between the two loads.
THEOREM FactsAreHigh == Spec => []FactsNeverStaleLow
<1>1. IInv => FactsNeverStaleLow
  <2> SUFFICES ASSUME IInv, owner.pc = "Facts" PROVE FactsNeverStaleLow
    BY DEF FactsNeverStaleLow
  <2>1. owner.sawRegions >= activeRegions /\ owner.sawBytes >= activeBytes
    BY DEF IInv, OwnerKnows
  <2>2. UnmintedRegions = 0
    BY DEF UnmintedRegions
  <2>3. FactsAreExact => Cardinality(RegionCharged) = 0
    BY <2>1, <2>2, ChargesFinite DEF FactsAreExact, IInv, TypeInv, Accounted
  <2> QED BY <2>1, <2>3, ChargesFinite, FS_EmptySet DEF FactsNeverStaleLow
<1> QED BY <1>1, Inductive, PTL

\* No step reopens a closed or a poisoned session (ResourceOwner::poison is
\* a compare-exchange, try_close stores only CLOSED).
THEOREM NeverReopens == Spec => StateOnlyAdvances
<1>1. [Next]_vars => [/\ state = "Closed" => state' = "Closed"
                      /\ state = "Poisoned" => state' # "Active"]_vars
  BY DEF Next, OwnerStep, LeaseStep, BeginBatch, ReserveCheck, ChargeRegion,
         ChargeBytes, UndoRegion, Mint, AbandonBatch, Complete, Deliver, Unwind,
         Unwound, Poison, BeginFacts, LoadRegions, LoadBytes, FinishFacts,
         DropOwner, DestroyMapping, ReturnBytes, ReturnRegion, Poisoned, vars
<1> QED BY <1>1, PTL DEF Spec, StateOnlyAdvances
=============================================================================
