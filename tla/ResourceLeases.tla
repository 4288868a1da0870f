--------------------------- MODULE ResourceLeases ---------------------------
(***************************************************************************)
(* The per-session budget of native-ipc (liveness.rs, with the lease half  *)
(* of active.rs and the batch reservation of accepted_control.rs).         *)
(*                                                                         *)
(* One thread owns the session: `ResourceOwner` is neither Sync nor Clone  *)
(* and every method that changes it takes `&mut self`, so the owner runs   *)
(* one call at a time.  The leases it hands out travel with the active     *)
(* mappings to any thread and are dropped there at any time, also after    *)
(* the owner is gone.  The two counters are separate atomics, so a step    *)
(* below is one atomic access and the owner's calls interleave with drops. *)
(*                                                                         *)
(* Data: bytes are counted in pages, because every charge is a page-       *)
(* rounded mapped length.                                                  *)
(***************************************************************************)
EXTENDS Integers, FiniteSets, Sequences

CONSTANTS
    Leases,      \* identities of the leases that can be outstanding at once
    MaxRegions,  \* SharedResources.maximum_regions
    MaxBytes,    \* SharedResources.maximum_bytes, in pages
    Batches      \* the sequences of mapped lengths the owner may reserve

ASSUME LimitsAssumption ==
    /\ IsFiniteSet(Leases)
    /\ Cardinality(Leases) >= MaxRegions
    /\ MaxRegions \in Nat \ {0}
    /\ MaxBytes \in Nat \ {0}
    /\ Batches \subseteq Seq(Nat)

VARIABLES
    state,          \* the AtomicU8: ACTIVE, POISONED or CLOSED
    activeRegions,  \* the AtomicU32
    activeBytes,    \* the AtomicU64
    lease,          \* per identity: where its drop has got to, and its bytes
    owner           \* the owner thread: its place in the current call

vars == <<state, activeRegions, activeBytes, lease, owner>>

States == {"Active", "Poisoned", "Closed"}

(***************************************************************************)
(* A lease is Free, Held by a LeaseReservation, Mapped by an active region *)
(* that owns it, Unmapped (its mapping destroyed, nothing returned yet) or *)
(* BytesReturned (the bytes returned, the region not yet).                 *)
(***************************************************************************)
Phases == {"Free", "Held", "Mapped", "Unmapped", "BytesReturned"}

Calls == {"Idle", "Check", "Regions", "Bytes", "UndoRegion", "Recheck",
          "Reserved", "Unwind", "LoadRegions", "LoadBytes", "Facts", "Gone"}

NewOwner ==
    [pc |-> "Idle", todo |-> <<>>, got |-> {}, closing |-> FALSE,
     sawRegions |-> 0, sawBytes |-> 0]

Init ==
    /\ state = "Active"
    /\ activeRegions = 0
    /\ activeBytes = 0
    /\ lease = [l \in Leases |-> [phase |-> "Free", bytes |-> 0]]
    /\ owner = NewOwner

Goto(pc) == owner' = [owner EXCEPT !.pc = pc]

(***************************************************************************)
(* reserve_mapped_lengths: reserve each length in turn; the first failure  *)
(* returns early, which drops the reservations already taken.              *)
(***************************************************************************)
BeginBatch(lengths) ==
    /\ owner.pc = "Idle"
    /\ owner' = [owner EXCEPT !.pc = "Check", !.todo = lengths]
    /\ UNCHANGED <<state, activeRegions, activeBytes, lease>>

\* reserve: the length check, then the first ensure_active.
ReserveCheck ==
    /\ owner.pc = "Check"
    /\ IF owner.todo = <<>>
       THEN Goto("Reserved")
       ELSE IF Head(owner.todo) = 0 \/ Head(owner.todo) > MaxBytes
               \/ state # "Active"
            THEN Goto("Unwind")
            ELSE Goto("Regions")
    /\ UNCHANGED <<state, activeRegions, activeBytes, lease>>

ChargeRegion ==
    /\ owner.pc = "Regions"
    /\ IF activeRegions < MaxRegions
       THEN activeRegions' = activeRegions + 1 /\ Goto("Bytes")
       ELSE UNCHANGED activeRegions /\ Goto("Unwind")
    /\ UNCHANGED <<state, activeBytes, lease>>

\* A charge that forgets the bytes limit.
ChargeBytesUnbounded ==
    /\ owner.pc = "Bytes"
    /\ activeBytes' = activeBytes + Head(owner.todo)
    /\ Goto("Recheck")
    /\ UNCHANGED <<state, activeRegions, lease>>

ChargeBytes ==
    /\ owner.pc = "Bytes"
    /\ LET next == activeBytes + Head(owner.todo)
       IN IF next <= MaxBytes
          THEN activeBytes' = next /\ Goto("Recheck")
          ELSE UNCHANGED activeBytes /\ Goto("UndoRegion")
    /\ UNCHANGED <<state, activeRegions, lease>>

\* A failed byte charge that keeps the region it charged first.
UndoRegionForgotten ==
    /\ owner.pc = "UndoRegion"
    /\ Goto("Unwind")
    /\ UNCHANGED <<state, activeRegions, activeBytes, lease>>

UndoRegion ==
    /\ owner.pc = "UndoRegion"
    /\ activeRegions' = activeRegions - 1
    /\ Goto("Unwind")
    /\ UNCHANGED <<state, activeBytes, lease>>

(***************************************************************************)
(* The second ensure_active, then the reservation is minted.  Only the     *)
(* owner writes `state`, so the rollback is never reached; it is kept      *)
(* because the code has it.                                                *)
(***************************************************************************)
Mint(l) ==
    /\ owner.pc = "Recheck"
    /\ lease[l].phase = "Free"
    /\ IF state = "Active"
       THEN /\ lease' = [lease EXCEPT ![l] =
                           [phase |-> "Held", bytes |-> Head(owner.todo)]]
            /\ owner' = [owner EXCEPT !.pc = "Check", !.todo = Tail(@),
                                      !.got = @ \cup {l}]
            /\ UNCHANGED <<activeRegions, activeBytes>>
       ELSE /\ activeBytes' = activeBytes - Head(owner.todo)
            /\ activeRegions' = activeRegions - 1
            /\ Goto("Unwind")
            /\ UNCHANGED lease
    /\ UNCHANGED state

(***************************************************************************)
(* Dropping what the batch holds.  The owner waits for its own drops: they *)
(* are the destructor of a Vec.                                            *)
(***************************************************************************)
DropAll(S) ==
    lease' = [l \in Leases |->
                IF l \in S THEN [lease[l] EXCEPT !.phase = "Unmapped"] ELSE lease[l]]

Unwind ==
    /\ owner.pc = "Unwind"
    /\ \E l \in owner.got : lease[l].phase \in {"Held", "Mapped"}
    /\ DropAll({l \in owner.got : lease[l].phase \in {"Held", "Mapped"}})
    /\ UNCHANGED <<state, activeRegions, activeBytes, owner>>

Unwound ==
    /\ owner.pc = "Unwind"
    /\ \A l \in owner.got : lease[l].phase = "Free"
    /\ owner' = [owner EXCEPT !.pc = "Idle", !.todo = <<>>, !.got = {}]
    /\ UNCHANGED <<state, activeRegions, activeBytes, lease>>

\* ResourceOwner::poison: a compare-exchange that only leaves ACTIVE.
Poisoned(s) == IF s = "Active" THEN "Poisoned" ELSE s

(***************************************************************************)
(* The batch is given up before activation: by a capacity rejection, which *)
(* leaves the session usable, or by a failure, which poisons it.           *)
(***************************************************************************)
AbandonBatch(poison) ==
    /\ owner.pc = "Reserved"
    /\ state' = IF poison THEN Poisoned(state) ELSE state
    /\ Goto("Unwind")
    /\ UNCHANGED <<activeRegions, activeBytes, lease>>

(***************************************************************************)
(* new_leased with LeaseReservation::complete: the reservation becomes the *)
(* mapping's lease when the mapped length is the reserved one and the      *)
(* session is ACTIVE.  Any failure drops the whole batch, with the regions *)
(* already activated, and the dispatcher poisons the session.              *)
(***************************************************************************)
Complete(l, mappedLen) ==
    /\ owner.pc = "Reserved"
    /\ l \in owner.got
    /\ lease[l].phase = "Held"
    /\ IF mappedLen = lease[l].bytes /\ state = "Active"
       THEN /\ lease' = [lease EXCEPT ![l].phase = "Mapped"]
            /\ UNCHANGED <<state, owner>>
       ELSE /\ state' = Poisoned(state)
            /\ Goto("Unwind")
            /\ UNCHANGED lease
    /\ UNCHANGED <<activeRegions, activeBytes>>

\* The active set is handed to the application.
Deliver ==
    /\ owner.pc = "Reserved"
    /\ \A l \in owner.got : lease[l].phase = "Mapped"
    /\ owner' = [owner EXCEPT !.pc = "Idle", !.got = {}]
    /\ UNCHANGED <<state, activeRegions, activeBytes, lease>>

-----------------------------------------------------------------------------
(***************************************************************************)
(* A drop on any thread: LeasedReadOwner and LeasedWriteOwner destroy the  *)
(* mapping and then drop the lease, which returns the bytes and then the   *)
(* region.                                                                 *)
(***************************************************************************)
DestroyMapping(l) ==
    /\ lease[l].phase = "Mapped"
    /\ l \notin owner.got
    /\ lease' = [lease EXCEPT ![l].phase = "Unmapped"]
    /\ UNCHANGED <<state, activeRegions, activeBytes, owner>>

\* A drop that returns the bytes while the mapping is still there.
ReturnBytesFirst(l) ==
    /\ lease[l].phase \in {"Mapped", "Unmapped"}
    /\ l \notin owner.got \/ lease[l].phase = "Unmapped"
    /\ activeBytes' = activeBytes - lease[l].bytes
    /\ lease' = [lease EXCEPT ![l].phase =
                   IF @ = "Mapped" THEN "Mapped" ELSE "BytesReturned"]
    /\ UNCHANGED <<state, activeRegions, owner>>

ReturnBytes(l) ==
    /\ lease[l].phase = "Unmapped"
    /\ activeBytes' = activeBytes - lease[l].bytes
    /\ lease' = [lease EXCEPT ![l].phase = "BytesReturned"]
    /\ UNCHANGED <<state, activeRegions, owner>>

\* A drop that returns only its bytes.
ReturnRegionLeaks(l) ==
    /\ lease[l].phase = "BytesReturned"
    /\ lease' = [lease EXCEPT ![l] = [phase |-> "Free", bytes |-> 0]]
    /\ UNCHANGED <<state, activeRegions, activeBytes, owner>>

ReturnRegion(l) ==
    /\ lease[l].phase = "BytesReturned"
    /\ activeRegions' = activeRegions - 1
    /\ lease' = [lease EXCEPT ![l] = [phase |-> "Free", bytes |-> 0]]
    /\ UNCHANGED <<state, activeBytes, owner>>

-----------------------------------------------------------------------------
\* Dispatcher::poison_both reaches the resources between calls.
Poison ==
    /\ owner.pc = "Idle"
    /\ state' = Poisoned(state)
    /\ UNCHANGED <<activeRegions, activeBytes, lease, owner>>

\* active_lease_facts, alone or as the first half of try_close.
BeginFacts(closing) ==
    /\ owner.pc = "Idle"
    /\ owner' = [owner EXCEPT !.pc = "LoadRegions", !.closing = closing]
    /\ UNCHANGED <<state, activeRegions, activeBytes, lease>>

LoadRegions ==
    /\ owner.pc = "LoadRegions"
    /\ owner' = [owner EXCEPT !.pc = "LoadBytes", !.sawRegions = activeRegions]
    /\ UNCHANGED <<state, activeRegions, activeBytes, lease>>

LoadBytes ==
    /\ owner.pc = "LoadBytes"
    /\ owner' = [owner EXCEPT !.pc = "Facts", !.sawBytes = activeBytes]
    /\ UNCHANGED <<state, activeRegions, activeBytes, lease>>

\* Exactness judged by the bytes alone, which a drop returns first.
FactsAreExactByBytes == owner.sawBytes = 0

\* LeaseFactsConsistency::Exact is reported for two zeros only.
FactsAreExact == owner.sawRegions = 0 /\ owner.sawBytes = 0

FinishFacts ==
    /\ owner.pc = "Facts"
    /\ state' = IF owner.closing /\ FactsAreExact THEN "Closed" ELSE state
    /\ owner' = [owner EXCEPT !.pc = "Idle", !.closing = FALSE,
                              !.sawRegions = 0, !.sawBytes = 0]
    /\ UNCHANGED <<activeRegions, activeBytes, lease>>

\* Drop for ResourceOwner.
DropOwner ==
    /\ owner.pc = "Idle"
    /\ state' = Poisoned(state)
    /\ Goto("Gone")
    /\ UNCHANGED <<activeRegions, activeBytes, lease>>

-----------------------------------------------------------------------------
OwnerStep ==
    \/ \E b \in Batches : BeginBatch(b)
    \/ ReserveCheck
    \/ ChargeRegion
    \/ ChargeBytes
    \/ UndoRegion
    \/ \E l \in Leases : Mint(l)
    \/ \E p \in BOOLEAN : AbandonBatch(p)
    \/ \E l \in Leases, n \in 1..MaxBytes : Complete(l, n)
    \/ Deliver
    \/ Unwind
    \/ Unwound
    \/ Poison
    \/ \E c \in BOOLEAN : BeginFacts(c)
    \/ LoadRegions
    \/ LoadBytes
    \/ FinishFacts
    \/ DropOwner

LeaseStep(l) == DestroyMapping(l) \/ ReturnBytes(l) \/ ReturnRegion(l)

Next == OwnerStep \/ \E l \in Leases : LeaseStep(l)

Spec == Init /\ [][Next]_vars

FairSpec ==
    /\ Spec
    /\ \A l \in Leases : WF_vars(ReturnBytes(l)) /\ WF_vars(ReturnRegion(l))
    /\ WF_vars(OwnerStep)
    /\ SF_vars(BeginFacts(TRUE))

-----------------------------------------------------------------------------
\* What the counters stand for.  A batch between the region charge and the
\* mint owns one region, and after the byte charge its bytes, with no lease yet.
RegionCharged == {l \in Leases : lease[l].phase # "Free"}

ByteCharged == {l \in Leases : lease[l].phase \in {"Held", "Mapped", "Unmapped"}}

MappedLeases == {l \in Leases : lease[l].phase = "Mapped"}

UnmintedRegions == IF owner.pc \in {"Bytes", "UndoRegion", "Recheck"} THEN 1 ELSE 0

UnmintedBytes == IF owner.pc = "Recheck" THEN Head(owner.todo) ELSE 0

\* The pages of a set of leases; its cardinality is their total length.
PagesOf(S) == {p \in S \X (1..MaxBytes) : p[2] <= lease[p[1]].bytes}

(***************************************************************************)
(* Types.  Both counters are naturals: the fetch_sub of a drop or of a     *)
(* rollback never wraps (the debug_asserts of RegionLease::drop).          *)
(***************************************************************************)
TypeInv ==
    /\ state \in States
    /\ activeRegions \in Nat
    /\ activeBytes \in Nat
    /\ lease \in [Leases -> [phase : Phases, bytes : Nat]]
    /\ owner \in [pc : Calls, todo : Seq(Nat), got : SUBSET Leases,
                  closing : BOOLEAN, sawRegions : Nat, sawBytes : Nat]

(***************************************************************************)
(* The negotiated budget bounds what is really mapped: at every moment the *)
(* live mappings of the session, activated by any batch and not yet        *)
(* destroyed by any thread, number at most max_active_regions and cover at *)
(* most max_active_bytes, and the counters never understate them           *)
(* (ResourceOwner::reserve, the drop order of LeasedReadOwner).            *)
(***************************************************************************)
MappedWithinBudget ==
    /\ Cardinality(MappedLeases) <= activeRegions
    /\ activeRegions <= MaxRegions
    /\ Cardinality(PagesOf(MappedLeases)) <= activeBytes
    /\ activeBytes <= MaxBytes

(***************************************************************************)
(* No reservation leaks: whenever the owner is between calls (a batch      *)
(* delivered, rejected half way, abandoned or failed in activation), the   *)
(* counters are exactly the leases the application still holds or is       *)
(* dropping, and no reservation is left (reserve's rollbacks, the early    *)
(* return of reserve_mapped_lengths).                                      *)
(***************************************************************************)
NothingLeaksBetweenCalls ==
    owner.pc \in {"Idle", "Gone"} =>
        /\ \A l \in Leases : lease[l].phase # "Held"
        /\ activeRegions = Cardinality(RegionCharged)
        /\ activeBytes = Cardinality(PagesOf(ByteCharged))

(***************************************************************************)
(* A closed session has no lease: when try_close succeeds on two counters  *)
(* it loaded one after the other, with drops running in between, no        *)
(* mapping is left and no later drop will touch the counters               *)
(* (ResourceOwner::try_close).                                             *)
(***************************************************************************)
ClosedMeansReleased ==
    state = "Closed" =>
        /\ \A l \in Leases : lease[l].phase = "Free"
        /\ activeRegions = 0
        /\ activeBytes = 0

(***************************************************************************)
(* What active_lease_facts reports can only be stale-high, as the comments *)
(* of LeaseFactsConsistency say: the reported numbers are never below the  *)
(* counters, and a report marked Exact is the truth.                       *)
(***************************************************************************)
FactsNeverStaleLow ==
    owner.pc = "Facts" =>
        /\ owner.sawRegions >= activeRegions
        /\ owner.sawBytes >= activeBytes
        /\ FactsAreExact => RegionCharged = {}

(***************************************************************************)
(* The session state only moves forward: ACTIVE to POISONED to CLOSED.     *)
(* Poisoning, by a late failure or by dropping the owner, never reopens a  *)
(* closed session (ResourceOwner::poison is a compare-exchange).           *)
(***************************************************************************)
StateOnlyAdvances ==
    [][/\ state = "Closed" => state' = "Closed"
       /\ state = "Poisoned" => state' # "Active"]_vars

(***************************************************************************)
(* Once every mapping is gone for good, an owner that keeps trying closes  *)
(* the session: no interleaving of late drops with the two loads can make  *)
(* try_close report leases forever.                                        *)
(***************************************************************************)
ReleasedSessionCloses ==
    <>[](MappedLeases = {} /\ owner.got = {})
        => <>(state = "Closed" \/ owner.pc = "Gone")

-----------------------------------------------------------------------------
(***************************************************************************)
(* The inductive invariant behind the safety properties.                   *)
(***************************************************************************)
Accounted ==
    /\ activeRegions = Cardinality(RegionCharged) + UnmintedRegions
    /\ activeBytes = Cardinality(PagesOf(ByteCharged)) + UnmintedBytes
    /\ activeRegions <= MaxRegions
    /\ activeBytes <= MaxBytes

OwnerKnows ==
    /\ \A l \in Leases : lease[l].phase = "Held" => l \in owner.got
    /\ \A l \in Leases : lease[l].bytes <= MaxBytes
    /\ owner.pc \in {"Idle", "Gone", "LoadRegions", "LoadBytes", "Facts"} => owner.got = {}
    /\ owner.pc \in {"Regions", "Bytes", "Recheck"} =>
         owner.todo # <<>> /\ Head(owner.todo) \in 1..MaxBytes
    /\ owner.pc \in {"Regions", "Bytes", "UndoRegion", "Recheck"} => state = "Active"
    /\ owner.pc \in {"LoadBytes", "Facts"} => owner.sawRegions >= activeRegions
    /\ owner.pc = "Facts" => owner.sawBytes >= activeBytes

IInv ==
    /\ TypeInv
    /\ Accounted
    /\ OwnerKnows
    /\ state = "Closed" => RegionCharged = {}
=============================================================================
