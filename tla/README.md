# native-ipc: TLA+ models and proofs

This directory models the protocols of native-ipc, checks them with TLC on
small instances and proves the central ones with TLAPS for every instance. It
is written from the code under `src/`; where a document and the code could be
read differently, the code is what is modelled.

## The system

A host process (the *coordinator*) starts a runner (the *receiver*), agrees on
limits and features with it, and then moves shared-memory regions to it over an
authenticated control channel. Once a region is active both processes use it
without the channel, through slots and acknowledgement cells.

| Part | Source | Model |
|---|---|---|
| Slots and acknowledgements in shared memory | `native-ipc-core/src/slot.rs`, `mapping.rs` | `SlotRing` |
| Session budget and leases of active mappings | `liveness.rs`, `active.rs` | `ResourceLeases` |
| Negotiation of a session | `negotiation.rs`, Linux halves in `linux_vnext/spawn.rs`, `SessionLimits` in `session.rs` | `Negotiation` |
| Region transfer, control records, poisoning | `backend/accepted_control.rs`, `control.rs`, `protocol.rs`, `linux_vnext/memory.rs`, `linux_vnext/spawn.rs` | `Transfer` |
| Exact-child lifecycle on Linux | `linux_vnext/process.rs`, spawn half of `spawn.rs` | `ChildReaper` |
| The end of a session: poll, wait, close, abort, drop | Ready half of `session.rs`, `accepted_control.rs`, `spawn.rs` | `SessionClose` |
| Rest of the public facade | `session.rs`, `lib.rs` | partly, through the calls above |
| Batch and manifest arithmetic | `batch.rs`, `protocol.rs` | partly, in `Transfer` |
| Evidence of an accepted session | `backend/mod.rs` | partly, in `Negotiation` |
| Linux transport and object memory | `linux_vnext.rs`, `linux_vnext/memory.rs` | partly, in `Transfer` |
| Region layout, wire codec | `native-ipc-core/src/layout.rs`, `codec.rs` | not yet |
| Region bindings, wrappers, private memory | `binding.rs`, `region.rs`, `memory.rs`, `external_memory.c` | no state of their own |
| macOS bootstrap and reaper ownership | `macos/bootstrap.rs`, `reaper_ownership.rs` | not yet |
| macOS supervisor, broker, launcher, watchdog, authentication worker | `macos/supervisor*.rs` | not yet |
| macOS and Windows sessions and memory | `macos_vnext/`, `macos.rs`, `windows_vnext/`, `windows.rs` | not yet |

How they meet: `Negotiation` ends where `Transfer` begins, with two Ready
endpoints (or one, whose peer is gone). The negotiated limits are
`MaxRegions` and `MaxBytes` of `ResourceLeases` and the limits of `Transfer`.
`Transfer` charges the ledger one object at a time and treats a reservation as
one step; that this is sound with drops on other threads is what
`ResourceLeases` shows. The regions `Transfer` activates are the memory of
`SlotRing`. `ChildReaper` is what `terminate_and_reap` does wherever the other
modules end the child. `SessionClose` is what is left when the transfers are
over: it takes from `ChildReaper` that the worker follows the strongest request
and that a published status is final, and from `ResourceLeases` that a close
sees every lease.

## Modules

**ResourceLeases.** State: the three atomics of `SharedResources`, the phase of
each lease, the owner's place in its call. One step is one atomic access, so
every drop on another thread falls between any two accesses of `reserve`, of
its rollbacks and of `active_lease_facts`. Bytes are counted in pages.

**SlotRing** and **SlotMailbox.** State: published sequence, length and words of
every slot, the cell routed to it, the writer, the readers. One step is one
access to shared memory; a payload is written and copied word by word. Accesses
are taken as sequentially consistent; the Release stores and Acquire loads of
the sequence and of the cell are what the code has to order the rest. Words hold
the sequence they were written for, so a torn copy shows. `SlotMailbox` is
what a slot promises, and `SlotRing` is shown to implement it.

**Negotiation.** State: each endpoint's place, its offer, its transcript
(facts, challenge, `accepted_roles`), the channel, the child. The reduction of
two offers (`from_hello_pair`, `SessionLimits::negotiate`) is translated as
operators. A digest of two HELLOs is the pair of them; the nonce is fixed for
one spawned pair of sockets and left out; a challenge is fresh, that is,
different from any under way. `EarlyDecision` is the one thing the program in
the child does on its own: it may have put a decision on the channel before the
coordinator decided, the ordering the challenge exists for. A call that has sent
its last frame returns in a step of its own (`CoordinatorReturns`,
`ReceiverReturns`): a deadline between the two fails the call although the
decision is on its way (`AmbiguousAfterSend`), so a coordinator may be Ready
with a receiver that reports a failure.

**Transfer** and **BatchAgreement.** State: per endpoint its place, its control
state (open transaction, next transaction, sequences, poison), its views,
charges and active regions; per object its seals; the two channels. The actions
are the calls `transfer_batch`, `receive_batch`, `send`, `receive`, `poll_peer`
and the drops, cut at every access to the socket or to a shared object. `Fail`
ends a call at any of these points, also just after a record was sent, and
`Exit` ends a process. `BatchAgreement` is what the applications may rely on: it does
not promise that both report the same, because COMMIT is not acknowledged; it
does promise that what is committed is the batch the receiver voted for.
The call poisons first and releases afterwards (`Unwind`), in the code's order.

**ChildReaper.** State: the atomics, mutexes and the unpark token of
`LifecycleShared`, the worker's and the owner's place, and a small kernel: the
child, one descendant in its group, and whether its PID names a stranger. One
step is one system call, one atomic access or one critical section. The branch
of `arm` for a PID that is not positive is left out: a successful clone never
returns one to the parent.

**SessionClose.** State: per side the place of the thread that owns the session,
the poison of control state and transport, the flag the mappings share, the
number of mappings, the endpoint and the last outcome; the child, and the
worker's request, `finished` and terminal fault. The worker publishes the status
and stores `finished` in two steps: an owner that is told Closed in between runs
the lifecycle's destructor with `finished` unset, which asks for the termination
of a child that is already reaped. The calls are cut where another process or
thread can see between: before and after a wait, between the poison and the
signal of an abort, between the fields a drop runs over. A transfer is one step
that gives each side a mapping. The backend is the one of Linux; the facade is
the same for all.

## Runs

| Run | Instance | What it shows |
|---|---|---|
| `leases` | 3 leases, 2 regions, 3 pages | budget respected, nothing leaked, closed means released, facts never low, a released session can be closed |
| `slots` | 2 slots of 2 words, sequences to 5 | one mailbox per slot over three laps |
| `slots_observers` | 1 slot, 3 readers, sequences to 3 | whole copies and reuse only when acknowledged, with readers that may be overtaken |
| `slots_live` | 2 slots of 1 word, sequences to 4 | no slot is wedged before the last sequence |
| `negotiation` | 5 offers on each side, 2 challenges, 2 reasons | Ready is mutual, the receiver follows the coordinator, rejections are true, facts within both offers, no child is left by a negotiation that is not Ready, both calls return |
| `transfer` | 2 transactions, 3 batches, 2 active regions, sequences to 2 | one writer, sealed regions, nothing held, agreement of Ready sessions, poison before release, refinement of `BatchAgreement` |
| `stream` | 2 transactions, 2 batches, 1 active region, sequences to 4 | application records in order, without gap or repetition, beside transfers and failures |
| `transfer_live` | as `transfer`, no failures | matched transfers complete |
| `reaper` | faults, deadlines and another waiter | reports are true and final, the group signal reaches no stranger, no wakeup is lost |
| `reaper_report` | no faults | expected violation, see Findings |
| `close` | 2 mappings on each side | Closed means reaped and released, only giving up kills, the lease check outlives the wait, mappings are told before the child is signalled and when their session is gone, retried closes complete, no child is left |

`stream` is a run of its own because three records in each direction with the
batches of `transfer` are too many states; `transfer_live` because it is a
statement about transfers without failures; `slots_live` because fairness makes
the larger ring too slow.

**Bounds.** The leases meet the region limit, the byte limit, a zero and an
over-long length, alone and as the second of a pair. Five sequences over two
slots are three laps of one slot and the last sequence before the maximum.
Two transactions let every result of one transfer precede another, and two
active regions make the second meet the limit at either end; one region in each
direction covers the transfer with and without the IMPORTED and SEALED round.
Four as the last sequence leaves three records in each direction: one can be
lost, repeated or overtaken and still be followed by another.
The offers of a negotiation differ in each thing the reduction looks at: limits
crossing each other, a required width the other side lacks, an unknown
feature, another target. One early record is enough to stand before the answer.
Two mappings let one be dropped while a close still finds another. In
`ChildReaper` nothing is bounded: it is finite.

**Deadlock** is checked for the ring, which always can go on. The other systems
stop: sessions end, endpoints exit, the lifecycle is over.

**Fairness.** Threads run, so a call that has begun goes on to its next access
(weak fairness). `leases` assumes an owner that keeps trying to close, and
`slots_live` applications that keep using the ring: a writer that observes and
publishes and a consumer that reads and acknowledges, in every slot (strong
fairness, because these calls are enabled only between others).
`reaper` assumes that a system call the worker retries is not interrupted
every time (strong fairness) and that a killed child dies. The negotiation
assumes that the applications decide and that a signalled child ends. `close`
assumes that deadlines pass, that the worker does what it was asked, and an
owner that tries to close again; nothing makes its child exit or its mappings
go away. Elsewhere nothing is assumed of failures, deadlines or exits: a terminate call of `reaper` must
return without its deadline, and a call of `negotiation` that waits must return
without failing by itself.

## Proofs

`ResourceLeasesProofs` proves, for every set of leases, limit and batch, all
safety properties of the run `leases`, and that the session state only moves
forward. The inductive invariant `IInv` adds what
the properties do not say: the counters are exactly the charges of the leases
plus what the current call has charged without a lease for it yet
(`Accounted`), and what the owner knows at each place of its call
(`OwnerKnows`). Sums of bytes are cardinalities of sets of pages, so the
arguments are about finite sets. Assumption: `LimitsAssumption` (finite leases,
positive limits).

`SlotRingProofs` proves, for every number of slots, capacity, maximum sequence
and set of readers, all safety properties of the runs `slots` and
`slots_observers`, the refinement of `SlotMailbox` included. `IInv` says that observations lag cells and cells lag
publications, that a slot being written is acknowledged and holds the words
written so far, that an unacknowledged slot is whole, and that what a reader
holds is a prefix of it until it is acknowledged. Assumption: `RingAssumption`.

`SessionCloseProofs` proves, for every number of mappings, all safety properties
of the run `close`. `IInv` adds that a session is at an ending place exactly
when it has an ending, that termination is asked for only from such a place,
that a call between its lease check and its close holds no mapping, that an
abort has marked its mappings, and that `finished` follows the published status
(`EndingIsKnown`, `PlacesRelyOn`). With Closed meaning reaped, this gives
`OnlyGivingUpKills` in spite of the destructor that runs between the worker's
two stores. Assumption: `LeasesAssumption`.

Only model-checked: all liveness properties, and so far every property of
`Negotiation`, `Transfer` and `ChildReaper`.

## Findings

`reaper_report`: `await_exec_result` takes the end of the exec-error pipe for a
successful exec and records a fresh session before it looks whether the child
is alive. A child that ends silently before `setsid` closes the pipe the same
way and is reported as `FreshGroupUnverified`, whose documentation says that a
fresh process group existed.

## Not modelled

Bytes of frames and manifests (equality stands for them), credentials and image
identity (checks that either pass or fail the call), placement and guard pages
of mappings, memory weaker than sequential consistency, and the parts the table
marks. `terminate_and_reap` leaves the ledger unpoisoned and some encoding
errors poison the control state only; both end the session and are modelled as
poisoning the endpoint.

## Plan

1. `ReaperOwnership`: the shared token of the macOS bootstrap reaper, and the
   bootstrap's use of it.
2. Transfer variants: macOS (no sealing round) and Windows (duplicated handles),
   as separate modules refining `BatchAgreement`.
3. macOS supervisor: broker, launcher, watchdog and authentication worker as
   processes with deadlines, reports and kills.
4. `Layout` and `Manifest`: ranges, routes, limits and decode-of-encode as
   operators, checked over bounded inputs against reference definitions.
5. Proofs: mutual readiness for `Negotiation` (the transcripts as functions of
   what is under way) and that negotiated limits are valid; `OneWriter`,
   `ActiveRegionsAreSealed` and the refinement for `Transfer`;
   `ReportedExitIsFinal` and `GroupSignalNeverStrays` for `ChildReaper`.
