------------------------------ MODULE Transfer ------------------------------
(***************************************************************************)
(* One region transfer over an accepted session (accepted_control.rs, with *)
(* the sequencing of control.rs, the sealing of linux_vnext/memory.rs and  *)
(* the Linux calls transfer_batch and receive_batch of spawn.rs).          *)
(*                                                                         *)
(* The coordinator offers a batch; the receiver answers whether it has the *)
(* capacity; the coordinator sends the capabilities; if the receiver is to *)
(* write any region it imports first (IMPORTED) and the coordinator seals  *)
(* afterwards (SEALED); READY and COMMIT close the transaction and each    *)
(* endpoint activates its mappings.  Each endpoint runs one call at a time *)
(* (`&mut self`), so between two accesses to the socket or to a shared     *)
(* object a call is one step.                                              *)
(*                                                                         *)
(* Every call has a deadline.  Fail stands for whatever ends a call early: *)
(* the deadline before or after a record is sent or received, a native     *)
(* error, the end of the peer.  Poisoning is local: nothing is sent.       *)
(*                                                                         *)
(* Data: a frame is its kind, transaction and batch, because every frame   *)
(* of a transaction is compared byte for byte with the one derived from    *)
(* the manifest.  A region is its name and the endpoint that will write.   *)
(***************************************************************************)
EXTENDS Integers, Sequences, FiniteSets

CONSTANTS
    Batches,          \* the batches the applications may transfer or expect
    ReceiverWrites,   \* the regions whose WriterEndpoint is the receiver
    MaxTransactions,  \* SessionLimits.max_transactions
    MaxActive,        \* SessionLimits.max_active_regions
    MaxSequence,      \* u64::MAX of the application sequence, scaled down
    MayFail           \* whether calls may fail and endpoints may end

ASSUME TransferAssumption ==
    /\ \A b \in Batches : IsFiniteSet(b) /\ b # {}
    /\ MaxTransactions \in Nat \ {0}
    /\ MaxActive \in Nat
    /\ MaxSequence \in Nat \ {0}
    /\ MayFail \in BOOLEAN

C == "coordinator"
R == "receiver"
Ends == {C, R}
Peer(e) == IF e = C THEN R ELSE C

Transactions == 1..MaxTransactions
Objects == Transactions \X UNION Batches
ObjectsOf(t, b) == {t} \X b
Writer(o) == IF o[2] \in ReceiverWrites THEN R ELSE C

VARIABLES
    pc,        \* each endpoint's place in its call
    work,      \* the transaction each endpoint is in: number, batch, capacity status
    poisoned,  \* ControlState.poisoned, the transport's and the resources' alike
    open,      \* ControlState.transaction_open
    nextTxn,   \* Dispatcher.next_transaction
    nextSend,  \* ControlState.next_send
    nextRecv,  \* ControlState.next_receive
    chan,      \* the records on their way to each endpoint, oldest first
    socket,    \* whether each endpoint still holds its end of the socket
    seals,     \* the seals of each shared object
    view,      \* each endpoint's mapping of each object: None, RO or RW
    charged,   \* the objects each endpoint's ledger is charged for
    active,    \* the objects each application holds as active regions
    vote,      \* history: READY frames sent, per transaction
    decision,  \* history: COMMIT and capacity refusals sent
    outcome    \* history: what each endpoint reported of each transaction

control == <<open, nextTxn>>
stream == <<nextSend, nextRecv>>
memory == <<seals, view, charged, active>>
history == <<vote, decision>>
vars == <<pc, work, poisoned, open, nextTxn, nextSend, nextRecv, chan, socket,
          seals, view, charged, active, vote, decision, outcome>>

Statuses == {"Ready", "ActiveLimit", "PreparationFailed"}
NoWork == [txn |-> 0, batch |-> {}, status |-> "Ready"]

Frame(kind, e) == [kind |-> kind, txn |-> work[e].txn, batch |-> work[e].batch]
Application(n) == [kind |-> "Application", txn |-> n, batch |-> {}]

Mine(e) == ObjectsOf(work[e].txn, work[e].batch)

\* A receiver that always runs the IMPORTED round.
NeedsSealingAtReceiver(e) == e = R \/ \E o \in Mine(e) : Writer(o) = R

NeedsSealing(e) == \E o \in Mine(e) : Writer(o) = R

Init ==
    /\ pc = [e \in Ends |-> "Idle"]
    /\ work = [e \in Ends |-> NoWork]
    /\ poisoned = [e \in Ends |-> FALSE]
    /\ open = [e \in Ends |-> FALSE]
    /\ nextTxn = [e \in Ends |-> 1]
    /\ nextSend = [e \in Ends |-> 1]
    /\ nextRecv = [e \in Ends |-> 1]
    /\ chan = [e \in Ends |-> <<>>]
    /\ socket = [e \in Ends |-> TRUE]
    /\ seals = [o \in Objects |-> "None"]
    /\ view = [e \in Ends |-> [o \in Objects |-> "None"]]
    /\ charged = [e \in Ends |-> {}]
    /\ active = [e \in Ends |-> {}]
    /\ vote = [t \in Transactions |-> {}]
    /\ decision = [t \in Transactions |-> [kind |-> "Open", batch |-> {}]]
    /\ outcome = [e \in Ends |-> [t \in Transactions |-> "Pending"]]

-----------------------------------------------------------------------------
(***************************************************************************)
(* How a step of a call continues: at another place, or poisoned and       *)
(* unwinding.  poison_both comes first; what the call holds is dropped     *)
(* only then.                                                              *)
(***************************************************************************)
Goto(e, place) ==
    /\ pc' = [pc EXCEPT ![e] = place]
    /\ UNCHANGED <<poisoned, outcome>>

PoisonAndUnwind(e) ==
    /\ poisoned' = [poisoned EXCEPT ![e] = TRUE]
    /\ pc' = [pc EXCEPT ![e] = "Unwind"]
    /\ outcome' = [outcome EXCEPT ![e][work[e].txn] = "Failed"]

\* A refusal that returns without end_transaction.
EndRefusedLeftOpen(e) ==
    /\ pc' = [pc EXCEPT ![e] = "Unwind"]
    /\ outcome' = [outcome EXCEPT ![e][work[e].txn] = "Refused"]
    /\ UNCHANGED <<open, poisoned, nextTxn>>

\* end_transaction after a capacity refusal: the session stays Ready.
EndRefused(e) ==
    /\ open' = [open EXCEPT ![e] = FALSE]
    /\ pc' = [pc EXCEPT ![e] = "Unwind"]
    /\ outcome' = [outcome EXCEPT ![e][work[e].txn] = "Refused"]
    /\ UNCHANGED <<poisoned, nextTxn>>

\* poison_both between calls.
PoisonIdle(e) ==
    /\ poisoned' = [poisoned EXCEPT ![e] = TRUE]
    /\ UNCHANGED <<pc, work, control, stream, chan, socket, memory, history, outcome>>

\* send_record with the endpoint's frame of the given kind.
Send(e, place, kind, next) ==
    /\ pc[e] = place
    /\ socket[Peer(e)]
    /\ chan' = [chan EXCEPT ![Peer(e)] = Append(@, Frame(kind, e))]
    /\ Goto(e, next)
    /\ UNCHANGED <<work, control, stream, socket, memory>>

\* receive_record of exactly one frame: anything else poisons.
Await(e, place, kind, next) ==
    /\ pc[e] = place
    /\ chan[e] # <<>>
    /\ chan' = [chan EXCEPT ![e] = Tail(@)]
    /\ IF Head(chan[e]) = Frame(kind, e) THEN Goto(e, next) ELSE PoisonAndUnwind(e)
    /\ UNCHANGED <<work, control, stream, socket, memory, history>>

\* An early return that does not poison.
FailQuietly(e) ==
    /\ MayFail
    /\ pc[e] \notin {"Idle", "Prepare", "Unwind", "Gone"}
    /\ pc' = [pc EXCEPT ![e] = "Unwind"]
    /\ outcome' = [outcome EXCEPT ![e][work[e].txn] = "Failed"]
    /\ UNCHANGED <<poisoned, work, control, stream, chan, socket, memory, history>>

\* An early end of the call.  The local preparation before the offer reports
\* its failures in the offer instead.
Fail(e) ==
    /\ MayFail
    /\ pc[e] \notin {"Idle", "Prepare", "Unwind", "Gone"}
    /\ PoisonAndUnwind(e)
    /\ UNCHANGED <<work, control, stream, chan, socket, memory, history>>

\* Mappings dropped, reservations forgotten.
UnwindKeepsCharge(e) ==
    /\ pc[e] = "Unwind"
    /\ view' = [view EXCEPT ![e] =
                  [o \in Objects |-> IF o \in Mine(e) THEN "None" ELSE @[o]]]
    /\ work' = [work EXCEPT ![e] = NoWork]
    /\ Goto(e, "Idle")
    /\ UNCHANGED <<control, stream, chan, socket, seals, charged, active, history>>

\* The call's owners are dropped: mappings, then reservations.
Unwind(e) ==
    /\ pc[e] = "Unwind"
    /\ view' = [view EXCEPT ![e] =
                  [o \in Objects |-> IF o \in Mine(e) THEN "None" ELSE @[o]]]
    /\ charged' = [charged EXCEPT ![e] = @ \ Mine(e)]
    /\ work' = [work EXCEPT ![e] = NoWork]
    /\ Goto(e, "Idle")
    /\ UNCHANGED <<control, stream, chan, socket, seals, active, history>>

\* enter_native_transaction, and the exhausted session it poisons instead.
Enter(e, b, place) ==
    /\ pc[e] = "Idle"
    /\ ~poisoned[e]
    /\ nextTxn[e] <= MaxTransactions
    /\ ~open[e]
    /\ open' = [open EXCEPT ![e] = TRUE]
    /\ nextTxn' = [nextTxn EXCEPT ![e] = @ + 1]
    /\ work' = [work EXCEPT ![e] = [txn |-> nextTxn[e], batch |-> b, status |-> "Ready"]]
    /\ Goto(e, place)
    /\ UNCHANGED <<stream, chan, socket, history>>

EnterRefused(e) ==
    /\ pc[e] = "Idle"
    /\ ~poisoned[e]
    /\ nextTxn[e] > MaxTransactions \/ open[e]
    /\ PoisonIdle(e)

-----------------------------------------------------------------------------
(***************************************************************************)
(* The coordinator: transfer_batch.                                        *)
(***************************************************************************)

\* begin_native_transaction.  The batch's regions exist and are mapped
\* writable since the application filled them.
BeginTransfer(b) ==
    /\ Enter(C, b, "Prepare")
    /\ view' = [view EXCEPT ![C] =
                  [o \in Objects |-> IF o \in ObjectsOf(nextTxn[C], b) THEN "RW" ELSE @[o]]]
    /\ UNCHANGED <<seals, charged, active>>

HasCapacity(e) == Cardinality(charged[e]) + Cardinality(Mine(e)) <= MaxActive

SealsWhenSent(o) == IF Writer(o) = C THEN "Final" ELSE "Prefix"

\* Preparation that leaves the coordinator's writable view of every region.
ViewWhenSentKept(o) == "RW"

\* The coordinator destroys its writable view of what the receiver will write.
ViewWhenSent(o) == IF Writer(o) = C THEN "RW" ELSE "None"

\* reserve_linux_transfer_batch and LinuxMixedDirectionBatch::prepare.
PrepareBatch(status) ==
    /\ pc[C] = "Prepare"
    /\ IF HasCapacity(C)
       THEN status = "Ready" \/ (status = "PreparationFailed" /\ MayFail)
       ELSE status = "ActiveLimit"
    /\ charged' = [charged EXCEPT ![C] = IF HasCapacity(C) THEN @ \cup Mine(C) ELSE @]
    /\ seals' = [o \in Objects |->
                   IF o \in Mine(C) /\ status = "Ready" THEN SealsWhenSent(o) ELSE seals[o]]
    /\ view' = [view EXCEPT ![C] =
                  [o \in Objects |->
                     IF o \notin Mine(C) THEN @[o]
                     ELSE IF status = "Ready" THEN ViewWhenSent(o) ELSE "None"]]
    /\ work' = [work EXCEPT ![C].status = status]
    /\ Goto(C, "Offer")
    /\ UNCHANGED <<control, stream, chan, socket, active, history>>

OfferKind(status) ==
    CASE status = "Ready" -> "OfferReady"
      [] status = "ActiveLimit" -> "OfferActiveLimit"
      [] status = "PreparationFailed" -> "OfferPreparationFailed"

\* exchange_public_linux_transfer_capacity.
SendOffer ==
    /\ Send(C, "Offer", OfferKind(work[C].status), "AwaitResponse")
    /\ UNCHANGED history

\* A wait for the response that throws stray application records away.
ReceiveResponseSkippingStray ==
    /\ pc[C] = "AwaitResponse"
    /\ chan[C] # <<>>
    /\ chan' = [chan EXCEPT ![C] = Tail(@)]
    /\ IF Head(chan[C]) = Frame("CapacityRefused", C)
       THEN EndRefused(C)
       ELSE /\ IF Head(chan[C]).kind = "Application"
               THEN Goto(C, "AwaitResponse")
               ELSE Goto(C, "SendCapability")
            /\ UNCHANGED control
    /\ UNCHANGED <<work, stream, socket, memory, history>>

ReceiveResponse ==
    /\ pc[C] = "AwaitResponse"
    /\ chan[C] # <<>>
    /\ chan' = [chan EXCEPT ![C] = Tail(@)]
    /\ IF Head(chan[C]) = Frame("CapacityRefused", C)
       THEN EndRefused(C)
       ELSE /\ IF Head(chan[C]) = Frame("CapacityReady", C) /\ work[C].status = "Ready"
               THEN Goto(C, "SendCapability")
               ELSE PoisonAndUnwind(C)
            /\ UNCHANGED control
    /\ UNCHANGED <<work, stream, socket, memory, history>>

\* COMMIT right after the capabilities when nothing is left to seal.
SendCapabilityAndCommit ==
    /\ Send(C, "SendCapability", "Capability",
            IF NeedsSealing(C) THEN "AwaitImported" ELSE "SendCommit")
    /\ UNCHANGED history

\* LinuxCoordinatorMixedDirectionTransaction::prepare.
SendCapability ==
    /\ Send(C, "SendCapability", "Capability",
            IF NeedsSealing(C) THEN "AwaitImported" ELSE "AwaitReady")
    /\ UNCHANGED history

AwaitImported == Await(C, "AwaitImported", "Imported", "Seal")

ToSeal == {o \in Mine(C) : Writer(o) = R}

\* seal_after_import: every receiver-written object is final-sealed before the
\* coordinator maps the first of them.
SealAfterImport ==
    /\ pc[C] = "Seal"
    /\ seals' = [o \in Objects |-> IF o \in ToSeal THEN "Final" ELSE seals[o]]
    /\ view' = [view EXCEPT ![C] =
                  [o \in Objects |-> IF o \in ToSeal THEN "RO" ELSE @[o]]]
    /\ Goto(C, "SendSealed")
    /\ UNCHANGED <<work, control, stream, chan, socket, charged, active, history>>

\* Its failures: some objects sealed or, after all are, some of them mapped.
SealFails(sealed, mapped) ==
    /\ MayFail
    /\ pc[C] = "Seal"
    /\ mapped # {} => sealed = ToSeal
    /\ seals' = [o \in Objects |-> IF o \in sealed THEN "Final" ELSE seals[o]]
    /\ view' = [view EXCEPT ![C] =
                  [o \in Objects |-> IF o \in mapped THEN "RO" ELSE @[o]]]
    /\ PoisonAndUnwind(C)
    /\ UNCHANGED <<work, control, stream, chan, socket, charged, active, history>>

SendSealed ==
    /\ Send(C, "SendSealed", "Sealed", "AwaitReady")
    /\ UNCHANGED history

\* LinuxCoordinatorMixedDirectionTransaction::commit.
AwaitReady == Await(C, "AwaitReady", "Ready", "SendCommit")

SendCommit ==
    /\ Send(C, "SendCommit", "Commit", "Activate")
    /\ decision' = [decision EXCEPT ![work[C].txn] =
                        [kind |-> "Committed", batch |-> work[C].batch]]
    /\ UNCHANGED vote

-----------------------------------------------------------------------------
(***************************************************************************)
(* The receiver: receive_batch.                                            *)
(***************************************************************************)

\* begin_public_linux_expected_mixed_direction_batch, up to the first wait.
BeginReceive(b) ==
    /\ Enter(R, b, "AwaitOffer")
    /\ UNCHANGED memory

ReceiveOffer ==
    /\ pc[R] = "AwaitOffer"
    /\ chan[R] # <<>>
    /\ chan' = [chan EXCEPT ![R] = Tail(@)]
    /\ \/ /\ Head(chan[R]) = Frame("OfferReady", R)
          /\ charged' = [charged EXCEPT ![R] = IF HasCapacity(R) THEN @ \cup Mine(R) ELSE @]
          /\ work' = [work EXCEPT ![R].status =
                        IF HasCapacity(R) THEN "Ready" ELSE "ActiveLimit"]
          /\ Goto(R, "Respond")
       \/ \E s \in Statuses \ {"Ready"} :
          /\ Head(chan[R]) = Frame(OfferKind(s), R)
          /\ work' = [work EXCEPT ![R].status = s]
          /\ Goto(R, "Respond")
          /\ UNCHANGED charged
       \/ /\ \A s \in Statuses : Head(chan[R]) # Frame(OfferKind(s), R)
          /\ PoisonAndUnwind(R)
          /\ UNCHANGED <<charged, work>>
    /\ UNCHANGED <<control, stream, socket, seals, view, active, history>>

\* The capacity response; a refusal ends the transaction here.
Respond ==
    IF work[R].status = "Ready"
    THEN /\ Send(R, "Respond", "CapacityReady", "AwaitCapability")
         /\ UNCHANGED history
    ELSE /\ Send(R, "Respond", "CapacityRefused", "Refused")
         /\ decision' = [decision EXCEPT ![work[R].txn] =
                             [kind |-> "Refused", batch |-> {}]]
         /\ UNCHANGED vote

ConcludeRefusal ==
    /\ pc[R] = "Refused"
    /\ EndRefused(R)
    /\ UNCHANGED <<work, stream, chan, socket, memory, history>>

\* An import that maps every object writable.
ViewWhenImportedWritable(o) == "RW"

ViewWhenImported(o) == IF Writer(o) = R THEN "RW" ELSE "RO"

\* LinuxReceiverMixedDirectionTransaction::prepare: the capability record and
\* the import, which insists on the exact seals of each direction.
ReceiveCapability ==
    /\ pc[R] = "AwaitCapability"
    /\ chan[R] # <<>>
    /\ chan' = [chan EXCEPT ![R] = Tail(@)]
    /\ IF Head(chan[R]) = Frame("Capability", R)
            /\ \A o \in Mine(R) : seals[o] = SealsWhenSent(o)
       THEN /\ view' = [view EXCEPT ![R] =
                          [o \in Objects |->
                             IF o \in Mine(R) THEN ViewWhenImported(o) ELSE @[o]]]
            /\ Goto(R, IF NeedsSealing(R) THEN "SendImported" ELSE "Verify")
       ELSE /\ PoisonAndUnwind(R)
            /\ UNCHANGED view
    /\ UNCHANGED <<work, control, stream, socket, seals, charged, active, history>>

\* An import that fails after mapping some of the objects.
ImportFails(mapped) ==
    /\ MayFail
    /\ pc[R] = "AwaitCapability"
    /\ chan[R] # <<>>
    /\ Head(chan[R]) = Frame("Capability", R)
    /\ chan' = [chan EXCEPT ![R] = Tail(@)]
    /\ view' = [view EXCEPT ![R] =
                  [o \in Objects |-> IF o \in mapped THEN ViewWhenImported(o) ELSE @[o]]]
    /\ PoisonAndUnwind(R)
    /\ UNCHANGED <<work, control, stream, socket, seals, charged, active, history>>

SendImported ==
    /\ Send(R, "SendImported", "Imported", "AwaitSealed")
    /\ UNCHANGED history

AwaitSealed == Await(R, "AwaitSealed", "Sealed", "Verify")

FinalSealed(e) == \A o \in Mine(e) : seals[o] = "Final" /\ view[e][o] # "None"

\* verify_final_seals.
Verify ==
    /\ pc[R] = "Verify"
    /\ IF FinalSealed(R) THEN Goto(R, "SendReady") ELSE PoisonAndUnwind(R)
    /\ UNCHANGED <<work, control, stream, chan, socket, memory, history>>

\* LinuxReceiverMixedDirectionTransaction::commit.
SendReady ==
    /\ Send(R, "SendReady", "Ready", "AwaitCommit")
    /\ vote' = [vote EXCEPT ![work[R].txn] = work[R].batch]
    /\ UNCHANGED decision

AwaitCommit == Await(R, "AwaitCommit", "Commit", "Activate")

-----------------------------------------------------------------------------
\* end_transaction, activation_specs and activate_linux_regions: the whole
\* batch or nothing.
Activate(e) ==
    /\ pc[e] = "Activate"
    /\ open' = [open EXCEPT ![e] = FALSE]
    /\ IF FinalSealed(e)
       THEN /\ active' = [active EXCEPT ![e] = @ \cup Mine(e)]
            /\ outcome' = [outcome EXCEPT ![e][work[e].txn] = "Active"]
            /\ work' = [work EXCEPT ![e] = NoWork]
            /\ pc' = [pc EXCEPT ![e] = "Idle"]
            /\ UNCHANGED poisoned
       ELSE /\ PoisonAndUnwind(e)
            /\ UNCHANGED <<active, work>>
    /\ UNCHANGED <<nextTxn, stream, chan, socket, seals, view, charged, history>>

\* The application drops an active region, on any thread and at any time.
DropRegion(e, o) ==
    /\ o \in active[e]
    /\ active' = [active EXCEPT ![e] = @ \ {o}]
    /\ view' = [view EXCEPT ![e][o] = "None"]
    /\ charged' = [charged EXCEPT ![e] = @ \ {o}]
    /\ UNCHANGED <<pc, work, poisoned, control, stream, chan, socket, seals, history, outcome>>

-----------------------------------------------------------------------------
(***************************************************************************)
(* Application control and the end of a session.                           *)
(***************************************************************************)

\* A send that does not look for an exhausted sequence.
SendControlUnbounded(e) ==
    /\ pc[e] = "Idle"
    /\ ~poisoned[e]
    /\ chan' = [chan EXCEPT ![Peer(e)] = Append(@, Application(nextSend[e]))]
    /\ nextSend' = [nextSend EXCEPT ![e] = (@ + 1) % (MaxSequence + 1)]
    /\ UNCHANGED <<pc, work, poisoned, control, nextRecv, socket, memory, history, outcome>>

\* send_parts; encode_parts_into has taken the sequence before the record goes.
SendControl(e) ==
    /\ pc[e] = "Idle"
    /\ ~poisoned[e]
    /\ IF open[e] \/ nextSend[e] = MaxSequence
       THEN PoisonIdle(e)
       ELSE /\ socket[Peer(e)]
            /\ chan' = [chan EXCEPT ![Peer(e)] = Append(@, Application(nextSend[e]))]
            /\ nextSend' = [nextSend EXCEPT ![e] = @ + 1]
            /\ UNCHANGED <<pc, work, poisoned, control, nextRecv, socket, memory,
                           history, outcome>>

\* A failed send after which the session goes on with the next sequence.
SendControlFailsReady(e, gone) ==
    /\ MayFail \/ ~socket[Peer(e)]
    /\ pc[e] = "Idle"
    /\ ~poisoned[e]
    /\ ~open[e] /\ nextSend[e] < MaxSequence
    /\ gone => socket[Peer(e)]
    /\ chan' = IF gone
               THEN [chan EXCEPT ![Peer(e)] = Append(@, Application(nextSend[e]))]
               ELSE chan
    /\ nextSend' = [nextSend EXCEPT ![e] = @ + 1]
    /\ UNCHANGED <<pc, work, poisoned, control, nextRecv, socket, memory, history, outcome>>

\* A send that fails, before the record has gone or, at the deadline, after.
SendControlFails(e, gone) ==
    /\ MayFail \/ ~socket[Peer(e)]
    /\ pc[e] = "Idle"
    /\ ~poisoned[e]
    /\ ~open[e] /\ nextSend[e] < MaxSequence
    /\ gone => socket[Peer(e)]
    /\ chan' = IF gone
               THEN [chan EXCEPT ![Peer(e)] = Append(@, Application(nextSend[e]))]
               ELSE chan
    /\ nextSend' = [nextSend EXCEPT ![e] = @ + 1]
    /\ poisoned' = [poisoned EXCEPT ![e] = TRUE]
    /\ UNCHANGED <<pc, work, control, nextRecv, socket, memory, history, outcome>>

\* receive: a record of the transaction protocol, or out of order, poisons.
ReceiveControl(e) ==
    /\ pc[e] = "Idle"
    /\ ~poisoned[e]
    /\ chan[e] # <<>>
    /\ chan' = [chan EXCEPT ![e] = Tail(@)]
    /\ IF ~open[e] /\ Head(chan[e]) = Application(nextRecv[e])
       THEN nextRecv' = [nextRecv EXCEPT ![e] = @ + 1] /\ UNCHANGED poisoned
       ELSE poisoned' = [poisoned EXCEPT ![e] = TRUE] /\ UNCHANGED nextRecv
    /\ UNCHANGED <<pc, work, control, nextSend, socket, memory, history, outcome>>

\* A receive that fails; what was under way is never read.
ReceiveControlFails(e) ==
    /\ MayFail
    /\ pc[e] = "Idle"
    /\ ~poisoned[e]
    /\ PoisonIdle(e)

\* try_poll_peer and the waits for the peer's end.
PollPeer(e) ==
    /\ pc[e] = "Idle"
    /\ ~poisoned[e]
    /\ ~socket[Peer(e)]
    /\ PoisonIdle(e)

\* abort, or the session is dropped: the socket closes, the regions stay.
DropSession(e) ==
    /\ MayFail
    /\ pc[e] = "Idle"
    /\ pc' = [pc EXCEPT ![e] = "Gone"]
    /\ poisoned' = [poisoned EXCEPT ![e] = TRUE]
    /\ socket' = [socket EXCEPT ![e] = FALSE]
    /\ chan' = [chan EXCEPT ![e] = <<>>]
    /\ UNCHANGED <<work, control, stream, memory, history, outcome>>

\* The process ends, wherever it is.
Exit(e) ==
    /\ MayFail
    /\ pc[e] # "Gone" \/ active[e] # {}
    /\ pc' = [pc EXCEPT ![e] = "Gone"]
    /\ poisoned' = [poisoned EXCEPT ![e] = TRUE]
    /\ outcome' = [outcome EXCEPT ![e] =
                     [t \in Transactions |->
                        IF t = work[e].txn /\ @[t] = "Pending" THEN "Failed" ELSE @[t]]]
    /\ socket' = [socket EXCEPT ![e] = FALSE]
    /\ chan' = [chan EXCEPT ![e] = <<>>]
    /\ view' = [view EXCEPT ![e] = [o \in Objects |-> "None"]]
    /\ charged' = [charged EXCEPT ![e] = {}]
    /\ active' = [active EXCEPT ![e] = {}]
    /\ work' = [work EXCEPT ![e] = NoWork]
    /\ UNCHANGED <<control, stream, seals, history>>

-----------------------------------------------------------------------------
CoordinatorStep ==
    \/ \E s \in Statuses : PrepareBatch(s)
    \/ SendOffer
    \/ ReceiveResponse
    \/ SendCapability
    \/ AwaitImported
    \/ SealAfterImport
    \/ \E s, m \in SUBSET ToSeal : SealFails(s, m)
    \/ SendSealed
    \/ AwaitReady
    \/ SendCommit

ReceiverStep ==
    \/ ReceiveOffer
    \/ Respond
    \/ ConcludeRefusal
    \/ ReceiveCapability
    \/ \E m \in SUBSET Mine(R) : ImportFails(m)
    \/ SendImported
    \/ AwaitSealed
    \/ Verify
    \/ SendReady
    \/ AwaitCommit

\* The rest of a call that has begun.
CallStep(e) ==
    \/ e = C /\ CoordinatorStep
    \/ e = R /\ ReceiverStep
    \/ Activate(e)
    \/ Fail(e)
    \/ Unwind(e)

Begin ==
    \/ \E b \in Batches : BeginTransfer(b) \/ BeginReceive(b)
    \/ \E e \in Ends : EnterRefused(e)

SessionStep(e) ==
    \/ SendControl(e)
    \/ \E gone \in BOOLEAN : SendControlFails(e, gone)
    \/ ReceiveControl(e)
    \/ ReceiveControlFails(e)
    \/ PollPeer(e)
    \/ DropSession(e)
    \/ Exit(e)
    \/ \E o \in Objects : DropRegion(e, o)

Next == Begin \/ \E e \in Ends : CallStep(e) \/ SessionStep(e)

Spec == Init /\ [][Next]_vars

\* A call that can continue does: the threads run and records arrive.
FairSpec == Spec /\ \A e \in Ends : WF_vars(CallStep(e))

-----------------------------------------------------------------------------
Places == {"Idle", "Prepare", "Offer", "AwaitResponse", "SendCapability", "AwaitImported",
           "Seal", "SendSealed", "AwaitReady", "SendCommit", "AwaitOffer", "Respond",
           "Refused", "AwaitCapability", "SendImported", "AwaitSealed", "Verify",
           "SendReady", "AwaitCommit", "Activate", "Unwind", "Gone"}

Kinds == {"OfferReady", "OfferActiveLimit", "OfferPreparationFailed", "CapacityReady",
          "CapacityRefused", "Capability", "Imported", "Sealed", "Ready", "Commit",
          "Application"}

Records == [kind : Kinds, txn : 0..(MaxTransactions + MaxSequence), batch : Batches \cup {{}}]

\* Every place, record and counter is one the code has; the sequences stop at
\* their maximum instead of wrapping (encode_parts_into).
TypeInv ==
    /\ pc \in [Ends -> Places]
    /\ work \in [Ends -> [txn : 0..MaxTransactions, batch : Batches \cup {{}},
                          status : Statuses]]
    /\ poisoned \in [Ends -> BOOLEAN]
    /\ open \in [Ends -> BOOLEAN]
    /\ nextTxn \in [Ends -> 1..(MaxTransactions + 1)]
    /\ nextSend \in [Ends -> 1..MaxSequence]
    /\ nextRecv \in [Ends -> 1..MaxSequence]
    /\ chan \in [Ends -> Seq(Records)]
    /\ socket \in [Ends -> BOOLEAN]
    /\ seals \in [Objects -> {"None", "Prefix", "Final"}]
    /\ view \in [Ends -> [Objects -> {"None", "RO", "RW"}]]
    /\ charged \in [Ends -> SUBSET Objects]
    /\ active \in [Ends -> SUBSET Objects]
    /\ vote \in [Transactions -> Batches \cup {{}}]
    /\ decision \in [Transactions -> [kind : {"Open", "Committed", "Refused"},
                                    batch : Batches \cup {{}}]]
    /\ outcome \in [Ends -> [Transactions -> {"Pending", "Active", "Refused", "Failed"}]]

(***************************************************************************)
(* No object is ever writable in both processes, in any state of any       *)
(* transfer, a failed or abandoned one included: the coordinator gives up  *)
(* its writable view before the capability leaves it                       *)
(* (prepare_receiver_writer_for_batch, import).                            *)
(***************************************************************************)
OneWriter == \A o \in Objects : ~(view[C][o] = "RW" /\ view[R][o] = "RW")

(***************************************************************************)
(* An active region is what its direction says, for good: the object is    *)
(* final-sealed, so that no third writable mapping can appear, and the     *)
(* application has the writable view exactly if it is the writer           *)
(* (seal_after_import, verify_final_seals, activation_specs).              *)
(***************************************************************************)
ActiveRegionsAreSealed ==
    \A e \in Ends : \A o \in active[e] :
        /\ seals[o] = "Final"
        /\ view[e][o] = IF Writer(o) = e THEN "RW" ELSE "RO"

(***************************************************************************)
(* A call leaves nothing behind: between calls, whatever the last one      *)
(* ended in, an endpoint maps and is charged for its active regions and    *)
(* for nothing else (the drops of transfer_batch and receive_batch).       *)
(***************************************************************************)
NothingHeldBetweenCalls ==
    \A e \in Ends : pc[e] \in {"Idle", "Gone"} =>
        /\ charged[e] = active[e]
        /\ {o \in Objects : view[e][o] # "None"} = active[e]
        /\ Cardinality(charged[e]) <= MaxActive

(***************************************************************************)
(* Two sessions that are both Ready and between calls agree on everything: *)
(* the next transaction, the result of every transaction so far, and that  *)
(* none is open.  This is what lets a refused transfer be retried          *)
(* (enter_native_transaction on both sides, end_transaction on every path  *)
(* that does not poison).                                                  *)
(***************************************************************************)
ReadySessionsAgree ==
    (\A e \in Ends : pc[e] = "Idle" /\ ~poisoned[e]) =>
        /\ nextTxn[C] = nextTxn[R]
        /\ ~open[C] /\ ~open[R]
        /\ \A t \in Transactions :
             /\ outcome[C][t] = outcome[R][t]
             /\ t < nextTxn[C] => outcome[C][t] \in {"Active", "Refused"}

(***************************************************************************)
(* The application stream has no gap, duplicate or reordering while its    *)
(* reader is Ready: the application records under way carry consecutive    *)
(* sequences from the reader's next_receive, up to the sender's next_send  *)
(* unless the sender failed, however transfers and control records are     *)
(* mixed (encode_parts_into, validate_header_inner).                       *)
(***************************************************************************)
ApplicationStream(e) == SelectSeq(chan[e], LAMBDA m : m.kind = "Application")

StreamIsGapless ==
    \A e \in Ends : ~poisoned[e] =>
        LET records == ApplicationStream(e)
            underWay == nextSend[Peer(e)] - nextRecv[e]
        IN /\ \A i \in 1..Len(records) : records[i] = Application(nextRecv[e] + i - 1)
           /\ Len(records) <= underWay
           /\ ~poisoned[Peer(e)] => Len(records) = underWay

(***************************************************************************)
(* The session is poisoned before anything it shared is destroyed: while a *)
(* process lives, a view of an object that has been sent disappears only   *)
(* when the session is already poisoned or the region was active           *)
(* (transaction guards before the batch in field order; poison before      *)
(* drop in import and in activate_linux_regions).                          *)
(***************************************************************************)
SharedObjects(e) == {o \in Objects : view[Peer(e)][o] # "None" /\ view[e][o] # "None"}

PoisonBeforeRelease ==
    [][\A e \in Ends : \A o \in SharedObjects(e) :
          (view'[e][o] = "None" /\ pc'[e] # "Gone") => poisoned[e] \/ o \in active[e]]_vars

\* The transfer implements the agreement the applications rely on.
Agreement == INSTANCE BatchAgreement

(***************************************************************************)
(* transfer_batch and receive_batch together implement BatchAgreement:     *)
(* COMMIT follows READY for the same batch, no endpoint activates without  *)
(* COMMIT or reports a refusal nobody sent, and each reports once.         *)
(***************************************************************************)
RefinesAgreement == Agreement!Spec

(***************************************************************************)
(* Without failures the protocol does not wait for itself: when both       *)
(* applications have entered the same transaction with the same batch and  *)
(* no stray record is under way, both come back with the same result,      *)
(* Active or Refused (the order of sends and waits in transfer_batch and   *)
(* receive_batch).                                                         *)
(***************************************************************************)
Matched(t) ==
    /\ \A e \in Ends : work[e].txn = t /\ pc[e] \in {"Prepare", "AwaitOffer"}
    /\ work[C].batch = work[R].batch
    /\ chan[R] = <<>> /\ chan[C] = <<>>

MatchedTransfersComplete ==
    \A t \in Transactions :
        Matched(t) ~> \E r \in {"Active", "Refused"} : \A e \in Ends : outcome[e][t] = r
=============================================================================
