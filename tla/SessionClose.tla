---------------------------- MODULE SessionClose ----------------------------
(***************************************************************************)
(* How a Ready session ends (the Ready half of session.rs, with the        *)
(* backend calls it makes in accepted_control.rs and linux_vnext/spawn.rs).*)
(*                                                                         *)
(* The coordinator "C" owns a session, the mappings it activated and its   *)
(* exact child; the receiver "R" is the session inside that child.  Either *)
(* side may poll or wait for the other, close, abort or just drop its      *)
(* session, at any time and in any order, while the child may exit and the *)
(* mappings of either side are dropped by other threads.                   *)
(*                                                                         *)
(* The lifecycle worker is abstracted to what ChildReaper shows of it: it  *)
(* acts on the strongest request made, a published status is final, and it *)
(* may give up for good.  "Reaped" here means reaped and published.  The   *)
(* lease count is one variable; ResourceLeases has the two counters.       *)
(***************************************************************************)
EXTENDS Integers

CONSTANT MaxLeases  \* mappings a side may have active at once

ASSUME LeasesAssumption == MaxLeases \in Nat \ {0}

VARIABLES
    pc,        \* per side: the place of the thread that owns the session
    poisoned,  \* per side: ControlState and the transport are poisoned
    liveness,  \* per side: the flag the mappings share with the session
    leases,    \* per side: active mappings
    open,      \* per side: the endpoint is open
    outcome,   \* per side: what the last call returned, or how the session ended
    child,     \* Running, Zombie or Reaped
    finished,  \* LifecycleShared.finished, stored after the status is published
    request,   \* LifecycleShared.request: IDLE 0, WAIT 1, TERMINATE 2
    fault      \* LifecycleShared.terminal_incomplete

vars == <<pc, poisoned, liveness, leases, open, outcome, child, finished, request,
          fault>>

Sides == {"C", "R"}

Other(s) == IF s = "C" THEN "R" ELSE "C"

IDLE == 0
WAIT == 1
TERMINATE == 2

Places == {"Idle", "Wait", "CloseWait", "CloseResources", "Signal", "AbortWait",
           "DropTransport", "DropResources", "Gone"}

\* How a session ends.
Endings == {"Closed", "Aborted", "Dropped", "Crashed"}

Outcomes == Endings \cup {"None", "ActiveLeases", "Failed", "Pending", "Complete",
                          "Disconnected", "Error"}

Init ==
    /\ pc = [s \in Sides |-> "Idle"]
    /\ poisoned = [s \in Sides |-> FALSE]
    /\ liveness = [s \in Sides |-> "Active"]
    /\ leases = [s \in Sides |-> 0]
    /\ open = [s \in Sides |-> TRUE]
    /\ outcome = [s \in Sides |-> "None"]
    /\ child = "Running"
    /\ finished = FALSE
    /\ request = IDLE
    /\ fault = FALSE

Goto(s, place) == pc' = [pc EXCEPT ![s] = place]

Returns(s, result) == outcome' = [outcome EXCEPT ![s] = result]

\* A call that ends here with a result.
Finish(s, result) == Goto(s, "Idle") /\ Returns(s, result)

\* ResourceOwner::poison leaves only ACTIVE.
Flag(s) == IF liveness[s] = "Active" THEN "Poisoned" ELSE liveness[s]

\* poison_both: control state, transport and resources.
PoisonBoth(s) ==
    /\ poisoned' = [poisoned EXCEPT ![s] = TRUE]
    /\ liveness' = [liveness EXCEPT ![s] = Flag(s)]

\* LifecycleShared.request is raised by fetch_max.
Ask(level) == request' = IF level > request THEN level ELSE request

\* session_state.
SessionState(s) ==
    IF poisoned[s] \/ liveness[s] # "Active" THEN "Poisoned" ELSE "Ready"

-----------------------------------------------------------------------------
(***************************************************************************)
(* What a session does while it is used.                                   *)
(***************************************************************************)

\* One transaction between two usable sessions gives each side a mapping.
TransferCommits ==
    /\ \A s \in Sides : pc[s] = "Idle" /\ SessionState(s) = "Ready" /\ open[s]
    /\ \A s \in Sides : leases[s] < MaxLeases
    /\ child = "Running"
    /\ leases' = [s \in Sides |-> leases[s] + 1]
    /\ UNCHANGED <<pc, poisoned, liveness, open, outcome, child, finished, request, fault>>

\* A mapping that is given back twice.
DropLeaseTwice(s) ==
    /\ leases[s] > 0
    /\ leases' = [leases EXCEPT ![s] = @ - 2]
    /\ UNCHANGED <<pc, poisoned, liveness, open, outcome, child, finished, request, fault>>

\* A mapping is dropped by whatever thread has it, also after its session.
DropLease(s) ==
    /\ leases[s] > 0
    /\ leases' = [leases EXCEPT ![s] = @ - 1]
    /\ UNCHANGED <<pc, poisoned, liveness, open, outcome, child, finished, request, fault>>

\* POLLHUP on the endpoint, or for the coordinator a readable pidfd.
PeerGone(s) == ~open[Other(s)] \/ (s = "C" /\ child # "Running")

\* poll_peer; it changes nothing when it sees a connected peer.
PollPeer(s) ==
    /\ pc[s] = "Idle" /\ ~poisoned[s]
    /\ \/ PeerGone(s) /\ Returns(s, "Disconnected")
       \/ Returns(s, "Error")
    /\ PoisonBoth(s)
    /\ UNCHANGED <<pc, leases, open, child, finished, request, fault>>

-----------------------------------------------------------------------------
(***************************************************************************)
(* The exact child and the worker that owns it.                            *)
(***************************************************************************)

\* The process ends: its session, mappings and endpoint end with it.
ChildExits ==
    /\ child = "Running"
    /\ child' = "Zombie"
    /\ Goto("R", "Gone")
    /\ leases' = [leases EXCEPT !["R"] = 0]
    /\ open' = [open EXCEPT !["R"] = FALSE]
    /\ outcome' = IF outcome["R"] \in Endings THEN outcome
                  ELSE [outcome EXCEPT !["R"] = "Crashed"]
    /\ UNCHANGED <<poisoned, liveness, finished, request, fault>>

WorkerLives == outcome["C"] # "Crashed" /\ ~fault

Killed == request = TERMINATE /\ WorkerLives /\ ChildExits

\* waitid succeeds and the status is published under its mutex.
Reap ==
    /\ WorkerLives /\ request # IDLE /\ child = "Zombie"
    /\ child' = "Reaped"
    /\ UNCHANGED <<pc, poisoned, liveness, leases, open, outcome, finished, request, fault>>

\* The store after the mutex is released: an owner may be back in between.
StoreFinished ==
    /\ WorkerLives /\ child = "Reaped" /\ ~finished
    /\ finished' = TRUE
    /\ UNCHANGED <<pc, poisoned, liveness, leases, open, outcome, child, request, fault>>

\* A poll, signal or reap that fails for good.
LifecycleFaults ==
    /\ WorkerLives /\ request # IDLE /\ child # "Reaped"
    /\ fault' = TRUE
    /\ UNCHANGED <<pc, poisoned, liveness, leases, open, outcome, child, finished, request>>

-----------------------------------------------------------------------------
(***************************************************************************)
(* Waiting, and the coordinator's graceful close.                          *)
(***************************************************************************)

\* The coordinator's wait_for_exit asks the worker; the receiver polls.
BeginWait(s) ==
    /\ pc[s] = "Idle"
    /\ \/ /\ s = "C"
          /\ Ask(WAIT)
          /\ Goto(s, "Wait")
          /\ UNCHANGED outcome
       \/ /\ s = "R"
          /\ IF poisoned[s] THEN Finish(s, "Error")
                            ELSE Goto(s, "Wait") /\ UNCHANGED outcome
          /\ UNCHANGED request
    /\ UNCHANGED <<poisoned, liveness, leases, open, child, finished, fault>>

\* A close that looks at the leases only after the wait.
BeginCloseUnchecked ==
    /\ pc["C"] = "Idle"
    /\ Ask(WAIT)
    /\ Goto("C", "CloseWait")
    /\ UNCHANGED <<poisoned, liveness, leases, open, outcome, child, finished, fault>>

\* A close that, like the other calls, refuses a poisoned session.
BeginCloseReady ==
    /\ pc["C"] = "Idle"
    /\ IF leases["C"] # 0 \/ poisoned["C"]
       THEN Finish("C", "ActiveLeases") /\ UNCHANGED request
       ELSE Ask(WAIT) /\ Goto("C", "CloseWait") /\ UNCHANGED outcome
    /\ UNCHANGED <<poisoned, liveness, leases, open, child, finished, fault>>

\* try_close of the coordinator: the lease check, then wait_for_exit.
BeginClose ==
    /\ pc["C"] = "Idle"
    /\ IF leases["C"] # 0
       THEN Finish("C", "ActiveLeases") /\ UNCHANGED request
       ELSE Ask(WAIT) /\ Goto("C", "CloseWait") /\ UNCHANGED outcome
    /\ UNCHANGED <<poisoned, liveness, leases, open, child, finished, fault>>

\* A wait that takes the end of the channel for the end of the child.
WaitCompletesOnHangup ==
    /\ pc["C"] \in {"Wait", "CloseWait"} /\ PeerGone("C")
    /\ PoisonBoth("C")
    /\ IF pc["C"] = "Wait" THEN Finish("C", "Complete")
                           ELSE Goto("C", "CloseResources") /\ UNCHANGED outcome
    /\ UNCHANGED <<leases, open, child, finished, request, fault>>

\* wait_for_linux_child with a complete child.
WaitCompletes ==
    /\ pc["C"] \in {"Wait", "CloseWait"} /\ child = "Reaped"
    /\ PoisonBoth("C")
    /\ IF pc["C"] = "Wait" THEN Finish("C", "Complete")
                           ELSE Goto("C", "CloseResources") /\ UNCHANGED outcome
    /\ UNCHANGED <<leases, open, child, finished, request, fault>>

\* The same with a native error: CleanupPending for a close.
WaitFaults ==
    /\ pc["C"] \in {"Wait", "CloseWait"} /\ child # "Reaped" /\ fault
    /\ PoisonBoth("C")
    /\ Finish("C", "Error")
    /\ UNCHANGED <<leases, open, child, finished, request, fault>>

\* wait_for_linux_peer_exit with an answer of the kernel.
PeerExitSeen ==
    /\ pc["R"] = "Wait"
    /\ \/ ~open["C"] /\ Finish("R", "Disconnected")
       \/ Finish("R", "Error")
    /\ PoisonBoth("R")
    /\ UNCHANGED <<leases, open, child, finished, request, fault>>

\* A timeout that ends the child.
WaitEscalates(s) ==
    /\ pc[s] \in {"Wait", "CloseWait"}
    /\ s = "C" => child # "Reaped" /\ ~fault
    /\ Finish(s, "Pending")
    /\ request' = IF s = "C" THEN TERMINATE ELSE request
    /\ UNCHANGED <<poisoned, liveness, leases, open, child, finished, fault>>

\* The deadline passes: nothing is poisoned and the owner is handed back.
WaitTimesOut(s) ==
    /\ pc[s] \in {"Wait", "CloseWait"}
    /\ s = "C" => child # "Reaped" /\ ~fault
    /\ Finish(s, "Pending")
    /\ UNCHANGED <<poisoned, liveness, leases, open, child, finished, request, fault>>

\* close_resources, then Closed, which drops the session; or Failed.
CloseResources(s) ==
    /\ IF leases[s] = 0 /\ liveness[s] # "Closed"
       THEN /\ liveness' = [liveness EXCEPT ![s] = "Closed"]
            /\ Goto(s, "DropTransport")
            /\ Returns(s, "Closed")
       ELSE /\ Finish(s, "Failed")
            /\ UNCHANGED liveness
    /\ UNCHANGED <<poisoned, leases, open, child, finished, request, fault>>

FinishClose == pc["C"] = "CloseResources" /\ CloseResources("C")

\* try_close of the receiver does not wait for anything.
ReceiverClose ==
    /\ pc["R"] = "Idle"
    /\ \/ /\ leases["R"] # 0
          /\ Returns("R", "ActiveLeases")
          /\ UNCHANGED <<pc, poisoned, liveness, leases, open, child, finished, request, fault>>
       \/ leases["R"] = 0 /\ CloseResources("R")

-----------------------------------------------------------------------------
(***************************************************************************)
(* Giving the session up.                                                  *)
(***************************************************************************)

\* An abort that signals first and poisons when the child is gone.
AbortSignalsFirst(s) ==
    /\ pc[s] = "Idle"
    /\ IF s = "C" THEN Ask(TERMINATE) /\ UNCHANGED <<poisoned, liveness>>
                  ELSE PoisonBoth(s) /\ UNCHANGED request
    /\ Goto(s, IF s = "C" THEN "AbortWait" ELSE "DropTransport")
    /\ Returns(s, "Aborted")
    /\ UNCHANGED <<leases, open, child, finished, fault>>

\* abort poisons first; the receiver's ends there.
Abort(s) ==
    /\ pc[s] = "Idle"
    /\ PoisonBoth(s)
    /\ Goto(s, IF s = "C" THEN "Signal" ELSE "DropTransport")
    /\ Returns(s, "Aborted")
    /\ UNCHANGED <<leases, open, child, finished, request, fault>>

\* terminate_and_reap_facts takes the lifecycle and asks for the end.
AbortSignal ==
    /\ pc["C"] = "Signal"
    /\ Ask(TERMINATE)
    /\ Goto("C", "AbortWait")
    /\ UNCHANGED <<poisoned, liveness, leases, open, outcome, child, finished, fault>>

\* It returns with the status, with a fault or at the deadline; whatever it
\* reports, the session is consumed.
AbortReturns ==
    /\ pc["C"] = "AbortWait"
    /\ Goto("C", "DropTransport")
    /\ UNCHANGED <<poisoned, liveness, leases, open, outcome, child, finished, request, fault>>

\* The application lets the session go without a call.
DropSession(s) ==
    /\ pc[s] = "Idle"
    /\ Goto(s, "DropTransport")
    /\ Returns(s, "Dropped")
    /\ UNCHANGED <<poisoned, liveness, leases, open, child, finished, request, fault>>

\* A transport whose lifecycle is dropped without a request.
DropTransportOnly(s) ==
    /\ pc[s] = "DropTransport"
    /\ open' = [open EXCEPT ![s] = FALSE]
    /\ Goto(s, "DropResources")
    /\ UNCHANGED <<poisoned, liveness, leases, outcome, child, finished, request, fault>>

\* The first field of the dispatcher: the lifecycle asks for termination unless
\* it reads finished, which may still be unset after Closed; then the endpoint
\* closes.
DropTransport(s) ==
    /\ pc[s] = "DropTransport"
    /\ IF s = "C" /\ ~finished THEN Ask(TERMINATE) ELSE UNCHANGED request
    /\ open' = [open EXCEPT ![s] = FALSE]
    /\ Goto(s, "DropResources")
    /\ UNCHANGED <<poisoned, liveness, leases, outcome, child, finished, fault>>

\* A ResourceOwner without a destructor.
DropResourcesSilently(s) ==
    /\ pc[s] = "DropResources"
    /\ Goto(s, "Gone")
    /\ UNCHANGED <<poisoned, liveness, leases, open, outcome, child, finished, request, fault>>

\* The last field: Drop for ResourceOwner.
DropResources(s) ==
    /\ pc[s] = "DropResources"
    /\ liveness' = [liveness EXCEPT ![s] = Flag(s)]
    /\ Goto(s, "Gone")
    /\ UNCHANGED <<poisoned, leases, open, outcome, child, finished, request, fault>>

\* The coordinator's process ends, and its worker thread with it.
CoordinatorCrashes ==
    /\ outcome["C"] # "Crashed"
    /\ Goto("C", "Gone")
    /\ Returns("C", "Crashed")
    /\ open' = [open EXCEPT !["C"] = FALSE]
    /\ leases' = [leases EXCEPT !["C"] = 0]
    /\ UNCHANGED <<poisoned, liveness, child, finished, request, fault>>

-----------------------------------------------------------------------------
SideStep(s) ==
    \/ DropLease(s)
    \/ PollPeer(s)
    \/ BeginWait(s)
    \/ WaitTimesOut(s)
    \/ Abort(s)
    \/ DropSession(s)
    \/ DropTransport(s)
    \/ DropResources(s)

CoordinatorStep ==
    \/ BeginClose
    \/ WaitCompletes
    \/ WaitFaults
    \/ FinishClose
    \/ AbortSignal
    \/ AbortReturns
    \/ CoordinatorCrashes

ReceiverStep == PeerExitSeen \/ ReceiverClose \/ ChildExits

WorkerStep == Reap \/ StoreFinished \/ LifecycleFaults

Next ==
    \/ TransferCommits
    \/ \E s \in Sides : SideStep(s)
    \/ CoordinatorStep
    \/ ReceiverStep
    \/ WorkerStep

Spec == Init /\ [][Next]_vars

(***************************************************************************)
(* Calls that were begun go on, deadlines pass, and the worker does what   *)
(* it was asked.  Nothing makes the child exit by itself, makes a mapping  *)
(* go away or makes an application call anything, but for one thing: the   *)
(* owner of a coordinator session that it still has tries close again.     *)
(***************************************************************************)
FairSpec ==
    /\ Spec
    /\ \A s \in Sides : /\ WF_vars(WaitTimesOut(s))
                        /\ WF_vars(DropTransport(s))
                        /\ WF_vars(DropResources(s))
    /\ WF_vars(WaitCompletes) /\ WF_vars(WaitFaults) /\ WF_vars(FinishClose)
    /\ WF_vars(AbortSignal) /\ WF_vars(AbortReturns)
    /\ WF_vars(Reap) /\ WF_vars(StoreFinished) /\ WF_vars(Killed)
    /\ SF_vars(BeginClose)

-----------------------------------------------------------------------------
\* Types.
TypeInv ==
    /\ pc \in [Sides -> Places]
    /\ poisoned \in [Sides -> BOOLEAN]
    /\ liveness \in [Sides -> {"Active", "Poisoned", "Closed"}]
    /\ leases \in [Sides -> 0..MaxLeases]
    /\ open \in [Sides -> BOOLEAN]
    /\ outcome \in [Sides -> Outcomes]
    /\ child \in {"Running", "Zombie", "Reaped"}
    /\ finished \in BOOLEAN
    /\ request \in {IDLE, WAIT, TERMINATE}
    /\ fault \in BOOLEAN

(***************************************************************************)
(* A disconnected endpoint is not a process exit (R6.7): whatever was seen *)
(* on the channel before, a coordinator that is told Closed, or that its   *)
(* wait is complete, has a reaped child, and a closed one no mapping.      *)
(***************************************************************************)
ClosedMeansReaped ==
    /\ outcome["C"] \in {"Closed", "Complete"} => child = "Reaped"
    /\ \A s \in Sides : outcome[s] = "Closed" => leases[s] = 0

(***************************************************************************)
(* Closing and waiting never kill the peer: while the child is not reaped, *)
(* its termination has been asked for only when the session was aborted or *)
(* dropped, however many closes timed out or failed before (try_close,     *)
(* wait_for_linux_child).  The destructor after Closed may still raise the *)
(* request, in the window between the published status and the store of    *)
(* finished; by then no process is left that it could reach.               *)
(***************************************************************************)
OnlyGivingUpKills ==
    request = TERMINATE /\ child # "Reaped"
        => outcome["C"] \in {"Aborted", "Dropped", "Crashed"}

(***************************************************************************)
(* The lease check at the start of try_close still holds when the          *)
(* resources are closed after the wait, so that no call returns Failed     *)
(* (CoordinatorCloseOutcome::Failed, "an unexpected local close transition *)
(* failed"): the owner is inside the call, so no transfer can charge.      *)
(***************************************************************************)
CloseNeverFails == \A s \in Sides : outcome[s] # "Failed"

\* Once the session is gone, in whatever way, no mapping left behind sees the
\* flag Active, while its process lives.
OrphansAreMarked ==
    \A s \in Sides : pc[s] = "Gone" /\ leases[s] > 0 => liveness[s] # "Active"

\* When the coordinator asks for the end of the child the mappings it served
\* are already marked.  Only a bare drop asks first, because the transport is
\* the dispatcher's first field, and marks them in its next step.
PoisonBeforeSignal ==
    request = TERMINATE /\ leases["C"] > 0 /\ pc["C"] # "DropResources"
        => liveness["C"] # "Active"

(***************************************************************************)
(* A mapping in use on another thread is told of the end in time: before   *)
(* an abort signals the child that shares it (abort_linux_child poisons    *)
(* and then signals), and at the latest when its session is gone (Drop for *)
(* ResourceOwner, the dispatcher's last field).                            *)
(***************************************************************************)
MappingsAreTold == OrphansAreMarked /\ PoisonBeforeSignal

(***************************************************************************)
(* Poisoning does not strand a session: once the child has ended and the   *)
(* coordinator's mappings are gone for good, an owner that keeps closing   *)
(* is told Closed, whatever was polled, timed out or poisoned before,      *)
(* unless it gives the session up or the worker failed for good.           *)
(***************************************************************************)
RetriedCloseCompletes ==
    <>[](leases["C"] = 0 /\ child # "Running")
        => <>(outcome["C"] \in Endings \/ fault)

(***************************************************************************)
(* A session given up does not leave its child behind: after an abort whose*)
(* deadline passed, or a bare drop, the child is terminated and reaped,    *)
(* unless the worker failed for good or the process ended.                 *)
(***************************************************************************)
AbandonedChildEnds ==
    outcome["C"] \in {"Aborted", "Dropped"}
        ~> child = "Reaped" \/ fault \/ outcome["C"] = "Crashed"

-----------------------------------------------------------------------------
(***************************************************************************)
(* The inductive invariant behind the safety properties.                   *)
(***************************************************************************)
EndPlaces == {"Signal", "AbortWait", "DropTransport", "DropResources", "Gone"}

\* A session that is ending knows how it ends, and only then is it Closed.
EndingIsKnown ==
    \A s \in Sides : /\ pc[s] \in EndPlaces <=> outcome[s] \in Endings
                     /\ liveness[s] = "Closed" => pc[s] \in EndPlaces

\* What each place of the coordinator's calls may rely on, and that the worker's
\* two stores come in their order.
PlacesRelyOn ==
    /\ pc["C"] \in {"CloseWait", "CloseResources"} => leases["C"] = 0
    /\ pc["C"] = "CloseResources" => child = "Reaped"
    /\ outcome["C"] = "Aborted" => liveness["C"] # "Active"
    /\ request = TERMINATE => pc["C"] \in EndPlaces
    /\ pc["C"] = "DropTransport" /\ outcome["C"] = "Dropped" => request # TERMINATE
    /\ finished => child = "Reaped"
    /\ \A s \in Sides : pc[s] \in {"Signal", "AbortWait"} => outcome[s] = "Aborted"
    /\ outcome["C"] = "Crashed" => leases["C"] = 0

IInv ==
    /\ TypeInv
    /\ EndingIsKnown
    /\ PlacesRelyOn
    /\ ClosedMeansReaped
    /\ OnlyGivingUpKills
    /\ CloseNeverFails
    /\ MappingsAreTold
=============================================================================
