---------------------------- MODULE ChildReaper ----------------------------
(***************************************************************************)
(* The exact-child lifecycle on Linux (linux_vnext/process.rs, with the    *)
(* spawn half of linux_vnext/spawn.rs).                                    *)
(*                                                                         *)
(* A worker thread exists before the child does.  The owner arms it with   *)
(* the clone-time pidfd, learns over a close-on-exec pipe how far the      *)
(* child's setup got, and later asks it to wait or to terminate; dropping  *)
(* the owner asks it to terminate.  The worker alone signals, polls and    *)
(* reaps, and before it reaps it kills the child's process group while the *)
(* zombie still holds the PID.  A step is one system call, one access to a *)
(* shared atomic, or one critical section.                                 *)
(*                                                                         *)
(* The kernel: a child, one descendant that stays in its group, and the    *)
(* number of its PID, which a stranger gets only when the child is reaped  *)
(* and its group is empty.                                                 *)
(***************************************************************************)
EXTENDS Integers

CONSTANTS
    MayFault,    \* whether a system call may fail for good
    MayTimeOut,  \* whether the deadline of a wait may pass
    OtherWaiter  \* whether other code of the process may reap the child

ASSUME ReaperAssumption == {MayFault, MayTimeOut, OtherWaiter} \subseteq BOOLEAN

VARIABLES
    child,         \* None, Setup, Session, Exec, Zombie or Reaped
    killed,        \* SIGKILL is pending for the child
    pipe,          \* the exec-error pipe: Open, Early or Late record, Eof
    grouped,       \* history: the child called setsid
    descendant,    \* None, Alive or Dead
    pidReused,     \* the child's PID names a stranger
    reapedByOther, \* history: other code of the process reaped the child
    strayed,       \* history: a group signal reached a stranger
    request,       \* LifecycleShared.request: IDLE 0, WAIT 1, TERMINATE 2
    finished,      \* LifecycleShared.finished
    completion,    \* LifecycleShared.completion
    incomplete,    \* LifecycleShared.terminal_incomplete
    freshSession,  \* LifecycleShared.fresh_session
    cleanup,       \* LifecycleShared.descendant_cleanup
    armed,         \* LifecycleShared.task holds the task, or the worker took it
    cancelled,     \* LifecycleShared.cancel_unarmed
    token,         \* the worker's unpark token
    worker,        \* the worker's place and its three latches
    workerFd,      \* the worker still holds its pidfd
    owner,         \* the owner's place, and whether its call gives the owner up
    report         \* history: what the last wait returned

kernel == <<child, killed, pipe, grouped, descendant, pidReused, reapedByOther, strayed>>
shared == <<request, finished, completion, incomplete, freshSession, cleanup, armed,
            cancelled>>
library == <<shared, token, worker, workerFd, owner, report>>
vars == <<kernel, library>>

IDLE == 0
WAIT == 1
TERMINATE == 2

NoReport == [direct |-> "None", descendants |-> "NotEstablished"]

Init ==
    /\ child = "None" /\ killed = FALSE /\ pipe = "Open" /\ grouped = FALSE
    /\ descendant = "None" /\ pidReused = FALSE
    /\ reapedByOther = FALSE /\ strayed = FALSE
    /\ request = IDLE /\ finished = FALSE /\ completion = "None" /\ incomplete = FALSE
    /\ freshSession = FALSE /\ cleanup = "NotEstablished"
    /\ armed = FALSE /\ cancelled = FALSE
    /\ token = FALSE
    /\ worker = [pc |-> "Take", limited |-> FALSE, signalled |-> FALSE, swept |-> FALSE]
    /\ workerFd = FALSE
    /\ owner = [pc |-> "Prepared", last |-> FALSE]
    /\ report = NoReport

Alive == child \in {"Setup", "Session", "Exec"}

WorkerAt(pc) == worker' = [worker EXCEPT !.pc = pc]

OwnerAt(pc) == owner' = [owner EXCEPT !.pc = pc]

-----------------------------------------------------------------------------
(***************************************************************************)
(* The child between clone3 and exec, and after it.                        *)
(***************************************************************************)
ChildSetsid ==
    /\ child = "Setup" /\ pipe = "Open" /\ ~killed
    /\ child' = "Session"
    /\ grouped' = TRUE
    /\ UNCHANGED <<killed, pipe, descendant, pidReused, reapedByOther, strayed, library>>

\* child_error: the record of stages 1 to 3, or of stages 4 and 5.
ChildError ==
    /\ child \in {"Setup", "Session"} /\ pipe = "Open" /\ ~killed
    /\ pipe' = IF child = "Setup" THEN "Early" ELSE "Late"
    /\ UNCHANGED <<child, killed, grouped, descendant, pidReused, reapedByOther, strayed, library>>

ChildExec ==
    /\ child = "Session" /\ pipe = "Open" /\ ~killed
    /\ child' = "Exec"
    /\ pipe' = "Eof"
    /\ UNCHANGED <<killed, grouped, descendant, pidReused, reapedByOther, strayed, library>>

ChildForks ==
    /\ child = "Exec" /\ descendant = "None" /\ ~killed
    /\ descendant' = "Alive"
    /\ UNCHANGED <<child, killed, pipe, grouped, pidReused, reapedByOther, strayed, library>>

\* Its own end, at any moment, or the end SIGKILL brings.
ChildDies ==
    /\ Alive
    /\ child' = "Zombie"
    /\ pipe' = IF pipe = "Open" THEN "Eof" ELSE pipe
    /\ UNCHANGED <<killed, grouped, descendant, pidReused, reapedByOther, strayed, library>>

\* Another wait of this process consumes the status.
OtherReaps ==
    /\ OtherWaiter /\ child = "Zombie"
    /\ child' = "Reaped"
    /\ reapedByOther' = TRUE
    /\ UNCHANGED <<killed, pipe, grouped, descendant, pidReused, strayed, library>>

\* The kernel gives the number away once no process and no group has it.
PidReused ==
    /\ child = "Reaped" /\ descendant # "Alive" /\ ~pidReused
    /\ pidReused' = TRUE
    /\ UNCHANGED <<child, killed, pipe, grouped, descendant, reapedByOther, strayed, library>>

-----------------------------------------------------------------------------
(***************************************************************************)
(* The owner.                                                              *)
(***************************************************************************)

\* notify_one on task_ready.
WakeTask == IF worker.pc = "TaskWait" THEN WorkerAt("Take") ELSE UNCHANGED worker

\* clone3 succeeded and PreparedExactChildLifecycle::arm.
Arm ==
    /\ owner.pc = "Prepared"
    /\ child' = "Setup"
    /\ armed' = TRUE
    /\ workerFd' = TRUE
    /\ token' = TRUE
    /\ WakeTask
    /\ OwnerAt("Exec")
    /\ UNCHANGED <<killed, pipe, grouped, descendant, pidReused, reapedByOther, strayed,
                   request, finished,
                   completion, incomplete, freshSession, cleanup, cancelled, report>>

\* Drop for PreparedExactChildLifecycle, when no child was created.
Cancel ==
    /\ owner.pc = "Prepared"
    /\ cancelled' = TRUE
    /\ token' = TRUE
    /\ WakeTask
    /\ OwnerAt("Gone")
    /\ UNCHANGED <<kernel, request, finished, completion, incomplete, freshSession, cleanup,
                   armed, workerFd, report>>

\* establish_fresh_session.
Establish ==
    /\ freshSession' = TRUE
    /\ cleanup' = "FreshGroupUnverified"

\* await_exec_result: a record, the end of the pipe, or a failed wait for it.
AwaitExec ==
    /\ owner.pc = "Exec"
    /\ \/ /\ pipe \in {"Late", "Eof"}
          /\ Establish
          /\ OwnerAt(IF pipe = "Eof" THEN "Live" ELSE "Terminate")
       \/ /\ pipe = "Early" \/ MayTimeOut \/ MayFault
          /\ OwnerAt("Terminate")
          /\ UNCHANGED <<freshSession, cleanup>>
    /\ UNCHANGED <<kernel, request, finished, completion, incomplete, armed, cancelled,
                   token, worker, workerFd, report>>

\* Its last part, ensure_live and the image; a failure terminates the child.
ConfirmExec ==
    /\ owner.pc = "Live"
    /\ \/ Alive /\ OwnerAt("Owned")
       \/ (~Alive \/ MayTimeOut \/ MayFault) /\ OwnerAt("Terminate")
    /\ UNCHANGED <<kernel, shared, token, worker, workerFd, report>>

\* Requests that add up.
RequestAdds(level) ==
    /\ \/ owner.pc = "Owned"
       \/ owner.pc = "Terminate" /\ level = TERMINATE
    /\ request' = request + level
    /\ owner' = [pc |-> "Unpark", last |-> level = TERMINATE]
    /\ UNCHANGED <<kernel, finished, completion, incomplete, freshSession, cleanup, armed,
                   cancelled, token, worker, workerFd, report>>

\* request: fetch_max, then unpark.
Request(level) ==
    /\ \/ owner.pc = "Owned"
       \/ owner.pc = "Terminate" /\ level = TERMINATE
    /\ request' = IF level > request THEN level ELSE request
    /\ owner' = [pc |-> "Unpark", last |-> level = TERMINATE]
    /\ UNCHANGED <<kernel, finished, completion, incomplete, freshSession, cleanup, armed,
                   cancelled, token, worker, workerFd, report>>

Unpark ==
    /\ owner.pc = "Unpark"
    /\ token' = TRUE
    /\ OwnerAt("Check")
    /\ UNCHANGED <<kernel, shared, worker, workerFd, report>>

\* wait_for_completion, under the completion mutex, which the wait releases.
Check ==
    /\ owner.pc = "Check"
    /\ \/ /\ completion # "None" \/ incomplete \/ MayTimeOut
          /\ report' = [direct |-> completion, descendants |-> cleanup]
          /\ OwnerAt(IF owner.last THEN "Drop" ELSE "Owned")
       \/ /\ completion = "None" /\ ~incomplete
          /\ OwnerAt("Blocked")
          /\ UNCHANGED report
    /\ UNCHANGED <<kernel, shared, token, worker, workerFd>>

WaitTimesOut ==
    /\ MayTimeOut /\ owner.pc = "Blocked"
    /\ OwnerAt("Check")
    /\ UNCHANGED <<kernel, shared, token, worker, workerFd, report>>

\* A drop that asks for termination and does not unpark.
DropSilently ==
    /\ owner.pc \in {"Owned", "Drop"}
    /\ request' = IF finished THEN request ELSE TERMINATE
    /\ OwnerAt("Gone")
    /\ UNCHANGED <<kernel, finished, completion, incomplete, freshSession, cleanup, armed,
                   cancelled, token, worker, workerFd, report>>

\* Drop for ExactChildLifecycle.
Drop ==
    /\ owner.pc \in {"Owned", "Drop"}
    /\ request' = IF finished THEN request ELSE TERMINATE
    /\ OwnerAt(IF finished THEN "Gone" ELSE "DropUnpark")
    /\ UNCHANGED <<kernel, finished, completion, incomplete, freshSession, cleanup, armed,
                   cancelled, token, worker, workerFd, report>>

DropUnpark ==
    /\ owner.pc = "DropUnpark"
    /\ token' = TRUE
    /\ OwnerAt("Gone")
    /\ UNCHANGED <<kernel, shared, worker, workerFd, report>>

-----------------------------------------------------------------------------
(***************************************************************************)
(* The worker: exact_child_reaper.  Its latches are local variables.       *)
(***************************************************************************)
WakeOwner == IF owner.pc = "Blocked" THEN OwnerAt("Check") ELSE UNCHANGED owner

\* Under the task mutex, which the wait releases.
TakeTask ==
    /\ worker.pc = "Take"
    /\ WorkerAt(IF armed THEN "Loop" ELSE IF cancelled THEN "Returned" ELSE "TaskWait")
    /\ UNCHANGED <<kernel, shared, token, workerFd, owner, report>>

LoadRequest ==
    /\ worker.pc = "Loop"
    /\ WorkerAt(CASE request = IDLE -> "Park"
                  [] request = WAIT -> "Poll"
                  [] request = TERMINATE -> "Signal")
    /\ UNCHANGED <<kernel, shared, token, workerFd, owner, report>>

Park ==
    /\ worker.pc = "Park" /\ token
    /\ token' = FALSE
    /\ WorkerAt("Loop")
    /\ UNCHANGED <<kernel, shared, workerFd, owner, report>>

\* descendant_cleanup_limit, stored once.
Limit ==
    IF worker.limited THEN cleanup
    ELSE IF freshSession THEN "FreshGroupUnverified" ELSE "NotEstablished"

\* SIGKILL through the pidfd, once; ESRCH counts as delivered.
Signal ==
    /\ worker.pc = "Signal"
    /\ cleanup' = Limit
    /\ killed' = (killed \/ Alive)
    /\ worker' = [worker EXCEPT !.pc = "Poll", !.limited = TRUE, !.signalled = TRUE]
    /\ UNCHANGED <<child, pipe, grouped, descendant, pidReused, reapedByOther, strayed,
                   request, finished,
                   completion, incomplete, freshSession, armed, cancelled, token, workerFd,
                   owner, report>>

\* EINTR, when it has not been sent yet, retries; any other error is final.
SignalFails(code) ==
    /\ worker.pc = "Signal" /\ ~worker.signalled
    /\ cleanup' = Limit
    /\ worker' = [worker EXCEPT !.pc = IF code = "EINTR" THEN "Loop" ELSE "Retain",
                                !.limited = TRUE]
    /\ UNCHANGED <<kernel, request, finished, completion, incomplete, freshSession, armed,
                   cancelled, token, workerFd, owner, report>>

\* A poll that times out or is interrupted, with the child alive or not yet seen.
PollAgain ==
    /\ worker.pc = "Poll"
    /\ WorkerAt("Loop")
    /\ UNCHANGED <<kernel, shared, token, workerFd, owner, report>>

\* The pidfd is readable: the group is swept once, before the first reap.
PollReadable ==
    /\ worker.pc = "Poll" /\ child \in {"Zombie", "Reaped"}
    /\ cleanup' = Limit
    /\ worker' = [worker EXCEPT !.pc = IF worker.swept \/ ~freshSession THEN "Reap" ELSE "Pin",
                                !.limited = TRUE, !.swept = TRUE]
    /\ UNCHANGED <<kernel, request, finished, completion, incomplete, freshSession, armed,
                   cancelled, token, workerFd, owner, report>>

\* zombie_pinned_child: waitid with WNOWAIT.
Pin ==
    /\ worker.pc = "Pin"
    /\ \/ child = "Zombie" /\ WorkerAt("Leader")
       \/ (child = "Reaped" \/ MayFault) /\ WorkerAt("Reap")
    /\ UNCHANGED <<kernel, shared, token, workerFd, owner, report>>

\* getpgid and getsid of the PID; a stranger may lead a session too.
Leader ==
    /\ worker.pc = "Leader"
    /\ \/ ((child = "Zombie" /\ grouped) \/ pidReused) /\ WorkerAt("KillGroup")
       \/ ((child = "Zombie" /\ ~grouped) \/ child = "Reaped") /\ WorkerAt("Reap")
    /\ UNCHANGED <<kernel, shared, token, workerFd, owner, report>>

\* A group signal whose result is not looked at.
KillGroupUnchecked ==
    /\ worker.pc = "KillGroup"
    /\ \/ /\ strayed' = (strayed \/ pidReused)
          /\ descendant' = IF descendant = "Alive" THEN "Dead" ELSE descendant
          /\ WorkerAt("Repin")
       \/ /\ MayFault
          /\ WorkerAt("Repin")
          /\ UNCHANGED <<strayed, descendant>>
    /\ UNCHANGED <<child, killed, pipe, grouped, pidReused, reapedByOther, shared, token,
                   workerFd, owner, report>>

KillGroup ==
    /\ worker.pc = "KillGroup"
    /\ \/ /\ strayed' = (strayed \/ pidReused)
          /\ descendant' = IF descendant = "Alive" THEN "Dead" ELSE descendant
          /\ WorkerAt("Repin")
       \/ /\ MayFault \/ child = "Reaped"
          /\ WorkerAt("Reap")
          /\ UNCHANGED <<strayed, descendant>>
    /\ UNCHANGED <<child, killed, pipe, grouped, pidReused, reapedByOther, shared, token,
                   workerFd, owner, report>>

\* The pin is observed again before the success is recorded.
Repin ==
    /\ worker.pc = "Repin"
    /\ \/ child = "Zombie" /\ cleanup' = "FreshGroupTerminated"
       \/ (child = "Reaped" \/ MayFault) /\ UNCHANGED cleanup
    /\ WorkerAt("Reap")
    /\ UNCHANGED <<kernel, request, finished, completion, incomplete, freshSession, armed,
                   cancelled, token, workerFd, owner, report>>

\* Sweeping the group after the reap too.
ReapThenSweep ==
    /\ worker.pc = "Reap"
    /\ child' = "Reaped"
    /\ workerFd' = FALSE
    /\ WorkerAt("Leader")
    /\ UNCHANGED <<killed, pipe, grouped, descendant, pidReused, reapedByOther, strayed,
                   shared, token, owner, report>>

\* reap_exact_child: ECHILD says that someone else was first.  The worker's
\* pidfd is dropped before anything is published.
Reap ==
    /\ worker.pc = "Reap"
    /\ child' = "Reaped"
    /\ workerFd' = FALSE
    /\ WorkerAt(IF child = "Zombie" THEN "PublishExit" ELSE "PublishReaped")
    /\ UNCHANGED <<killed, pipe, grouped, descendant, pidReused, reapedByOther, strayed,
                   shared, token, owner, report>>

\* An interrupted reap taken for a finished one.
ReapInterruptedPublishes ==
    /\ worker.pc = "Reap"
    /\ WorkerAt("PublishReaped")
    /\ UNCHANGED <<kernel, shared, token, workerFd, owner, report>>

ReapInterrupted ==
    /\ worker.pc = "Reap"
    /\ WorkerAt("Loop")
    /\ UNCHANGED <<kernel, shared, token, workerFd, owner, report>>

Publish ==
    /\ worker.pc \in {"PublishExit", "PublishReaped"}
    /\ completion' = IF worker.pc = "PublishExit" THEN "Exit" ELSE "AlreadyReaped"
    /\ WorkerAt("Finish")
    /\ UNCHANGED <<kernel, request, finished, incomplete, freshSession, cleanup, armed,
                   cancelled, token, workerFd, owner, report>>

Finish ==
    /\ worker.pc = "Finish"
    /\ finished' = TRUE
    /\ WorkerAt("Notify")
    /\ UNCHANGED <<kernel, request, completion, incomplete, freshSession, cleanup, armed,
                   cancelled, token, workerFd, owner, report>>

Notify ==
    /\ worker.pc = "Notify"
    /\ WakeOwner
    /\ WorkerAt("Returned")
    /\ UNCHANGED <<kernel, shared, token, workerFd, report>>

\* A poll or a reap fails for good.
CallFails ==
    /\ MayFault /\ worker.pc \in {"Poll", "Reap"}
    /\ WorkerAt("Retain")
    /\ UNCHANGED <<kernel, shared, token, workerFd, owner, report>>

\* A retained failure that nobody is told of.
RetainSilently ==
    /\ worker.pc = "Retain"
    /\ incomplete' = TRUE
    /\ WorkerAt("Retained")
    /\ UNCHANGED <<kernel, request, finished, completion, freshSession, cleanup, armed,
                   cancelled, token, workerFd, owner, report>>

\* retain_incomplete_cleanup: told under the mutex, then parked for good.
Retain ==
    /\ worker.pc = "Retain"
    /\ incomplete' = TRUE
    /\ WakeOwner
    /\ WorkerAt("Retained")
    /\ UNCHANGED <<kernel, request, finished, completion, freshSession, cleanup, armed,
                   cancelled, token, workerFd, report>>

-----------------------------------------------------------------------------
KernelStep ==
    \/ ChildSetsid
    \/ ChildError
    \/ ChildExec
    \/ ChildForks
    \/ ChildDies
    \/ OtherReaps
    \/ PidReused

OwnerStep ==
    \/ Arm
    \/ Cancel
    \/ AwaitExec
    \/ ConfirmExec
    \/ \E level \in {WAIT, TERMINATE} : Request(level)
    \/ Unpark
    \/ Check
    \/ WaitTimesOut
    \/ Drop
    \/ DropUnpark

\* The worker's steps that get somewhere, and those that only go round again.
WorkerStep ==
    \/ TakeTask
    \/ LoadRequest
    \/ Park
    \/ Pin
    \/ Leader
    \/ KillGroup
    \/ Repin
    \/ Publish
    \/ Finish
    \/ Notify
    \/ Retain

WorkerRetry ==
    \/ SignalFails("EINTR")
    \/ PollAgain
    \/ ReapInterrupted

WorkerFault == CallFails \/ (MayFault /\ SignalFails("Error"))

Next ==
    \/ KernelStep
    \/ OwnerStep
    \/ WorkerStep
    \/ WorkerRetry
    \/ WorkerFault
    \/ Signal
    \/ PollReadable
    \/ Reap

Spec == Init /\ [][Next]_vars

(***************************************************************************)
(* Fairness.  The worker thread runs, and no system call of it is          *)
(* interrupted every single time (strong fairness of the calls it          *)
(* retries).  A killed child dies.  The owner finishes a call it has       *)
(* begun; it need never begin one, nor ever drop the lifecycle.            *)
(***************************************************************************)
FairSpec ==
    /\ Spec
    /\ WF_vars(WorkerStep)
    /\ WF_vars(PollAgain)
    /\ SF_vars(Signal) /\ SF_vars(PollReadable) /\ SF_vars(Reap)
    /\ WF_vars(killed /\ ChildDies)
    /\ WF_vars(Unpark \/ Check \/ DropUnpark)
    /\ WF_vars(owner.pc = "Drop" /\ Drop)

-----------------------------------------------------------------------------
OwnerPlaces == {"Prepared", "Exec", "Live", "Owned", "Terminate", "Unpark", "Check",
                "Blocked", "Drop", "DropUnpark", "Gone"}

WorkerPlaces == {"Take", "TaskWait", "Loop", "Park", "Signal", "Poll", "Pin", "Leader",
                 "KillGroup", "Repin", "Reap", "PublishExit", "PublishReaped", "Finish",
                 "Notify", "Returned", "Retain", "Retained"}

Exits == {"None", "Exit", "AlreadyReaped"}
Cleanups == {"NotEstablished", "FreshGroupUnverified", "FreshGroupTerminated"}

\* Every place and flag is one the code has; the request is one of its three
\* values, however requests of the owner race (LifecycleShared).
TypeInv ==
    /\ child \in {"None", "Setup", "Session", "Exec", "Zombie", "Reaped"}
    /\ pipe \in {"Open", "Early", "Late", "Eof"}
    /\ descendant \in {"None", "Alive", "Dead"}
    /\ {killed, grouped, pidReused, reapedByOther, strayed, finished, incomplete,
        freshSession, armed, cancelled, token, workerFd} \subseteq BOOLEAN
    /\ request \in {IDLE, WAIT, TERMINATE}
    /\ completion \in Exits
    /\ cleanup \in Cleanups
    /\ worker \in [pc : WorkerPlaces, limited : BOOLEAN, signalled : BOOLEAN, swept : BOOLEAN]
    /\ owner \in [pc : OwnerPlaces, last : BOOLEAN]
    /\ report \in [direct : Exits, descendants : Cleanups]

(***************************************************************************)
(* A reported exit is final: when a wait returns a direct-child exit, the  *)
(* child is reaped, the worker has closed its pidfd and can no longer be   *)
(* made to signal anything (the end of exact_child_reaper).                *)
(***************************************************************************)
ReportedExitIsFinal ==
    report.direct # "None" =>
        /\ child = "Reaped"
        /\ ~workerFd
        /\ worker.pc \in {"Finish", "Notify", "Returned"}

(***************************************************************************)
(* A reported group termination is true: no descendant that stayed in the  *)
(* group survives it, whatever else reaps the child and whichever call     *)
(* fails (terminate_descendant_group_before_reap).                         *)
(***************************************************************************)
ReportedTerminationIsTrue ==
    report.descendants = "FreshGroupTerminated" => grouped /\ descendant # "Alive"

(***************************************************************************)
(* The group signal never reaches a stranger: the number it is sent to     *)
(* still belongs to the unreaped child, unless other code of the process   *)
(* reaped it (the sweep comes before the reap in exact_child_reaper).      *)
(***************************************************************************)
GroupSignalNeverStrays == strayed => reapedByOther

(***************************************************************************)
(* A fresh process group is reported only for a child that had one, as the *)
(* documentation of DescendantCleanupStatus::FreshGroupUnverified says     *)
(* ("A fresh process group existed").                                      *)
(***************************************************************************)
ReportedGroupExisted ==
    report.descendants \in {"FreshGroupUnverified", "FreshGroupTerminated"} => grouped

(***************************************************************************)
(* A dropped lifecycle cleans up by itself: once the owner is gone, with a *)
(* child or without one, the worker thread ends, with the child reaped if  *)
(* there was one, unless a system call failed for good (Drop of both       *)
(* owners; park and unpark; the condition variable of the task).           *)
(***************************************************************************)
DroppedOwnerIsCleanedUp ==
    owner.pc = "Gone" ~>
        \/ worker.pc = "Returned" /\ child \in {"None", "Reaped"}
        \/ worker.pc = "Retained"

(***************************************************************************)
(* A terminate call returns without the help of its deadline: completion   *)
(* and final failure both wake it (notify_all against the check under the  *)
(* completion mutex in wait_for_completion).                               *)
(***************************************************************************)
TerminateReturns == (owner.last /\ owner.pc = "Blocked") ~> owner.pc = "Gone"
=============================================================================
