------------------------- MODULE SessionCloseProofs -------------------------
(***************************************************************************)
(* Proofs, for every number of mappings, of the safety properties of       *)
(* SessionClose.                                                           *)
(***************************************************************************)
EXTENDS SessionClose, TLAPS

\* A session starts connected, unpoisoned and without mappings.
LEMMA Start == Init => IInv
<1> SUFFICES ASSUME Init PROVE IInv
  OBVIOUS
<1>1. \A s \in Sides : /\ pc[s] = "Idle" /\ outcome[s] = "None"
                       /\ liveness[s] = "Active" /\ leases[s] = 0
  BY DEF Init
<1>2. /\ poisoned \in [Sides -> BOOLEAN]
      /\ open \in [Sides -> BOOLEAN]
  BY Zenon DEF Init
<1>3. /\ pc \in [Sides -> Places] /\ outcome \in [Sides -> Outcomes]
      /\ liveness \in [Sides -> {"Active", "Poisoned", "Closed"}]
      /\ leases \in [Sides -> 0..MaxLeases]
  BY LeasesAssumption DEF Init, Places, Outcomes
<1>4. TypeInv
  BY <1>2, <1>3 DEF Init, TypeInv
<1> QED
  BY <1>1, <1>4
  DEF Init, IInv, Sides, Endings, EndPlaces, EndingIsKnown, PlacesRelyOn,
      ClosedMeansReaped, OnlyGivingUpKills, CloseNeverFails, MappingsAreTold,
      OrphansAreMarked, PoisonBeforeSignal, IDLE, TERMINATE

\* Every call and event preserves the invariant.
LEMMA Step == IInv /\ [Next]_vars => IInv'
<1> SUFFICES ASSUME IInv, [Next]_vars PROVE IInv'
  OBVIOUS
<1> USE LeasesAssumption
    DEF IInv, TypeInv, Sides, Places, Outcomes, Endings, EndPlaces, EndingIsKnown,
        PlacesRelyOn, ClosedMeansReaped, OnlyGivingUpKills, CloseNeverFails,
        MappingsAreTold, OrphansAreMarked, PoisonBeforeSignal, IDLE, WAIT, TERMINATE
<1>1. CASE TransferCommits
  BY <1>1 DEF TransferCommits, SessionState
<1>2. CASE \E s \in Sides : DropLease(s)
  BY <1>2 DEF DropLease
<1>3. CASE \E s \in Sides : PollPeer(s)
  BY <1>3 DEF PollPeer, Returns, PoisonBoth, Flag
<1>4. CASE \E s \in Sides : BeginWait(s)
  BY <1>4 DEF BeginWait, Returns, Goto, Finish, Ask
<1>5. CASE \E s \in Sides : WaitTimesOut(s)
  BY <1>5 DEF WaitTimesOut, Returns, Goto, Finish
<1>6. CASE \E s \in Sides : Abort(s)
  BY <1>6 DEF Abort, Returns, Goto, PoisonBoth, Flag
<1>7. CASE \E s \in Sides : DropSession(s)
  BY <1>7 DEF DropSession, Returns, Goto
<1>8. CASE \E s \in Sides : DropTransport(s)
  BY <1>8 DEF DropTransport, Goto, Ask
<1>9. CASE \E s \in Sides : DropResources(s)
  BY <1>9 DEF DropResources, Goto, Flag
<1>10. CASE BeginClose
  BY <1>10 DEF BeginClose, Goto, Returns, Finish, Ask
<1>11. CASE WaitCompletes
  BY <1>11 DEF WaitCompletes, Goto, Returns, Finish, PoisonBoth, Flag
<1>12. CASE WaitFaults
  BY <1>12 DEF WaitFaults, Goto, Returns, Finish, PoisonBoth, Flag
<1>13. CASE FinishClose
  BY <1>13 DEF FinishClose, CloseResources, Goto, Returns, Finish
<1>14. CASE AbortSignal
  BY <1>14 DEF AbortSignal, Goto, Ask
<1>15. CASE AbortReturns
  BY <1>15 DEF AbortReturns, Goto
<1>16. CASE CoordinatorCrashes
  BY <1>16 DEF CoordinatorCrashes, Goto, Returns
<1>17. CASE PeerExitSeen
  BY <1>17 DEF PeerExitSeen, Goto, Returns, Finish, PoisonBoth, Flag
<1>18. CASE ReceiverClose
  BY <1>18 DEF ReceiverClose, CloseResources, Goto, Returns, Finish
<1>19. CASE ChildExits
  BY <1>19 DEF ChildExits, Goto
<1>20. CASE Reap
  BY <1>20 DEF Reap
<1>21. CASE StoreFinished
  <2>1. finished' \in BOOLEAN
    BY ONLY <1>21, Zenon DEF StoreFinished
  <2>2. /\ child = "Reaped"
        /\ UNCHANGED <<pc, poisoned, liveness, leases, open, outcome, child, request, fault>>
    BY ONLY <1>21 DEF StoreFinished
  <2> QED
    BY <2>1, <2>2
<1>22. CASE LifecycleFaults
  BY <1>22 DEF LifecycleFaults
<1>23. CASE UNCHANGED vars
  BY <1>23 DEF vars
<1> QED
  BY <1>1, <1>2, <1>3, <1>4, <1>5, <1>6, <1>7, <1>8, <1>9, <1>10, <1>11, <1>12, <1>13,
     <1>14, <1>15, <1>16, <1>17, <1>18, <1>19, <1>20, <1>21, <1>22, <1>23
  DEF Next, SideStep, CoordinatorStep, ReceiverStep, WorkerStep

\* The invariant holds in every reachable state.
THEOREM Inductive == Spec => []IInv
BY Start, Step, PTL DEF Spec

\* Closed, and a complete wait, mean that the exact child was reaped, whatever
\* was seen on the channel, and Closed that no mapping is left.
THEOREM CloseIsComplete == Spec => []ClosedMeansReaped
<1>1. IInv => ClosedMeansReaped
  BY DEF IInv
<1> QED BY <1>1, Inductive, PTL

\* Closing and waiting, however often they time out, never end a child: while
\* it is not reaped, only giving the session up has asked for its termination.
THEOREM CloseNeverKills == Spec => []OnlyGivingUpKills
<1>1. IInv => OnlyGivingUpKills
  BY DEF IInv
<1> QED BY <1>1, Inductive, PTL

\* The lease check of try_close still holds after its wait: the outcome
\* Failed is never returned.
THEOREM CheckOutlivesWait == Spec => []CloseNeverFails
<1>1. IInv => CloseNeverFails
  BY DEF IInv
<1> QED BY <1>1, Inductive, PTL

\* A mapping that outlives its session never reads the flag Active, and the
\* mappings of an aborted session are marked before its child is signalled.
THEOREM MappingsLearn == Spec => []MappingsAreTold
<1>1. IInv => MappingsAreTold
  BY DEF IInv
<1> QED BY <1>1, Inductive, PTL
=============================================================================
