----------------------------- MODULE Negotiation -----------------------------
(***************************************************************************)
(* From the spawned child to two Ready sessions (negotiation.rs, with the  *)
(* Linux halves in linux_vnext/spawn.rs).                                  *)
(*                                                                         *)
(* The coordinator sends HELLO, the receiver answers with its own, and     *)
(* each reduces the pair to the same transcript.  The coordinator's        *)
(* application decides first, under a fresh challenge; the receiver's      *)
(* application decides when it has seen that ACCEPT, and echoes the        *)
(* challenge.  Whatever ends the coordinator's call other than Ready       *)
(* terminates the child.  Calls consume their session (`self`), so each    *)
(* endpoint is one thread and a step ends with an access to the socket.    *)
(*                                                                         *)
(* Data: an offer is what the reduction looks at; the digest of two HELLOs *)
(* is the pair of them; the sender's role is the direction of the channel, *)
(* and the session nonce, one per spawned pair of sockets, is left out.    *)
(***************************************************************************)
EXTENDS Integers, Sequences

CONSTANTS
    Offers,      \* the HELLO bodies an endpoint may be configured with
    Known,       \* KNOWN_FEATURES: lock-free atomics by width
    HardMaximum, \* the HARD_MAX_ constant of each limit
    Challenges,  \* decision challenges
    Reasons      \* nonzero rejection reasons

ASSUME NegotiationAssumption ==
    /\ Reasons \subseteq Nat \ {0}
    /\ \A f \in DOMAIN HardMaximum : HardMaximum[f] \in Nat \ {0}
    /\ \A o \in Offers : DOMAIN o.limits = DOMAIN HardMaximum

C == "coordinator"
R == "receiver"
Ends == {C, R}
Peer(e) == IF e = C THEN R ELSE C

VARIABLES
    pc,          \* each endpoint's place in its call
    offer,       \* each endpoint's own HELLO body
    transcript,  \* NegotiatedTranscript: facts, challenge and accepted_roles
    chan,        \* the records on their way to each endpoint
    socket,      \* whether each endpoint still holds its end
    alive,       \* the child process
    condemned,   \* terminate_and_reap has been asked for it
    outcome,     \* what each call returns
    decided,     \* history: each application's decision, 0 for accept
    early,       \* history: a decision was queued before its time
    faulted      \* history: a call failed or the child ended by itself

vars == <<pc, offer, transcript, chan, socket, alive, condemned, outcome, decided, early,
          faulted>>

Undecided == -1
Accept == 0

\* accepted_roles, the bits 1 and 2 and the terminal u8::MAX.
Spent == 255

NoFacts == [features |-> {}, limits |-> <<>>, lockFree |-> {}, digest |-> <<>>]
NoChallenge == "none"
NoTranscript == [facts |-> NoFacts, challenge |-> NoChallenge, roles |-> Spent]

Open == [result |-> "Open", by |-> C, reason |-> 0]
Ready == [result |-> "Ready", by |-> C, reason |-> 0]
Failed == [result |-> "Failed", by |-> C, reason |-> 0]
Rejected(by, reason) == [result |-> "Rejected", by |-> by, reason |-> reason]

-----------------------------------------------------------------------------
(***************************************************************************)
(* The reduction of two HELLOs.                                            *)
(***************************************************************************)
ValidLimits(l) == \A f \in DOMAIN HardMaximum : l[f] \in 1..HardMaximum[f]

\* HelloFrame::validate.
ValidOffer(o) == o.required \subseteq o.supported /\ ValidLimits(o.limits)

\* SessionLimits::negotiate: exact minima.
Negotiate(l, p) == [f \in DOMAIN HardMaximum |-> IF l[f] <= p[f] THEN l[f] ELSE p[f]]

LockFree(c, r) == c.lockFree \cap r.lockFree

\* The bits of both offers, whether the atomics are there or not.
SelectedUnverified(c, r) == c.supported \cap r.supported \cap Known

Selected(c, r) == c.supported \cap r.supported \cap Known \cap LockFree(c, r)

\* from_hello_pair.  Target and alignments are one fact, `layout`.
Compatible(c, r) ==
    /\ ValidOffer(c) /\ ValidOffer(r)
    /\ c.layout = r.layout
    /\ c.required \cup r.required \subseteq Selected(c, r)
    /\ ValidLimits(Negotiate(c.limits, r.limits))

Facts(c, r) ==
    [features |-> Selected(c, r), limits |-> Negotiate(c.limits, r.limits),
     lockFree |-> LockFree(c, r), digest |-> <<c, r>>]

NewTranscript(c, r) == [facts |-> Facts(c, r), challenge |-> NoChallenge, roles |-> 0]

-----------------------------------------------------------------------------
(***************************************************************************)
(* The frames and the transcript's decisions.                              *)
(***************************************************************************)
Hello(o) == [kind |-> "Hello", offer |-> o]

AcceptFrame(t, c) == [kind |-> "Accept", facts |-> t.facts, challenge |-> c]

RejectFrame(reason, c) == [kind |-> "Reject", reason |-> reason, challenge |-> c]

\* The frame that carries an application's decision.
Decision(t, d, c) == IF d = Accept THEN AcceptFrame(t, c) ELSE RejectFrame(d, c)

\* The receiver's decision without the challenge it must echo.
AcceptsWithoutEcho(t, m, from) ==
    /\ IF from = C THEN t.roles = 0 ELSE t.roles = 1
    /\ m.facts = t.facts

\* validate_accept: order, challenge, and the exact frame.
Accepts(t, m, from) ==
    /\ IF from = C THEN t.roles = 0 ELSE t.roles = 1 /\ m.challenge = t.challenge
    /\ m.facts = t.facts

\* A rejection taken without the echo, and only the coordinator's taken.
RejectsWithoutEcho(t, m, from) == IF from = C THEN t.roles = 0 ELSE t.roles = 1

RejectsOnlyFirst(t, m, from) == t.roles = 0

\* validate_reject.
Rejects(t, m, from) ==
    IF from = C THEN t.roles = 0 ELSE t.roles = 1 /\ m.challenge = t.challenge

\* The bit assigned instead of added.
AcceptedOverwrites(t, from, c) ==
    [t EXCEPT !.roles = IF from = C THEN 1 ELSE 2,
              !.challenge = IF from = C THEN c ELSE @]

\* What a successful validate_accept leaves behind.
Accepted(t, from, c) ==
    [t EXCEPT !.roles = IF from = C THEN 1 ELSE 3,
              !.challenge = IF from = C THEN c ELSE @]

Terminal(t) == [t EXCEPT !.roles = Spent]

-----------------------------------------------------------------------------
Init ==
    /\ pc = [e \in Ends |-> IF e = C THEN "SendHello" ELSE "AwaitHello"]
    /\ offer \in [Ends -> {o \in Offers : ValidOffer(o)}]
    /\ transcript = [e \in Ends |-> NoTranscript]
    /\ chan = [e \in Ends |-> <<>>]
    /\ socket = [e \in Ends |-> TRUE]
    /\ alive = TRUE
    /\ condemned = FALSE
    /\ outcome = [e \in Ends |-> Open]
    /\ decided = [e \in Ends |-> Undecided]
    /\ early = FALSE
    /\ faulted = FALSE

Goto(e, place) == pc' = [pc EXCEPT ![e] = place] /\ UNCHANGED <<socket, outcome>>

Sent(e, m) == chan' = [chan EXCEPT ![Peer(e)] = Append(@, m)]

Take(e, place) == pc[e] = place /\ chan[e] # <<>> /\ chan' = [chan EXCEPT ![e] = Tail(@)]

\* A coordinator's call that will not be Ready: the child goes first.
Conclude(result) ==
    /\ pc' = [pc EXCEPT ![C] = "Terminate"]
    /\ outcome' = [outcome EXCEPT ![C] = result]
    /\ UNCHANGED socket

\* A receiver's call returns; only a Ready session keeps the endpoint.
Return(result) ==
    /\ pc' = [pc EXCEPT ![R] = "Done"]
    /\ outcome' = [outcome EXCEPT ![R] = result]
    /\ socket' = [socket EXCEPT ![R] = result = Ready]

Stop(e, result) == IF e = C THEN Conclude(result) ELSE Return(result)

-----------------------------------------------------------------------------
(***************************************************************************)
(* exchange_coordinator_hello and receive_inherited_hello_owned.           *)
(***************************************************************************)
CoordinatorHello ==
    /\ pc[C] = "SendHello" /\ socket[R]
    /\ Sent(C, Hello(offer[C]))
    /\ Goto(C, "AwaitHello")
    /\ UNCHANGED <<offer, transcript, alive, condemned, decided, early, faulted>>

\* The receiver answers before it knows whether the two offers fit.
ReceiverHello ==
    /\ pc[R] = "AwaitHello" /\ chan[R] # <<>> /\ socket[C]
    /\ chan' = [chan EXCEPT ![R] = Tail(@), ![C] = Append(@, Hello(offer[R]))]
    /\ LET peer == Head(chan[R]).offer
       IN IF Compatible(peer, offer[R])
          THEN /\ transcript' = [transcript EXCEPT ![R] = NewTranscript(peer, offer[R])]
               /\ Goto(R, "AwaitDecision")
          ELSE Return(Failed) /\ UNCHANGED transcript
    /\ UNCHANGED <<offer, alive, condemned, decided, early, faulted>>

CoordinatorReduces ==
    /\ Take(C, "AwaitHello")
    /\ LET m == Head(chan[C])
       IN IF m.kind = "Hello" /\ Compatible(offer[C], m.offer)
          THEN /\ transcript' = [transcript EXCEPT ![C] = NewTranscript(offer[C], m.offer)]
               /\ Goto(C, "Decide")
          ELSE Conclude(Failed) /\ UNCHANGED transcript
    /\ UNCHANGED <<offer, alive, condemned, decided, early, faulted>>

-----------------------------------------------------------------------------
(***************************************************************************)
(* The decisions: decide_with_entropy_fault, await_coordinator_decision    *)
(* and ReceiverDecisionPending::decide.                                    *)
(***************************************************************************)
\* Challenges of records under way: a fresh one is none of them.
Guessed ==
    {chan[C][i].challenge : i \in {j \in DOMAIN chan[C] : chan[C][j].kind # "Hello"}}

CoordinatorDecides(d, c) ==
    /\ pc[C] = "Decide" /\ socket[R] /\ c \notin Guessed
    /\ decided' = [decided EXCEPT ![C] = d]
    /\ transcript' = [transcript EXCEPT ![C] =
                         IF d = Accept THEN Accepted(@, C, c) ELSE Terminal(@)]
    /\ Sent(C, Decision(transcript[C], d, c))
    /\ Goto(C, IF d = Accept THEN "AwaitDecision" ELSE "Sent")
    /\ UNCHANGED <<offer, alive, condemned, early, faulted>>

\* The send of a rejection has returned in time.
CoordinatorReturns ==
    /\ pc[C] = "Sent"
    /\ Conclude(Rejected(C, decided[C]))
    /\ UNCHANGED <<offer, transcript, chan, alive, condemned, decided, early, faulted>>

\* The application asked whatever the coordinator decided.
ReceiverTakesAnyDecision ==
    /\ Take(R, "AwaitDecision")
    /\ transcript' = [transcript EXCEPT ![R] = Accepted(@, C, Head(chan[R]).challenge)]
    /\ Goto(R, "Decide")
    /\ UNCHANGED <<offer, alive, condemned, decided, early, faulted>>

\* The application's callback runs only on the way through here.
ReceiverTakesDecision ==
    /\ Take(R, "AwaitDecision")
    /\ LET m == Head(chan[R])
           t == transcript[R]
           good == \/ m.kind = "Accept" /\ Accepts(t, m, C)
                   \/ m.kind = "Reject" /\ Rejects(t, m, C)
       IN /\ transcript' = [transcript EXCEPT ![R] =
                               IF good /\ m.kind = "Accept"
                               THEN Accepted(t, C, m.challenge)
                               ELSE Terminal(t)]
          /\ IF ~good THEN Return(Failed)
             ELSE IF m.kind = "Accept" THEN Goto(R, "Decide")
             ELSE Return(Rejected(C, m.reason))
    /\ UNCHANGED <<offer, alive, condemned, decided, early, faulted>>

\* The receiver's own ACCEPT is validated, and its REJECT ends the transcript,
\* before the frame goes.
ReceiverDecides(d) ==
    /\ pc[R] = "Decide" /\ socket[C]
    /\ decided' = [decided EXCEPT ![R] = d]
    /\ transcript' = [transcript EXCEPT ![R] =
                         IF d = Accept THEN Accepted(@, R, @.challenge) ELSE Terminal(@)]
    /\ Sent(R, Decision(transcript[R], d, transcript[R].challenge))
    /\ Goto(R, "Sent")
    /\ UNCHANGED <<offer, alive, condemned, early, faulted>>

\* The send has returned in time: take_accepted_facts consumes the transcript
\* of a Ready receiver.
ReceiverReturns ==
    /\ pc[R] = "Sent"
    /\ transcript' = [transcript EXCEPT ![R] = Terminal(@)]
    /\ Return(IF decided[R] = Accept THEN Ready ELSE Rejected(R, decided[R]))
    /\ UNCHANGED <<offer, chan, alive, condemned, decided, early, faulted>>

CoordinatorTakesDecision ==
    /\ Take(C, "AwaitDecision")
    /\ LET m == Head(chan[C])
           t == transcript[C]
           good == \/ m.kind = "Accept" /\ Accepts(t, m, R)
                   \/ m.kind = "Reject" /\ Rejects(t, m, R)
       IN /\ transcript' = [transcript EXCEPT ![C] =
                               IF good /\ m.kind = "Accept"
                               THEN Accepted(t, R, m.challenge)
                               ELSE Terminal(t)]
          /\ IF ~good THEN Conclude(Failed)
             ELSE IF m.kind = "Accept" THEN Goto(C, "Confirm")
             ELSE Conclude(Rejected(R, m.reason))
    /\ UNCHANGED <<offer, alive, condemned, decided, early, faulted>>

\* ensure_live, matches_process_image, ensure_live, into_evidence.
Confirm ==
    /\ pc[C] = "Confirm"
    /\ transcript' = [transcript EXCEPT ![C] = Terminal(@)]
    /\ IF alive
       THEN /\ pc' = [pc EXCEPT ![C] = "Done"]
            /\ outcome' = [outcome EXCEPT ![C] = Ready]
            /\ UNCHANGED socket
       ELSE Conclude(Failed)
    /\ UNCHANGED <<offer, chan, alive, condemned, decided, early, faulted>>

-----------------------------------------------------------------------------
(***************************************************************************)
(* Failures.                                                               *)
(***************************************************************************)
\* A clean rejection that leaves the child running.
TerminateForgotten ==
    /\ pc[C] = "Terminate"
    /\ pc' = [pc EXCEPT ![C] = "Done"]
    /\ socket' = [socket EXCEPT ![C] = FALSE]
    /\ condemned' = (outcome[C] = Failed)
    /\ UNCHANGED <<offer, transcript, chan, alive, outcome, decided, early, faulted>>

\* terminate_and_reap has begun; the endpoint closes with the session.
Terminate ==
    /\ pc[C] = "Terminate"
    /\ pc' = [pc EXCEPT ![C] = "Done"]
    /\ socket' = [socket EXCEPT ![C] = FALSE]
    /\ condemned' = TRUE
    /\ UNCHANGED <<offer, transcript, chan, alive, outcome, decided, early, faulted>>

\* The peer's end is gone: nothing can be sent, and nothing more arrives.  What
\* follows a send, and the checks of Confirm, do not look at the socket.
Lost(e) ==
    /\ ~socket[Peer(e)]
    /\ pc[e] \notin {"Sent", "Confirm"}
    /\ pc[e] \in {"SendHello", "Decide"} \/ <<e, pc[e]>> = <<R, "AwaitHello">> \/ chan[e] = <<>>

\* A deadline before the socket access or after it (AmbiguousAfterSend, with the
\* decision on its way to the peer), a native error, a lost peer, or an
\* application that drops the session instead of deciding.
Fail(e) ==
    /\ pc[e] \notin {"Terminate", "Done"}
    /\ faulted' = (faulted \/ ~Lost(e))
    /\ Stop(e, Failed)
    /\ UNCHANGED <<offer, transcript, chan, alive, condemned, decided, early>>

\* The child ends by itself or by the signal; its call never returns.
ChildEnds ==
    /\ alive
    /\ alive' = FALSE
    /\ faulted' = (faulted \/ ~condemned)
    /\ pc' = [pc EXCEPT ![R] = "Done"]
    /\ socket' = [socket EXCEPT ![R] = FALSE]
    /\ UNCHANGED <<offer, transcript, chan, condemned, outcome, decided, early>>

\* The child's own program puts a decision on the channel before its call has
\* read the coordinator's.  It knows the facts, not the challenge to come.
EarlyDecision(d, c) ==
    /\ ~early /\ pc[R] = "AwaitDecision" /\ chan[R] = <<>>
    /\ decided[C] = Undecided /\ socket[C]
    /\ early' = TRUE
    /\ Sent(R, Decision(transcript[R], d, c))
    /\ UNCHANGED <<pc, offer, transcript, socket, alive, condemned, outcome, decided, faulted>>

Decide ==
    \E d \in Reasons \cup {Accept} :
        \/ ReceiverDecides(d)
        \/ \E c \in Challenges : CoordinatorDecides(d, c)

Steps ==
    \/ CoordinatorHello \/ ReceiverHello \/ CoordinatorReduces
    \/ ReceiverTakesDecision \/ CoordinatorTakesDecision
    \/ CoordinatorReturns \/ ReceiverReturns \/ Confirm \/ Terminate

Next ==
    \/ Steps
    \/ Decide
    \/ ChildEnds
    \/ \E d \in Reasons \cup {Accept}, c \in Challenges : EarlyDecision(d, c)
    \/ \E e \in Ends : Fail(e)

Spec == Init /\ [][Next]_vars

\* Each call runs to its next socket access, the applications decide, and a
\* signalled process ends.  Nothing is assumed of failures.
Fairness ==
    /\ WF_vars(Steps) /\ WF_vars(Decide)
    /\ WF_vars(condemned /\ ChildEnds)
    /\ \A e \in Ends : WF_vars(Lost(e) /\ Fail(e))

FairSpec == Spec /\ Fairness

-----------------------------------------------------------------------------
(***************************************************************************)
(* Properties.                                                             *)
(***************************************************************************)
Places == {"SendHello", "AwaitHello", "Decide", "Sent", "AwaitDecision", "Confirm",
           "Terminate", "Done"}

\* Every place, transcript and outcome is one the code has, accepted_roles is
\* one of the four values the transcript moves through, and an endpoint that
\* is Ready has spent its transcript (take_accepted_facts).
TypeInv ==
    /\ pc \in [Ends -> Places]
    /\ offer \in [Ends -> Offers]
    /\ \A e \in Ends :
        /\ transcript[e].roles \in {0, 1, 3, Spent}
        /\ transcript[e].challenge \in Challenges \cup {NoChallenge}
        /\ outcome[e].result \in {"Open", "Ready", "Failed", "Rejected"}
        /\ outcome[e] = Ready => transcript[e].roles = Spent
    /\ socket \in [Ends -> BOOLEAN]
    /\ {alive, condemned, early, faulted} \subseteq BOOLEAN
    /\ decided \in [Ends -> Reasons \cup {Accept, Undecided}]

\* A session the coordinator calls Ready was accepted by both applications,
\* on the same facts and under the same challenge: the final exact ACCEPT is the
\* only way there, and no record that was queued before the coordinator decided
\* counts as the receiver's answer (validate_accept, decide_with_entropy_fault).
\* The receiver's call may have failed after that ACCEPT was sent.
CoordinatorReadyIsMutual ==
    outcome[C] = Ready =>
        /\ decided[C] = Accept /\ decided[R] = Accept
        /\ transcript[C].facts = transcript[R].facts
        /\ transcript[C].challenge = transcript[R].challenge

\* A receiver that is Ready, or whose application was asked at all, follows a
\* coordinator that accepted the same facts under the same challenge
\* (decide_after_coordinator runs the callback only on a pending decision).
ReceiverFollowsCoordinator ==
    decided[R] # Undecided =>
        /\ decided[C] = Accept
        /\ transcript[R].facts = transcript[C].facts
        /\ transcript[R].challenge = transcript[C].challenge

\* A rejection either side reports names the application that rejected and
\* the reason it gave; an early record never passes for one.
RejectionsAreTrue ==
    \A e \in Ends :
        outcome[e].result = "Rejected" => decided[outcome[e].by] = outcome[e].reason

\* What the two sides go on with is within both offers: every required feature
\* selected, nothing selected that one side lacks, limits of neither exceeded
\* (from_hello_pair, SessionLimits::negotiate).
ReadyIsWithinBothOffers ==
    \A e \in Ends : outcome[e] = Ready =>
        LET f == transcript[e].facts
        IN \A x \in Ends :
            /\ offer[x].required \subseteq f.features
            /\ f.features \subseteq offer[x].supported \cap offer[x].lockFree \cap Known
            /\ \A l \in DOMAIN HardMaximum : f.limits[l] \in 1..offer[x].limits[l]

\* A coordinator that does not end Ready ends the child: no rejection and no
\* failure leaves a process behind (terminate_and_reap on every other path).
UnreadyChildEnds == (outcome[C].result \in {"Failed", "Rejected"}) ~> ~alive

\* Every negotiation concludes: whatever fails, neither side waits for the
\* other for ever, and where nothing failed and the offers fit, the coordinator
\* reports Ready or a rejection, and Ready at both ends (the order of sends and
\* waits in both halves, poll_socket on a closed peer).
NegotiationConcludes ==
    <>(/\ pc = [e \in Ends |-> "Done"]
       /\ (~faulted /\ ~early /\ Compatible(offer[C], offer[R])) =>
            \/ outcome[C].result = "Rejected"
            \/ outcome[C] = Ready /\ outcome[R] = Ready)

=============================================================================
