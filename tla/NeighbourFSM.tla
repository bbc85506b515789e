---------------------------- MODULE NeighbourFSM ----------------------------
(***************************************************************************)
(* What the neighbour state machine promises (spec section 4.2), as an    *)
(* abstract specification.  For every ordered pair <<r, n>> of routers on *)
(* a link it keeps r's state for n and whether r still has LSAs to        *)
(* request from n.  A step moves some pairs, each by one of the           *)
(* transitions the spec lists (Down -> Attempt starting the chain):        *)
(*   HelloReceived      Down/Attempt -> Init                               *)
(*   TwoWayReceived     Init -> ExStart                                    *)
(*   OneWayReceived     TwoWay or above -> Init, lists cleared             *)
(*   Negotiation        ExStart -> Exchange                                *)
(*   SeqNumberMismatch, BadLSReq                                           *)
(*                      Exchange or above -> ExStart, lists cleared        *)
(*   ExchangeDone       Exchange -> Full (nothing to request)              *)
(*                      or Loading (something to request)                  *)
(*   LoadingDone        Loading -> Full once nothing is left to request   *)
(*   InactivityTimerExpired                                                *)
(*                      any state -> Down, lists cleared                   *)
(* In Exchange requests are queued and dequeued; in Loading they are only *)
(* dequeued (answered, or cleared by flooding); in Full there are none.    *)
(***************************************************************************)
EXTENDS Naturals

CONSTANTS Pairs,
          DOWN, ATTEMPT, INIT, TWO_WAY, EX_START, EXCHANGE, LOADING, FULL

VARIABLES st,       \* st[p]: the state of the neighbour p[2] at router p[1]
          pending   \* pending[p]: p[1]'s request list for p[2] is not empty

States == {DOWN, ATTEMPT, INIT, TWO_WAY, EX_START, EXCHANGE, LOADING, FULL}

Init == /\ st = [p \in Pairs |-> DOWN]
        /\ pending = [p \in Pairs |-> FALSE]

\* A pair's configuration: its state and whether it has LSAs to request.
Config == States \X BOOLEAN

\* One transition of the spec, from configuration <<s, q>> to <<s2, q2>>.
Trans(s, q, s2, q2) ==
    \/ s = DOWN /\ s2 = ATTEMPT /\ q2 = q                          \* start
    \/ s \in {DOWN, ATTEMPT} /\ s2 = INIT /\ q2 = q                \* HelloReceived
    \/ s = INIT /\ s2 = EX_START /\ q2 = q                         \* TwoWayReceived
    \/ s \in {TWO_WAY, EX_START, EXCHANGE, LOADING, FULL}
          /\ s2 = INIT /\ ~q2                                      \* OneWayReceived
    \/ s = EX_START /\ s2 = EXCHANGE /\ q2 = q                     \* Negotiation
    \/ s \in {EXCHANGE, LOADING, FULL} /\ s2 = EX_START /\ ~q2      \* SeqNumberMismatch, BadLSReq
    \/ s = EXCHANGE /\ s2 = (IF q THEN LOADING ELSE FULL) /\ q2 = q   \* ExchangeDone
    \/ s = LOADING /\ ~q /\ s2 = FULL /\ ~q2                       \* LoadingDone
    \/ s2 = DOWN /\ ~q2                                            \* InactivityTimerExpired
    \/ s = EXCHANGE /\ s2 = EXCHANGE                               \* requests queued, dequeued
    \/ s = LOADING /\ q /\ s2 = LOADING /\ ~q2                     \* requests answered

\* The most events one handler raises for one neighbour (receiveDD of a
\* slave, for instance, negotiates, processes the summary and signals
\* ExchangeDone).
MaxEvents == 3

\* A chain of at most n transitions from <<s, q>> to <<s2, q2>>.
RECURSIVE Chain(_, _, _, _, _)
Chain(s, q, s2, q2, n) ==
    \/ Trans(s, q, s2, q2)
    \/ n > 1 /\ \E m \in Config : Trans(s, q, m[1], m[2]) /\ Chain(m[1], m[2], s2, q2, n - 1)

\* One event handler at one router may move several of its neighbours
\* (sendHellos starts every DOWN one), each by a chain of transitions, as
\* it raises several events in turn (receiveHello raises HelloReceived and
\* then TwoWayReceived).
Next ==
    /\ st' \in [Pairs -> States] /\ pending' \in [Pairs -> BOOLEAN]
    /\ \A p \in Pairs : \/ st'[p] = st[p] /\ pending'[p] = pending[p]
                       \/ Chain(st[p], pending[p], st'[p], pending'[p], MaxEvents)

Spec == Init /\ [][Next]_<<st, pending>>

=============================================================================
