--------------------------- MODULE LsaLifecycle ----------------------------
(***************************************************************************)
(* The life of one router LSA: the LSA of router Orig as held by Orig and  *)
(* by its adjacent (FULL) neighbour Peer.  Modelled from ospf.cc:          *)
(*   - the freshness compare OspfTopoMap::lookupLSA, with ages (module    *)
(*     LsaCompare);                                                        *)
(*   - the database operations getLSA, insertLinkState, delLSA, incLSage;  *)
(*   - the aging timer (LsAgingManager::createLSA/ageLSA) and              *)
(*     OspfRouting::ageLSA: increment, refresh at LSRefreshTime, flush at  *)
(*     MaxAge;                                                             *)
(*   - re-origination after a link change (changeRouterLSAState) and its   *)
(*     flooding (sendLSAToAdyacents), and the refresh flooding             *)
(*     (sendFlooding);                                                     *)
(*   - the age-dependent branches of receiveUpdate and receiveAck.         *)
(*                                                                         *)
(* Ages.  An age is a double.  It counts aging ticks (one per second, one  *)
(* unit here) plus one InfTransDelay, the link's one-way delay, for every  *)
(* flooding hop the instance took.  An age is [n, d]: n ticks and d        *)
(* delays, a delay being far below one tick.  The constants MaxAge,        *)
(* RefreshTime and MaxAgeDiff are MAX_AGE, LS_REFRESH_TIME and             *)
(* MAX_AGE_DIFF in ticks, scaled by a common factor.                       *)
(***************************************************************************)
EXTENDS Integers, Sequences, FiniteSets, LsaCompare

CONSTANTS
    Orig, Peer,   \* the originating router and its neighbour
    RefreshTime,  \* LS_REFRESH_TIME
    WrapSeq,      \* OSPF_WRAPAROUND_THRESHOLD as a sequence number
    MaxChange,    \* bound on re-originations after a link change
    LinkFail      \* whether the link between the two may fail

ASSUME /\ Orig # Peer
       /\ {MaxAge, RefreshTime, MaxAgeDiff, WrapSeq, MaxChange} \subseteq Nat
       /\ LinkFail \in BOOLEAN

Router == {Orig, Peer}
Other(r) == IF r = Orig THEN Peer ELSE Orig

VARIABLES
    db,       \* db[r]: r's instance [seq, age] of Orig's router LSA, or None
    armed,    \* armed[r]: r's LsTimer_ for Orig is scheduled
    ticked,   \* routers whose aging timer fired in the current second
    chan,     \* chan[<<s, d>>]: updates and acks in flight from s to d
    rtx,      \* rtx[r]: r's lsRetransmissionList_ for Other(r)
    changes,  \* re-originations so far
    linkUp    \* the link between Orig and Peer works

vars == <<db, armed, ticked, chan, rtx, changes, linkUp>>

Chan(s, d, m) == IF linkUp THEN [chan EXCEPT ![<<s, d>>] = Append(@, m)] ELSE chan

Upd(x) == [type |-> "Upd", lsa |-> x]
Ack(x) == [type |-> "Ack", lsa |-> x]

-----------------------------------------------------------------------------
(* Init: init created Orig's LSA with sequence number 0 and age 0 and      *)
(* started its aging timer; a seconds later (before the first refresh)     *)
(* Orig answered Peer's request for it (receiveRequest: the copy goes on   *)
(* the retransmission list and is sent as it is, with its current age).   *)
Init ==
    \E a \in 0 .. RefreshTime :
    LET own == [seq |-> 0, age |-> Age(a, 0)] IN
    /\ db = [r \in Router |-> IF r = Orig THEN own ELSE None]
    /\ armed = [r \in Router |-> r = Orig]
    /\ ticked = {}
    /\ chan = [c \in {<<Orig, Peer>>, <<Peer, Orig>>} |->
                 IF c = <<Orig, Peer>> THEN <<Upd(own)>> ELSE <<>>]
    /\ rtx = [r \in Router |-> IF r = Orig THEN <<own>> ELSE <<>>]
    /\ changes = 0
    /\ linkUp = TRUE

\* Link delays are far below the one-second aging interval: a timer fires
\* only when nothing is in flight.
Settled == \A c \in DOMAIN chan : chan[c] = <<>>

\* The aging timer of r for Orig's LSA fires (LsAgingManager::ageLSA, which
\* calls OspfRouting::ageLSA and reschedules when that returns 1).
\*  - Orig's own LSA at exactly LSRefreshTime: a new instance with age 0
\*    and the sequence number of a freshly constructed header (the code
\*    assigns the new header's field to itself), installed in place of the
\*    old one and flooded to the adjacent neighbour (sendFlooding: onto the
\*    retransmission list, and sent with one more InfTransDelay).
\*  - An LSA at exactly MaxAge: kept while it is on the retransmission
\*    list of a neighbour in neighbourIdList (the neighbour is FULL,
\*    neither EXCHANGE nor LOADING), removed otherwise; in both cases the
\*    timer is not rescheduled.
\*  - Otherwise incLSage adds one second; getLSA of a missing LSA yields a
\*    header that matches neither test, and incLSage finds no LSA.
\* Mutants of ageLSA: the refresh test one tick late (> for ==); and the
\* refresh starting the new instance at OSPF's InitialSequenceNumber read
\* as a signed 32-bit value (negative; -1 here).
\* The neighbour is in neighbourIdList until its inactivity timer fires.
HeldForRetransmission(r) == linkUp /\ rtx[r] # <<>>

AgeLSARefreshLate(r) ==
    LET ls == db[r] IN
    IF ls # None /\ r = Orig /\ ls.age.n > RefreshTime
        THEN LET new == [seq |-> 0, age |-> Zero] IN
             /\ db' = [db EXCEPT ![r] = new]
             /\ rtx' = [rtx EXCEPT ![r] = Append(@, new)]
             /\ chan' = Chan(r, Other(r), Upd([new EXCEPT !.age = Hop(@)]))
             /\ UNCHANGED armed
    ELSE IF ls # None /\ AgeIs(ls.age, MaxAge)
        THEN /\ db' = [db EXCEPT ![r] = IF HeldForRetransmission(r) THEN ls ELSE None]
             /\ armed' = [armed EXCEPT ![r] = FALSE]
             /\ UNCHANGED <<rtx, chan>>
    ELSE /\ db' = IF ls = None THEN db
                  ELSE [db EXCEPT ![r].age.n = @ + 1]
         /\ UNCHANGED <<armed, rtx, chan>>

AgeLSASignedSeq(r) ==
    LET ls == db[r] IN
    IF ls # None /\ r = Orig /\ AgeIs(ls.age, RefreshTime)
        THEN LET new == [seq |-> -1, age |-> Zero] IN
             /\ db' = [db EXCEPT ![r] = new]
             /\ rtx' = [rtx EXCEPT ![r] = Append(@, new)]
             /\ chan' = Chan(r, Other(r), Upd([new EXCEPT !.age = Hop(@)]))
             /\ UNCHANGED armed
    ELSE IF ls # None /\ AgeIs(ls.age, MaxAge)
        THEN /\ db' = [db EXCEPT ![r] = IF HeldForRetransmission(r) THEN ls ELSE None]
             /\ armed' = [armed EXCEPT ![r] = FALSE]
             /\ UNCHANGED <<rtx, chan>>
    ELSE /\ db' = IF ls = None THEN db
                  ELSE [db EXCEPT ![r].age.n = @ + 1]
         /\ UNCHANGED <<armed, rtx, chan>>

AgeLSA(r) ==
    LET ls == db[r] IN
    IF ls # None /\ r = Orig /\ AgeIs(ls.age, RefreshTime)
        THEN LET new == [seq |-> 0, age |-> Zero] IN
             /\ db' = [db EXCEPT ![r] = new]
             /\ rtx' = [rtx EXCEPT ![r] = Append(@, new)]
             /\ chan' = Chan(r, Other(r), Upd([new EXCEPT !.age = Hop(@)]))
             /\ UNCHANGED armed
    ELSE IF ls # None /\ AgeIs(ls.age, MaxAge)
        THEN /\ db' = [db EXCEPT ![r] = IF HeldForRetransmission(r) THEN ls ELSE None]
             /\ armed' = [armed EXCEPT ![r] = FALSE]
             /\ UNCHANGED <<rtx, chan>>
    ELSE /\ db' = IF ls = None THEN db
                  ELSE [db EXCEPT ![r].age.n = @ + 1]
         /\ UNCHANGED <<armed, rtx, chan>>

Tick(r) ==
    /\ armed[r]
    /\ r \notin ticked
    /\ Settled
    /\ AgeLSA(r)
    /\ ticked' = ticked \cup {r}
    /\ UNCHANGED <<changes, linkUp>>

\* A second has passed once every scheduled aging timer has fired.
NextSecond ==
    /\ \A r \in Router : armed[r] => r \in ticked
    /\ ticked' = {}
    /\ UNCHANGED <<db, armed, chan, rtx, changes, linkUp>>

\* changeRouterLSAState at Orig for one of its other links: when its own
\* LSA is in the database, the instance is replaced by one with the next
\* sequence number and age 0, and sendLSAToAdyacents puts it on the
\* retransmission list for Peer and sends it with one InfTransDelay.
Originate ==
    /\ changes < MaxChange
    /\ db[Orig] # None
    /\ LET new == [seq |-> db[Orig].seq + 1, age |-> Zero] IN
       /\ db' = [db EXCEPT ![Orig] = new]
       /\ rtx' = [rtx EXCEPT ![Orig] = Append(@, new)]
       /\ chan' = Chan(Orig, Peer, Upd([new EXCEPT !.age = Hop(@)]))
    /\ changes' = changes + 1
    /\ UNCHANGED <<armed, ticked, linkUp>>

\* receiveUpdate for one LSA from a FULL neighbour s (its request list is
\* empty, so BadLSReqEvent does not arise).
\*  - A MaxAge LSA not in the database is acknowledged and, the neighbour
\*    being neither EXCHANGE nor LOADING, dropped.
\*  - A new or newer LSA is flooded (to no one but s here, which is
\*    skipped), replaces the database copy, (re)starts the aging timer and
\*    is acknowledged.
\*  - An equal one is an implicit ack when the LSA is on the retransmission
\*    list for s, and is acknowledged.
\*  - An older one is answered with the database copy, which goes onto the
\*    retransmission list, unless that copy is at MaxAge with the
\*    wraparound sequence number.
ReceiveUpdate(s, d, m) ==
    LET x   == db[d]
        res == LookupLSA(m, x)
        rest == [chan EXCEPT ![<<s, d>>] = Tail(@)]
    IN
    IF AgeIs(m.age, MaxAge) /\ res = "NO_EXIST"
       THEN /\ chan' = [rest EXCEPT ![<<d, s>>] = Append(@, Ack(m))]
            /\ UNCHANGED <<db, armed, rtx>>
    ELSE IF res \in {"NO_EXIST", "NEWER"}
       THEN /\ db' = [db EXCEPT ![d] = m]
            /\ armed' = [armed EXCEPT ![d] = TRUE]
            /\ chan' = [rest EXCEPT ![<<d, s>>] = Append(@, Ack(m))]
            /\ UNCHANGED rtx
    ELSE IF res = "EQUALS"
       THEN /\ rtx' = [rtx EXCEPT ![d] = IF @ = <<>> THEN @ ELSE Tail(@)]
            /\ chan' = [rest EXCEPT ![<<d, s>>] = Append(@, Ack(m))]
            /\ UNCHANGED <<db, armed>>
    ELSE IF AgeIs(x.age, MaxAge) /\ x.seq = WrapSeq
       THEN /\ chan' = rest
            /\ UNCHANGED <<db, armed, rtx>>
    ELSE /\ rtx' = [rtx EXCEPT ![d] = Append(@, x)]
         /\ chan' = [rest EXCEPT ![<<d, s>>] = Append(@, Upd(x))]
         /\ UNCHANGED <<db, armed>>

\* receiveAck: an ack removes the first retransmission-list entry with the
\* same LSA key, whatever its instance.
ReceiveAck(s, d) ==
    /\ rtx' = [rtx EXCEPT ![d] = IF @ = <<>> THEN @ ELSE Tail(@)]
    /\ chan' = [chan EXCEPT ![<<s, d>>] = Tail(@)]
    /\ UNCHANGED <<db, armed>>

Recv(s, d) ==
    /\ linkUp
    /\ chan[<<s, d>>] # <<>>
    /\ LET m == Head(chan[<<s, d>>]) IN
       IF m.type = "Upd" THEN ReceiveUpdate(s, d, m.lsa) ELSE ReceiveAck(s, d)
    /\ UNCHANGED <<ticked, changes, linkUp>>

\* The link fails.  Both routers stop hearing hellos and their inactivity
\* timers fire (inactivityTimerEvent; RouterDeadInterval is far below one
\* aging tick, so the two are one step here); what is in flight is lost.
\* Each router then runs changeRouterLSAState(self, other, DOWN):
\*  - Orig's own LSA, the link to Peer going down, is re-originated with
\*    the next sequence number and age 0 and sent to no one;
\*  - Peer cancels the aging timer keyed by the link id, Orig, which is
\*    the timer of its copy of Orig's LSA; Orig's cancelled timer is the
\*    one of Peer's LSA, not modelled.
\* delAllLists leaves a non-empty retransmission list in place (it erases
\* the list only when it is empty), so rtx is unchanged.
Fail ==
    /\ LinkFail /\ linkUp
    /\ linkUp' = FALSE
    /\ chan' = [c \in DOMAIN chan |-> <<>>]
    /\ db' = IF db[Orig] = None THEN db
             ELSE [db EXCEPT ![Orig] = [seq |-> @.seq + 1, age |-> Zero]]
    /\ armed' = [armed EXCEPT ![Peer] = FALSE]
    /\ UNCHANGED <<ticked, rtx, changes>>

Next ==
    \/ \E r \in Router : Tick(r)
    \/ NextSecond
    \/ Originate
    \/ \E s \in Router : Recv(s, Other(s))
    \/ Fail

Spec == Init /\ [][Next]_vars

-----------------------------------------------------------------------------
(* Properties.                                                             *)

Inst == [seq : Nat, age : [n : Nat, d : Nat]]

TypeOK ==
    /\ db \in [Router -> Inst \cup {None}]
    /\ armed \in [Router -> BOOLEAN]
    /\ ticked \subseteq Router
    /\ \A c \in DOMAIN chan : chan[c] \in Seq([type : {"Upd", "Ack"}, lsa : Inst])
    /\ rtx \in [Router -> Seq(Inst)]
    /\ changes \in 0 .. MaxChange
    /\ linkUp \in BOOLEAN

\* receiveUpdate classifies every update it takes off a link, against the
\* receiver's copy, as the order of spec section 8 does: where lookupLSA
\* and that order differ (a one-sided age gap, two MaxAge headers), no
\* exchange of one router's LSA between two neighbours -- refreshes,
\* re-originations, bounced copies, a failing link -- brings the two
\* instances together.
UpdatesClassifiedAsSpec ==
    \A c \in DOMAIN chan :
        chan[c] # <<>> /\ Head(chan[c]).type = "Upd"
           => LookupLSA(Head(chan[c]).lsa, db[c[2]]) = SpecCompare(Head(chan[c]).lsa, db[c[2]])

\* Orig always holds its own LSA, and never one older than LSRefreshTime:
\* ageLSA refreshes it when it reaches that age (spec 4.4), so every
\* neighbour keeps receiving fresh instances.
OwnLsaCurrent ==
    db[Orig] # None /\ ~AgeLess(Age(RefreshTime, 0), db[Orig].age)

\* No database holds an LSA older than MaxAge: an LSA reaching MaxAge is
\* flushed, or kept at MaxAge until its retransmission is acknowledged
\* (spec 3 and 4.4).
NoLsaBeyondMaxAge ==
    \A r \in Router : db[r] # None => ~AgeLess(Age(MaxAge, 0), db[r].age)

\* receiveUpdate replaces a router's copy of the LSA only by an instance
\* that the order of spec section 8 calls newer: through re-originations,
\* refreshes, bounced copies and a failing link, lookupLSA never lets a
\* stale instance overwrite a fresher one.
InstallsOnlyNewer ==
    [][\A r \in Router :
         Recv(Other(r), r) /\ db[r] # None /\ db'[r] # db[r]
            => SpecCompare(db'[r], db[r]) = "NEWER"]_vars

\* ageLSA's refresh keeps Orig's own instance younger than LSRefreshTime
\* in every behaviour before Orig re-originates its LSA, the failing link
\* and bounced copies of the run included (a re-origination leads to the
\* refresh_seq finding).
FaultFreeOwnLsaCurrent == changes = 0 => OwnLsaCurrent

\* No copy outlives MaxAge while the link works and before a
\* re-origination: ageLSA's flush or MaxAge refresh catches every copy
\* (a lost acknowledgement leads to the maxage_flush finding).
FaultFreeNoLsaBeyondMaxAge == changes = 0 /\ linkUp => NoLsaBeyondMaxAge

=============================================================================
