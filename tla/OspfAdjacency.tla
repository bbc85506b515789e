--------------------------- MODULE OspfAdjacency ---------------------------
(***************************************************************************)
(* The neighbour state machine, the database-description exchange and the *)
(* request / update / acknowledgement handlers of OspfRouting             *)
(* (ospf/ospf.cc), for a set of routers joined by point-to-point links.    *)
(*                                                                         *)
(* One step of a router is one call into OspfRouting from the simulator:   *)
(* the reception of one message, the expiry of one timer, or one round of *)
(* Hellos.  Each such handler is modelled whole: a record of the router's *)
(* own state (its neighbour records, retransmission records, inactivity   *)
(* timers, neighbour and adjacency lists, database and outgoing messages) *)
(* is threaded through the sub-events the handler calls, in code order,  *)
(* and committed at the end.                                              *)
(*                                                                         *)
(* Data abstraction: an LSA is a router LSA, identified by its            *)
(* advertising router, with a sequence number and the set of links that  *)
(* are up.  LSA ages are not modelled (no aging, no MaxAge); the aging    *)
(* manager and the freshness compare with ages are in LsaAging and        *)
(* LsaCompare.  Messages are records; a retransmission resends the very   *)
(* record that was stored, as the code resends the stored message id.     *)
(***************************************************************************)
EXTENDS Naturals, Sequences, FiniteSets

LOCAL INSTANCE SequencesExt

CONSTANTS
    Router,         \* node ids (naturals: the code orders them)
    Peers,          \* Peers[r]: the nodes r has a point-to-point link to
    DDSeqStart,     \* values NOW can have when a DD sequence starts
    MaxLoss,        \* messages the message store or a link queue may drop
    LossTypes,      \* the message types that may be dropped
    MaxDown,        \* inactivity timer expiries (lost runs of Hellos)
    MaxCost,        \* link-cost changes signalled by the Tcl agent
    EarlyTimeout,   \* may a retransmission timer fire while traffic is in flight
    None            \* absent LSA, absent message

ASSUME Router \subseteq Nat \ {0}
ASSUME Peers \in [Router -> SUBSET Router]
ASSUME \A r \in Router : r \notin Peers[r] /\ \A p \in Peers[r] : r \in Peers[p]
ASSUME DDSeqStart \subseteq Nat /\ EarlyTimeout \in BOOLEAN
ASSUME LossTypes \subseteq {"DD", "Req", "Upd", "Ack"}

(* StateN_type_t, ospf.h: the neighbour states, in their numeric order.    *)
DOWN == 0
ATTEMPT == 1
INIT == 2
TWO_WAY == 3
EX_START == 4
EXCHANGE == 5
LOADING == 6
FULL == 7

(* LS_INVALID_MESSAGE_ID (linkstate/ls.h): the unset DD sequence number.   *)
Invalid == 0

Pairs == {<<r, n>> \in Router \X Router : n \in Peers[r]}

LSA == [adv : Router, seq : Nat, up : SUBSET Router]
Header == [adv : Router, seq : Nat]
Hdr(l) == [adv |-> l.adv, seq |-> l.seq]

DDMsg == [type : {"DD"}, i : {0, 1}, m : {0, 1}, ms : {0, 1}, seq : Nat,
          summary : SUBSET Header \cup {None}]
ReqMsg == [type : {"Req"}, keys : SUBSET Router]
UpdMsg == [type : {"Upd"}, origin : Router, lsas : Seq(LSA)]
AckMsg == [type : {"Ack"}, origin : Router, hdr : Header]
Msg == DDMsg \cup ReqMsg \cup UpdMsg \cup AckMsg

(* OspfNeighbour: state_, masterSlave_, ddSeq_, lsHeaderList_,             *)
(* lsRetransmissionList_ (a list: duplicates and order kept) and           *)
(* lsRequestList_ (ids of LSAs, in advertising-router order).             *)
NbrRec == [st : DOWN..FULL, ms : {0, 1}, seq : Nat, hdrs : SUBSET Header,
           rtx : Seq(LSA), req : SUBSET Router]

(* OspfUnackPeer: DdSeq_ (msg id and seq), ReqSeq_, UpdateMap_ (one       *)
(* message per origin node), ackTimer_ and updateTimer_.                   *)
RxRec == [dd : [seq : Nat, msg : DDMsg] \cup {None}, req : ReqMsg \cup {None},
          upd : [Router -> UpdMsg \cup {None}], ackT : BOOLEAN, updT : BOOLEAN]

VARIABLES
    nbr,        \* nbr[<<r, n>>]: r's OspfNeighbour record for n
    rxmt,       \* rxmt[<<r, n>>]: r's retransmission record for n
    inact,      \* inact[<<r, n>>]: r's inactivity timer for n is scheduled
    nbrList,    \* nbrList[r]: neighbourIdList, the ids r has heard
    adjList,    \* adjList[r]: adyacentsIdList
    db,         \* db[r][o]: the LSA of o in r's database, or None
    chan,       \* chan[<<s, d>>]: messages on the link from s to d (FIFO)
    hello,      \* hello[<<s, d>>]: a Hello of s is on its way to d
    lost,       \* messages dropped so far
    downs,      \* inactivity expiries so far
    costs       \* link-cost changes signalled so far

vars == <<nbr, rxmt, inact, nbrList, adjList, db, chan, hello, lost, downs, costs>>

NoPending == [dd |-> None, req |-> None, upd |-> [o \in Router |-> None],
              ackT |-> FALSE, updT |-> FALSE]

-----------------------------------------------------------------------------
(***************************************************************************)
(* A router's view, threaded through the sub-events of one handler.        *)
(***************************************************************************)
Ctx(r) == [nb    |-> [n \in Peers[r] |-> nbr[<<r, n>>]],
           rx    |-> [n \in Peers[r] |-> rxmt[<<r, n>>]],
           inact |-> [n \in Peers[r] |-> inact[<<r, n>>]],
           nbrs  |-> nbrList[r],
           adj   |-> adjList[r],
           db    |-> db[r],
           out   |-> [n \in Peers[r] |-> <<>>]]

(* Write the view back; chan0 is the channel state after the handled      *)
(* message was taken off its link.                                         *)
Commit(r, c, chan0) ==
    /\ nbr' = [p \in Pairs |-> IF p[1] = r THEN c.nb[p[2]] ELSE nbr[p]]
    /\ rxmt' = [p \in Pairs |-> IF p[1] = r THEN c.rx[p[2]] ELSE rxmt[p]]
    /\ inact' = [p \in Pairs |-> IF p[1] = r THEN c.inact[p[2]] ELSE inact[p]]
    /\ nbrList' = [nbrList EXCEPT ![r] = c.nbrs]
    /\ adjList' = [adjList EXCEPT ![r] = c.adj]
    /\ db' = [db EXCEPT ![r] = c.db]
    /\ chan' = [p \in Pairs |-> IF p[1] = r THEN chan0[p] \o c.out[p[2]]
                                             ELSE chan0[p]]

-----------------------------------------------------------------------------
(***************************************************************************)
(* Neighbour-record helpers (OspfNeighbourMap).                            *)
(***************************************************************************)

(* incDDseq: an unset sequence number starts at NOW, then adds one.        *)
IncDDseq(s, now) == (IF s = Invalid THEN now ELSE s) + 1

(* delAllLists: the header and request lists are erased; the              *)
(* retransmission list is erased only when it is already empty.            *)
DelAllLists(c, n) ==
    [c EXCEPT !.nb[n].hdrs = {}, !.nb[n].req = {},
              !.nb[n].rtx = IF @ = <<>> THEN <<>> ELSE @]

(* lookupLSARetrans / delLSARetrans match on the LSA key only.             *)
OnRtx(c, n, o) == \E i \in 1..Len(c.nb[n].rtx) : c.nb[n].rtx[i].adv = o
DelLSARetrans(c, n, o) ==
    [c EXCEPT !.nb[n].rtx = RemoveFirstMatch(@, LAMBDA l : l.adv = o)]

(* addLSARetrans: the LSA is appended to the retransmission list.          *)
AddLSARetrans(c, n, l) == [c EXCEPT !.nb[n].rtx = Append(@, l)]

(* lookupLSAReq / delLSARequest: the request list holds LSA keys, each once. *)
LookupLSAReq(c, n, o) == o \in c.nb[n].req
DelLSARequest(c, n, o) == [c EXCEPT !.nb[n].req = @ \ {o}]

(* OspfInactivityManager::messageIn(HELLO): the inactivity timer is       *)
(* rescheduled.                                                            *)
InactivityMessageIn(c, n) == [c EXCEPT !.inact[n] = TRUE]

(* addNeighbourToList / addAdyacentToList append an id not yet listed;    *)
(* the del variants erase it if it is there.                               *)
AddNeighbourToList(c, n) == [c EXCEPT !.nbrs = @ \cup {n}]
DelNeighbourFromList(c, n) == [c EXCEPT !.nbrs = @ \ {n}]
AddAdyacentToList(c, n) == [c EXCEPT !.adj = @ \cup {n}]
DelAdyacentFromList(c, n) == [c EXCEPT !.adj = @ \ {n}]

(* isTwoWayConectivity: r is in the neighbour list the Hello of n points  *)
(* at, which is n's list as it is when the Hello is read.                  *)
IsTwoWayConectivity(r, n) == r \in nbrList[n]

(* OspfTopoMap::delLSA erases the stored instance of o's LSA;              *)
(* insertLinkState appends to o's list, which delLSA has just emptied (or *)
(* which was never there), so the new instance is the one stored.          *)
DelLSA(c, o) == [c EXCEPT !.db[o] = None]
InsertLinkState(c, o, l) == [c EXCEPT !.db[o] = l]

(* lookupLSA(header): the freshness compare, ages left out.                *)
Compare(h, dbl) ==
    CASE dbl = None     -> "NoExist"
      [] h.seq < dbl.seq -> "Older"
      [] h.seq > dbl.seq -> "Newer"
      [] OTHER           -> "Equals"

Stored(c) == {o \in Router : c.db[o] # None}

-----------------------------------------------------------------------------
(***************************************************************************)
(* Retransmission manager (OspfRetransmissionManager).                     *)
(***************************************************************************)

(* messageIn(DD): the pending DD is acknowledged by a DD with its seq.    *)
RxDDIn(c, n, seq) ==
    LET rx1 == IF c.rx[n].dd # None /\ c.rx[n].dd.seq = seq
               THEN [c.rx[n] EXCEPT !.dd = None] ELSE c.rx[n]
    IN  [c EXCEPT !.rx[n] = IF rx1.dd = None /\ rx1.req = None
                            THEN [rx1 EXCEPT !.ackT = FALSE] ELSE rx1]

(* messageIn(UPDATE): the pending request is answered.                     *)
RxUpdateIn(c, n) ==
    [c EXCEPT !.rx[n].req = None,
              !.rx[n].ackT = IF c.rx[n].dd = None THEN FALSE ELSE @]

(* messageIn(ACK): every pending update to n is forgotten.                 *)
RxAckIn(c, n) ==
    [c EXCEPT !.rx[n].upd = [o \in Router |-> None], !.rx[n].updT = FALSE]

(* cancelTimer                                                             *)
CancelTimer(c, n) == [c EXCEPT !.rx[n] = NoPending]

(* Mutant: the pending DD entry (sequence number and message) is resent   *)
(* in place of the message it refers to.                                   *)
ResendMessagesWrongEntry(c, n) ==
    LET rx == c.rx[n]
        pend == {o \in Router : rx.upd[o] # None}
        upds == [i \in 1..Cardinality(pend) |->
                    rx.upd[SetToSortSeq(pend, <)[i]]]
    IN  CASE rx.dd # None ->
               [c EXCEPT !.out[n] = Append(@, rx.dd), !.rx[n].ackT = TRUE]
          [] rx.req # None ->
               [c EXCEPT !.out[n] = Append(@, rx.req), !.rx[n].ackT = TRUE]
          [] pend # {} ->
               [c EXCEPT !.out[n] = @ \o upds, !.rx[n].updT = TRUE]
          [] OTHER -> c

(* resendMessages: the pending DD, else the pending request, else every   *)
(* update of UpdateMap_ in origin order; the timer used is rescheduled.    *)
ResendMessages(c, n) ==
    LET rx == c.rx[n]
        pend == {o \in Router : rx.upd[o] # None}
        upds == [i \in 1..Cardinality(pend) |->
                    rx.upd[SetToSortSeq(pend, <)[i]]]
    IN  CASE rx.dd # None ->
               [c EXCEPT !.out[n] = Append(@, rx.dd.msg), !.rx[n].ackT = TRUE]
          [] rx.req # None ->
               [c EXCEPT !.out[n] = Append(@, rx.req), !.rx[n].ackT = TRUE]
          [] pend # {} ->
               [c EXCEPT !.out[n] = @ \o upds, !.rx[n].updT = TRUE]
          [] OTHER -> c

-----------------------------------------------------------------------------
(***************************************************************************)
(* Senders.                                                                *)
(***************************************************************************)

(* getDdPkt: EX_START packets carry I=M=1 and no list; EXCHANGE packets    *)
(* carry I=M=0 and the whole header list.                                  *)
GetDdPkt(c, n) ==
    LET b == c.nb[n] IN
    IF b.st = EX_START
    THEN [type |-> "DD", i |-> 1, m |-> 1, ms |-> b.ms, seq |-> b.seq,
          summary |-> None]
    ELSE [type |-> "DD", i |-> 0, m |-> 0, ms |-> b.ms, seq |-> b.seq,
          summary |-> b.hdrs]

(* Mutant: an update is stored in UpdateMap_ but updateTimer_ is not      *)
(* scheduled.                                                              *)
MessageOutNoUpdTimer(c, n, m) ==
    CASE m.type = "DD"  -> [c EXCEPT !.rx[n].dd = [seq |-> m.seq, msg |-> m],
                                     !.rx[n].ackT = TRUE]
      [] m.type = "Req" -> [c EXCEPT !.rx[n].req = m, !.rx[n].ackT = TRUE]
      [] m.type = "Upd" -> [c EXCEPT !.rx[n].upd[m.origin] = m]
      [] OTHER          -> c

(* messageOut: a DD or request is remembered (for its peer) in DdSeq_ or  *)
(* ReqSeq_ and re-arms ackTimer_; an update replaces UpdateMap_[origin]   *)
(* and re-arms updateTimer_.                                               *)
MessageOut(c, n, m) ==
    CASE m.type = "DD"  -> [c EXCEPT !.rx[n].dd = [seq |-> m.seq, msg |-> m],
                                     !.rx[n].ackT = TRUE]
      [] m.type = "Req" -> [c EXCEPT !.rx[n].req = m, !.rx[n].ackT = TRUE]
      [] m.type = "Upd" -> [c EXCEPT !.rx[n].upd[m.origin] = m, !.rx[n].updT = TRUE]
      [] OTHER          -> c

(* sendDD: only a master outside EX_START arms the retransmission timer.    *)
SendDD(c, n) ==
    LET m == GetDdPkt(c, n)
        b == c.nb[n]
        c1 == IF b.ms = 1 /\ b.st # EX_START THEN MessageOut(c, n, m) ELSE c
    IN  [c1 EXCEPT !.out[n] = Append(@, m)]

(* getRequestPkt: the request list of a neighbour in EXCHANGE or LOADING  *)
(* (the only states that send one).                                        *)
GetRequestPkt(c, n) == [type |-> "Req", keys |-> c.nb[n].req]

SendRequest(c, n) ==
    LET m == GetRequestPkt(c, n)
    IN  [MessageOut(c, n, m) EXCEPT !.out[n] = Append(@, m)]

(* sendUpdate: the message's origin keys UpdateMap_ in messageOut.        *)
SendUpdate(c, o, n, lsas) ==
    LET m == [type |-> "Upd", origin |-> o, lsas |-> lsas]
    IN  [MessageOut(c, n, m) EXCEPT !.out[n] = Append(@, m)]

SendAck(c, n, o, h) ==
    [c EXCEPT !.out[n] = Append(@, [type |-> "Ack", origin |-> o, hdr |-> h])]

(* sendLSAToAdyacents: r's own LSA goes to every adjacency but one, in    *)
(* whatever state it is, and onto its retransmission list.                 *)
SendLSAToAdyacents(c, r, noDest) ==
    LET l == c.db[r]
    IN  FoldSet(LAMBDA a, acc :
                  SendUpdate(AddLSARetrans(acc, a, l), r, a, <<l>>),
                c, c.adj \ {noDest})

(* Mutant: the LSA is sent on only to FULL adjacencies.                    *)
SendFloodingFullOnly(c, r, sender, l) ==
    LET part == {a \in c.adj : c.nb[a].st >= EXCHANGE}
        clear == {a \in part : LookupLSAReq(c, a, l.adv)
                               /\ (a = sender \/ c.nb[a].st \in {EXCHANGE, LOADING})}
        tgt == {a \in part : a # sender /\ c.nb[a].st = FULL} \ clear
        c1 == FoldSet(LAMBDA a, acc : DelLSARequest(acc, a, l.adv), c, clear)
    IN  FoldSet(LAMBDA a, acc :
                  SendUpdate(AddLSARetrans(acc, a, l), l.adv, a, <<l>>),
                c1, tgt)

(* sendFlooding: a newly installed LSA goes to every adjacency in EXCHANGE *)
(* or above, except the sender and the neighbours still requesting it      *)
(* (which stop requesting it); the update's origin is the LSA's router.   *)
SendFlooding(c, r, sender, l) ==
    LET part == {a \in c.adj : c.nb[a].st >= EXCHANGE}
        clear == {a \in part : LookupLSAReq(c, a, l.adv)
                               /\ (a = sender \/ c.nb[a].st \in {EXCHANGE, LOADING})}
        tgt == {a \in part : a # sender} \ clear
        c1 == FoldSet(LAMBDA a, acc : DelLSARequest(acc, a, l.adv), c, clear)
    IN  FoldSet(LAMBDA a, acc :
                  SendUpdate(AddLSARetrans(acc, a, l), l.adv, a, <<l>>),
                c1, tgt)

(* changeRouterLSAState: when the link to linkId changes status, r's own  *)
(* LSA is re-originated with seq+1 and sent to the other adjacencies.      *)
(* (The route computation it also calls changes no protocol state.)        *)
ChangeRouterLSAState(c, r, linkId, up) ==
    LET ls == c.db[r]
        new == [adv |-> r, seq |-> ls.seq + 1,
                up |-> IF up THEN ls.up \cup {linkId} ELSE ls.up \ {linkId}]
    IN  IF ls # None /\ linkId \in Peers[r] /\ (linkId \in ls.up) # up
        THEN SendLSAToAdyacents(InsertLinkState(DelLSA(c, r), r, new), r, linkId)
        ELSE c

(* OspfTopoMap::update: the stored LSA goes back in with the next         *)
(* sequence number over the STORED list of links, down links included.  *)
(* The new list only lends its metrics (not modelled) to the links both  *)
(* have; a link only in the new list is never appended, because the test *)
(* for it compares an iterator of the old list with the end of the new   *)
(* one.  With no stored LSA the new one is inserted as it is.             *)
TopoUpdate(old, new) ==
    IF old = None THEN new ELSE [old EXCEPT !.seq = @ + 1]

(* linkStateChanged, called by rtProtoOSPF::intfChanged after the Tcl    *)
(* agent rebuilt the node's link list (get-links-status: every link of   *)
(* the node, each RouterLinkState default-constructed, so UP).  The LSA  *)
(* over that list, with the stored sequence number, is written through   *)
(* linkStateListAdvPtr_, which points at the database's own list, so the *)
(* "old" LSA OspfTopoMap::update reads back is the new one; then the      *)
(* routes are computed (no protocol state) and the LSA goes to every     *)
(* adjacency (sendLSAToAdyacents with no_dest_node = the router itself). *)
LinkStateChanged(c, r) ==
    LET ls == [adv |-> r, seq |-> c.db[r].seq, up |-> Peers[r]]
    IN  SendLSAToAdyacents(InsertLinkState(DelLSA(c, r), r, TopoUpdate(ls, ls)), r, r)

-----------------------------------------------------------------------------
(***************************************************************************)
(* Neighbour state machine events.                                         *)
(***************************************************************************)

(* helloReceivedEvent: ATTEMPT or DOWN go to INIT; the inactivity timer   *)
(* is rescheduled in every state.                                          *)
HelloReceivedEvent(c, n) ==
    InactivityMessageIn(
        [c EXCEPT !.nb[n].st = IF @ \in {ATTEMPT, DOWN} THEN INIT ELSE @], n)

(* twoWayReceivedEvent: INIT goes to EX_START as master with a new seq.     *)
TwoWayReceivedEvent(c, n, now) ==
    IF c.nb[n].st = INIT
    THEN SendDD([c EXCEPT !.nb[n].st = EX_START,
                          !.nb[n].seq = IncDDseq(@, now),
                          !.nb[n].ms = 1], n)
    ELSE c

(* oneWayReceivedEvent: from TWO_WAY or above back to INIT; the            *)
(* retransmission manager is left as it is.                                *)
OneWayReceivedEvent(c, n) ==
    IF c.nb[n].st >= TWO_WAY
    THEN DelAdyacentFromList(DelAllLists([c EXCEPT !.nb[n].st = INIT], n), n)
    ELSE c

(* SeqNumberMismatchEvent: from EXCHANGE or above back to EX_START.         *)
SeqNumberMismatchEvent(c, n, now) ==
    IF c.nb[n].st >= EXCHANGE
    THEN SendDD([DelAllLists(CancelTimer(DelAdyacentFromList(
                                 [c EXCEPT !.nb[n].st = EX_START], n), n), n)
                 EXCEPT !.nb[n].seq = IncDDseq(@, now), !.nb[n].ms = 1], n)
    ELSE c

(* BadLSReqEvent: the same return to EX_START, lists erased first.          *)
BadLSReqEvent(c, n, now) ==
    IF c.nb[n].st >= EXCHANGE
    THEN SendDD([CancelTimer(DelAllLists(DelAdyacentFromList(
                                 [c EXCEPT !.nb[n].st = EX_START], n), n), n)
                 EXCEPT !.nb[n].seq = IncDDseq(@, now), !.nb[n].ms = 1], n)
    ELSE c

(* NegDoneEvent: EX_START goes to EXCHANGE; the header list becomes the    *)
(* database summary and the retransmission list is replaced by the MaxAge *)
(* LSAs (none, as ages are not modelled here).                             *)
NegDoneEvent(c, n) ==
    IF c.nb[n].st = EX_START
    THEN SendDD([c EXCEPT !.nb[n].st = EXCHANGE,
                          !.nb[n].hdrs = {Hdr(c.db[o]) : o \in Stored(c)},
                          !.nb[n].rtx = <<>>], n)
    ELSE c

(* Mutant: FULL without looking at the request list.                        *)
ExchangeDoneEventNoReq(c, n) ==
    IF c.nb[n].st # EXCHANGE THEN c ELSE [c EXCEPT !.nb[n].st = FULL]

(* ExchangeDoneEvent: FULL when nothing is requested, else LOADING.        *)
ExchangeDoneEvent(c, n) ==
    CASE c.nb[n].st # EXCHANGE -> c
      [] c.nb[n].req = {}      -> [c EXCEPT !.nb[n].st = FULL]
      [] OTHER                 -> SendRequest([c EXCEPT !.nb[n].st = LOADING], n)

LoadingDoneEvent(c, n) ==
    IF c.nb[n].st = LOADING THEN [c EXCEPT !.nb[n].st = FULL] ELSE c

(* inactivityTimerEvent                                                    *)
InactivityTimerEvent(c, r, n) ==
    LET c1 == CancelTimer(
                DelNeighbourFromList(DelAdyacentFromList(
                    [DelAllLists(c, n) EXCEPT !.nb[n].st = DOWN, !.nb[n].ms = 0,
                                              !.nb[n].seq = Invalid], n), n), n)
    IN  ChangeRouterLSAState(c1, r, n, FALSE)

-----------------------------------------------------------------------------
(***************************************************************************)
(* Database description: negotiation and exchange.                         *)
(***************************************************************************)

(* Mutant: the router-id comparison of isSlave is left out.                 *)
IsSlaveNoId(c, r, n, m) ==
    m.i = 1 /\ m.m = 1 /\ m.ms = 1 /\ m.summary = None

(* isSlave: the neighbour's initial packet, and the neighbour's id is      *)
(* higher: become slave and adopt its sequence number.                     *)
IsSlave(c, r, n, m) ==
    m.i = 1 /\ m.m = 1 /\ m.ms = 1 /\ m.summary = None /\ n > r

(* isMaster: a slave's packet echoing our sequence number, and our id is   *)
(* higher: stay master and step the sequence number.                       *)
IsMaster(c, r, n, m) ==
    m.i = 0 /\ m.ms = 0 /\ n < r /\ m.seq = c.nb[n].seq

(* rolesDistributed, followed by NegDoneEvent when it holds.               *)
Negotiate(c, r, n, m, now) ==
    CASE IsSlave(c, r, n, m) ->
           NegDoneEvent([c EXCEPT !.nb[n].ms = 0, !.nb[n].seq = m.seq], n)
      [] IsMaster(c, r, n, m) ->
           NegDoneEvent([c EXCEPT !.nb[n].ms = 1,
                                  !.nb[n].seq = IncDDseq(@, now)], n)
      [] OTHER -> c

(* isSeqNumberMismatch: only a non-initial packet of the other role        *)
(* passes (the options always match: every router sends options (1,0)).   *)
IsSeqNumberMismatch(c, n, m) == ~(m.ms # c.nb[n].ms /\ m.i = 0)

IsPacketDuplicated(c, n, m) ==
    \/ c.nb[n].ms = 1 /\ m.seq < c.nb[n].seq
    \/ c.nb[n].ms = 0 /\ m.seq = c.nb[n].seq

(* managePacketDuplicated: the master drops it; the slave resends the     *)
(* message whose id it was given, i.e. the received packet itself.        *)
ManagePacketDuplicated(c, n, m) ==
    IF c.nb[n].ms = 0 THEN [c EXCEPT !.out[n] = Append(@, m)] ELSE c

IsNextPacketSeq(c, n, m) ==
    \/ c.nb[n].ms = 1 /\ m.seq = c.nb[n].seq
    \/ c.nb[n].ms = 0 /\ m.seq > c.nb[n].seq

(* Mutant: only the LSAs missing from the database are requested.           *)
ProcessPacketNoNewer(c, n, m, now) ==
    LET want == {h.adv : h \in {h \in m.summary : Compare(h, c.db[h.adv]) = "NoExist"}}
        c1 == IF want # {} THEN [c EXCEPT !.nb[n].req = want] ELSE c
    IN  IF c1.nb[n].ms = 1
        THEN LET c2 == [c1 EXCEPT !.nb[n].seq = IncDDseq(@, now)]
             IN  IF m.m = 0 THEN ExchangeDoneEvent(c2, n) ELSE SendDD(c2, n)
        ELSE LET c2 == SendDD([c1 EXCEPT !.nb[n].seq = m.seq], n)
             IN  IF m.m = 0 THEN ExchangeDoneEvent(c2, n) ELSE c2

(* processPacket: the headers that are missing or newer replace the       *)
(* request list (when there are any); the master steps its sequence       *)
(* number, the slave adopts the master's and answers.                      *)
ProcessPacket(c, n, m, now) ==
    LET want == {h.adv : h \in {h \in m.summary :
                        Compare(h, c.db[h.adv]) \in {"NoExist", "Newer"}}}
        c1 == IF want # {} THEN [c EXCEPT !.nb[n].req = want] ELSE c
    IN  IF c1.nb[n].ms = 1
        THEN LET c2 == [c1 EXCEPT !.nb[n].seq = IncDDseq(@, now)]
             IN  IF m.m = 0 THEN ExchangeDoneEvent(c2, n) ELSE SendDD(c2, n)
        ELSE LET c2 == SendDD([c1 EXCEPT !.nb[n].seq = m.seq], n)
             IN  IF m.m = 0 THEN ExchangeDoneEvent(c2, n) ELSE c2

(* receiveDD                                                               *)
ReceiveDD(c, r, n, m, now) ==
    LET c1 == IF c.nb[n].ms = 1 /\ c.nb[n].st # EX_START
              THEN RxDDIn(c, n, m.seq) ELSE c
        c2 == IF c1.nb[n].st = INIT
              THEN AddAdyacentToList(TwoWayReceivedEvent(c1, n, now), n)
              ELSE c1
        st == c2.nb[n].st
    IN  CASE c1.nb[n].st \in {ATTEMPT, DOWN} -> c1
          [] st = TWO_WAY -> c2
          [] st = EX_START -> Negotiate(c2, r, n, m, now)
          [] st = EXCHANGE /\ IsSeqNumberMismatch(c2, n, m) ->
               SeqNumberMismatchEvent(c2, n, now)
          [] st = EXCHANGE /\ IsPacketDuplicated(c2, n, m) ->
               ManagePacketDuplicated(c2, n, m)
          [] st = EXCHANGE /\ IsNextPacketSeq(c2, n, m) ->
               ProcessPacket(c2, n, m, now)
          [] OTHER -> SeqNumberMismatchEvent(c2, n, now)

-----------------------------------------------------------------------------
(***************************************************************************)
(* Request, update and acknowledgement.                                    *)
(***************************************************************************)

(* receiveRequest: in EXCHANGE, LOADING or FULL, answer with the          *)
(* requested LSAs (each also put on the retransmission list); an unknown  *)
(* one aborts with BadLSReqEvent after the earlier ones were listed.       *)
ReceiveRequest(c, r, n, m, now) ==
    LET keys == SetToSortSeq(m.keys, <)
        miss == {i \in 1..Len(keys) : c.db[keys[i]] = None}
        k == IF miss = {} THEN Len(keys)
             ELSE CHOOSE i \in miss : \A j \in miss : i <= j
        lsl == [i \in 1..(IF miss = {} THEN k ELSE k - 1) |-> c.db[keys[i]]]
        c1 == [c EXCEPT !.nb[n].rtx = @ \o lsl]
    IN  CASE c.nb[n].st \notin {EXCHANGE, LOADING, FULL} -> c
          [] miss # {} -> BadLSReqEvent(c1, n, now)
          [] OTHER -> SendUpdate(c1, r, n, lsl)

(* The handling of one LSA of a received update (the loop body of         *)
(* receiveUpdate); the result is the new view and whether the handler      *)
(* returned early.                                                         *)
UpdateOne(c, r, n, o, l, now) ==
    LET res == Compare(Hdr(l), c.db[l.adv])
        dbl == c.db[l.adv]
    IN  CASE res \in {"NoExist", "Newer"} ->
               LET c1 == SendFlooding(c, r, n, l)
               IN  <<SendAck(InsertLinkState(DelLSA(c1, l.adv), l.adv, l), n, o, Hdr(l)), FALSE>>
          [] LookupLSAReq(c, n, l.adv) ->
               <<BadLSReqEvent(c, n, now), TRUE>>
          [] res = "Equals" ->
               LET c1 == DelLSARetrans(c, n, l.adv)
                   c2 == IF OnRtx(c, n, l.adv) /\ c1.nb[n].rtx = <<>>
                         THEN RxAckIn(c1, n) ELSE c1
               IN  <<SendAck(c2, n, o, Hdr(l)), FALSE>>
          [] OTHER ->
               <<SendUpdate(AddLSARetrans(c, n, dbl),
                            r, n, <<dbl>>), FALSE>>

RECURSIVE UpdateLoop(_, _, _, _, _, _)
UpdateLoop(c, r, n, o, lsas, now) ==
    IF lsas = <<>> THEN <<c, FALSE>>
    ELSE LET s == UpdateOne(c, r, n, o, Head(lsas), now)
         IN  IF s[2] THEN s ELSE UpdateLoop(s[1], r, n, o, Tail(lsas), now)

(* receiveUpdate: ignored below EXCHANGE; after the loop, a LOADING       *)
(* neighbour whose request list emptied is FULL.                           *)
ReceiveUpdate(c, r, n, m, now) ==
    LET st == c.nb[n].st
        s == UpdateLoop(c, r, n, m.origin, m.lsas, now)
        c1 == s[1]
    IN  CASE st < EXCHANGE -> c
          [] ~s[2] /\ c1.nb[n].req = {} /\ st = LOADING ->
               LoadingDoneEvent(RxUpdateIn(c1, n), n)
          [] OTHER -> c1

(* receiveAck: the acknowledged LSA leaves the retransmission list; when  *)
(* the list empties, the pending updates are forgotten.                    *)
ReceiveAck(c, n, m) ==
    LET c1 == DelLSARetrans(c, n, m.hdr.adv)
    IN  CASE c.nb[n].st < EXCHANGE \/ ~OnRtx(c, n, m.hdr.adv) -> c
          [] c1.nb[n].rtx = <<>> -> RxAckIn(c1, n)
          [] OTHER -> c1

(* receiveHello: the neighbour is recorded, the link to it is up, and the *)
(* neighbour's list (read through the pointer the Hello carries, so as it *)
(* is now) decides between the two-way and the one-way event.             *)
ReceiveHello(c, r, n, now) ==
    LET c1 == HelloReceivedEvent(
                ChangeRouterLSAState(AddNeighbourToList(c, n), r, n, TRUE), n)
    IN  IF IsTwoWayConectivity(r, n)
        THEN TwoWayReceivedEvent(AddAdyacentToList(c1, n), n, now)
        ELSE OneWayReceivedEvent(c1, n)

-----------------------------------------------------------------------------
(***************************************************************************)
(* The steps of the system.                                                *)
(***************************************************************************)

(* OspfRouting::init: every neighbour DOWN, nothing pending, the database *)
(* holding r's own LSA (seq 0, every configured link up).                  *)
Init ==
    /\ nbr = [p \in Pairs |-> [st |-> DOWN, ms |-> 0, seq |-> Invalid,
                               hdrs |-> {}, rtx |-> <<>>, req |-> {}]]
    /\ rxmt = [p \in Pairs |-> NoPending]
    /\ inact = [p \in Pairs |-> FALSE]
    /\ nbrList = [r \in Router |-> {}]
    /\ adjList = [r \in Router |-> {}]
    /\ db = [r \in Router |-> [o \in Router |->
              IF o = r THEN [adv |-> r, seq |-> 0, up |-> Peers[r]] ELSE None]]
    /\ chan = [p \in Pairs |-> <<>>]
    /\ hello = [p \in Pairs |-> FALSE]
    /\ lost = 0
    /\ downs = 0
    /\ costs = 0

(* sendHellos: DOWN neighbours go to ATTEMPT; a Hello goes to every peer. *)
SendHellos(r) ==
    /\ Peers[r] # {}
    /\ nbr' = [p \in Pairs |-> IF p[1] = r /\ nbr[p].st = DOWN
                               THEN [nbr[p] EXCEPT !.st = ATTEMPT] ELSE nbr[p]]
    /\ hello' = [p \in Pairs |-> IF p[1] = r THEN TRUE ELSE hello[p]]
    /\ UNCHANGED <<rxmt, inact, nbrList, adjList, db, chan, lost, downs, costs>>

(* A Hello of s reaches d (receiveMessage -> receiveHello).                *)
RecvHello(s, d) ==
    /\ hello[<<s, d>>]
    /\ hello' = [hello EXCEPT ![<<s, d>>] = FALSE]
    /\ \E now \in DDSeqStart : Commit(d, ReceiveHello(Ctx(d), d, s, now), chan)
    /\ UNCHANGED <<lost, downs, costs>>

(* receiveMessage: the switch on the message type.                        *)
ReceiveMessage(c, r, n, m, now) ==
    CASE m.type = "DD"  -> ReceiveDD(c, r, n, m, now)
      [] m.type = "Req" -> ReceiveRequest(c, r, n, m, now)
      [] m.type = "Upd" -> ReceiveUpdate(c, r, n, m, now)
      [] m.type = "Ack" -> ReceiveAck(c, n, m)

(* The message at the head of the link from s to d, of the given type, is *)
(* handled by d.                                                           *)
Recv(s, d, type) ==
    /\ chan[<<s, d>>] # <<>>
    /\ Head(chan[<<s, d>>]).type = type
    /\ \E now \in DDSeqStart :
          Commit(d, ReceiveMessage(Ctx(d), d, s, Head(chan[<<s, d>>]), now),
                 [chan EXCEPT ![<<s, d>>] = Tail(@)])
    /\ UNCHANGED <<hello, lost, downs, costs>>

RecvDD(s, d) == Recv(s, d, "DD")
RecvRequest(s, d) == Recv(s, d, "Req")
RecvUpdate(s, d) == Recv(s, d, "Upd")
RecvAck(s, d) == Recv(s, d, "Ack")

(* The retransmission timeout is three one-way delays; unless timers may  *)
(* fire early, it expires only once the link is idle both ways.            *)
TimeoutAllowed(r, n) ==
    EarlyTimeout \/ (chan[<<r, n>>] = <<>> /\ chan[<<n, r>>] = <<>>)

(* ackTimer_ or updateTimer_ expires: resendMessages.                      *)
AckTimerExpiry(r, n) ==
    /\ rxmt[<<r, n>>].ackT
    /\ TimeoutAllowed(r, n)
    /\ Commit(r, ResendMessages([Ctx(r) EXCEPT !.rx[n].ackT = FALSE], n), chan)
    /\ UNCHANGED <<hello, lost, downs, costs>>

UpdateTimerExpiry(r, n) ==
    /\ rxmt[<<r, n>>].updT
    /\ TimeoutAllowed(r, n)
    /\ Commit(r, ResendMessages([Ctx(r) EXCEPT !.rx[n].updT = FALSE], n), chan)
    /\ UNCHANGED <<hello, lost, downs, costs>>

(* The inactivity timer of r for n expires (no Hello for the dead         *)
(* interval): setNeighbourDown -> inactivityTimerEvent.                    *)
InactivityExpiry(r, n) ==
    /\ inact[<<r, n>>]
    /\ downs < MaxDown
    /\ downs' = downs + 1
    /\ Commit(r, InactivityTimerEvent([Ctx(r) EXCEPT !.inact[n] = FALSE], r, n),
              chan)
    /\ UNCHANGED <<hello, lost, costs>>

(* The Tcl agent signals that a link cost of r changed: intfChanged.      *)
LinkCostChange(r) ==
    /\ costs < MaxCost
    /\ costs' = costs + 1
    /\ Commit(r, LinkStateChanged(Ctx(r), r), chan)
    /\ UNCHANGED <<hello, lost, downs>>

(* A message is dropped: a drop-tail queue overflows, or the message     *)
(* store recycles the entry before it is read (retrieveMessagePtr gives   *)
(* NULL and receiveMessage ignores it).                                    *)
LoseMessage(s, d) ==
    /\ lost < MaxLoss
    /\ \E i \in 1..Len(chan[<<s, d>>]) :
          /\ chan[<<s, d>>][i].type \in LossTypes
          /\ chan' = [chan EXCEPT ![<<s, d>>] = RemoveAt(@, i)]
    /\ lost' = lost + 1
    /\ UNCHANGED <<nbr, rxmt, inact, nbrList, adjList, db, hello, downs, costs>>

Next ==
    \/ \E r \in Router : SendHellos(r)
    \/ \E r \in Router : LinkCostChange(r)
    \/ \E p \in Pairs :
          \/ RecvHello(p[1], p[2])
          \/ RecvDD(p[1], p[2])
          \/ RecvRequest(p[1], p[2])
          \/ RecvUpdate(p[1], p[2])
          \/ RecvAck(p[1], p[2])
          \/ AckTimerExpiry(p[1], p[2])
          \/ UpdateTimerExpiry(p[1], p[2])
          \/ InactivityExpiry(p[1], p[2])
          \/ LoseMessage(p[1], p[2])

Spec == Init /\ [][Next]_vars

(* Fairness.  The ns-2 scheduler runs every event it has queued: a packet *)
(* on a link is delivered, a scheduled retransmission timer fires, and the *)
(* Tcl agent calls sendHellos on every hello interval; so each of those    *)
(* steps is weakly fair.  Losses and inactivity expiries are faults, with  *)
(* no fairness: they may happen, within their budgets, or not at all.      *)
(* For the messages on a link the assumption is stated on the link       *)
(* itself: a link that is not empty infinitely often has its head taken   *)
(* by the receiver (not by a loss, which counts in lost).  This is weak   *)
(* fairness of the receives of the link: it is FIFO, so the only receive  *)
(* enabled is that of its head, and it is enabled whenever the link is    *)
(* not empty.  The two timers of a neighbour are taken together, which is *)
(* weaker than fairness of each.  A Hello in flight is read the same way: *)
(* only its receipt clears the flag.                                       *)
HeadTaken(s, d) ==
    /\ chan[<<s, d>>] # <<>>
    /\ chan'[<<s, d>>] = Tail(chan[<<s, d>>])
    /\ lost' = lost

LinkDelivers(s, d) ==
    []<>(chan[<<s, d>>] = <<>>) \/ []<><<HeadTaken(s, d)>>_vars

HelloTaken(s, d) == hello[<<s, d>>] /\ ~hello'[<<s, d>>]

HelloDelivered(s, d) ==
    []<>(~hello[<<s, d>>]) \/ []<><<HelloTaken(s, d)>>_vars

Timers(s, d) == AckTimerExpiry(s, d) \/ UpdateTimerExpiry(s, d)

Fairness ==
    /\ \A r \in Router : WF_vars(SendHellos(r))
    /\ \A p \in Pairs :
          /\ HelloDelivered(p[1], p[2])
          /\ LinkDelivers(p[1], p[2])
          /\ WF_vars(Timers(p[1], p[2]))

FairSpec == Spec /\ Fairness

-----------------------------------------------------------------------------
(***************************************************************************)
(* Properties.                                                             *)
(***************************************************************************)

TypeOK ==
    /\ nbr \in [Pairs -> NbrRec]
    /\ rxmt \in [Pairs -> RxRec]
    /\ inact \in [Pairs -> BOOLEAN]
    /\ \A r \in Router : nbrList[r] \subseteq Peers[r] /\ adjList[r] \subseteq Peers[r]
    /\ db \in [Router -> [Router -> LSA \cup {None}]]
    /\ chan \in [Pairs -> Seq(Msg)]
    /\ hello \in [Pairs -> BOOLEAN]
    /\ lost \in 0..MaxLoss /\ downs \in 0..MaxDown /\ costs \in 0..MaxCost

(* Role agreement (isSlave / isMaster, kept through every later event):   *)
(* when two routers are both in EXCHANGE or above with each other,        *)
(* exactly one of them is master.                                          *)
MasterSlaveConsistent ==
    \A p \in Pairs :
        nbr[p].st >= EXCHANGE /\ nbr[<<p[2], p[1]>>].st >= EXCHANGE
        => nbr[p].ms + nbr[<<p[2], p[1]>>].ms = 1

(* Synchronisation (DD exchange, request and flooding together): when an  *)
(* adjacency is FULL both ways and quiet (nothing in flight either way,   *)
(* nothing awaiting acknowledgement on either side), the two databases    *)
(* hold the same instance of every LSA.                                    *)
Quiet(r, n) ==
    /\ chan[<<r, n>>] = <<>> /\ chan[<<n, r>>] = <<>>
    /\ nbr[<<r, n>>].rtx = <<>> /\ nbr[<<n, r>>].rtx = <<>>
SyncWhenQuiet ==
    \A p \in Pairs :
        LET r == p[1]  n == p[2] IN
        nbr[<<r, n>>].st = FULL /\ nbr[<<n, r>>].st = FULL /\ Quiet(r, n)
        => \A o \in Router : db[r][o] = db[n][o]

(* Transit flooding (sendFlooding after receiveUpdate or processPacket): *)
(* when every adjacency is FULL and quiet, every router holds the same    *)
(* database, including the LSAs of routers it is not adjacent to, which   *)
(* only reach it through a neighbour's flooding or database summary.      *)
SyncAllWhenQuiet ==
    (\A p \in Pairs : nbr[p].st = FULL /\ Quiet(p[1], p[2]))
    => \A r, q \in Router : db[r] = db[q]

(* The neighbour state machine as the spec describes it (NeighbourFSM),  *)
(* seen through r's state for n and whether its request list is empty.   *)
NSM == INSTANCE NeighbourFSM
         WITH st <- [p \in Pairs |-> nbr[p].st],
              pending <- [p \in Pairs |-> nbr[p].req # {}]

(* Every change the event handlers (helloReceivedEvent ... inactivity-    *)
(* TimerEvent, and the request-list updates of processPacket, receive-    *)
(* Update and sendFlooding) make to a neighbour's state and request list  *)
(* is a transition of the spec's state machine: no state is skipped, no   *)
(* regression goes anywhere the spec does not send it, and FULL is never  *)
(* entered, nor held, with LSAs still to request.                          *)
RefinesNeighbourFSM == NSM!Spec

(* Dead links stay down (spec 4.2, InactivityTimerExpired "forces       *)
(* router-LSA link status to Down for that peer"): once r's own LSA       *)
(* lists its link to n as down, the link is listed as up again only by a *)
(* step in which r hears n again (receiveHello puts n back on r's        *)
(* neighbour list), whatever else r re-originates in between.              *)
LinkUpOnlyOnHello ==
    [][\A p \in Pairs :
          p[2] \notin db[p[1]][p[1]].up /\ p[2] \in db'[p[1]][p[1]].up
          => p[2] \in nbrList'[p[1]]]_vars

(* Convergence (the whole adjacency protocol, spec 1 and 4): once the    *)
(* faults are over, every adjacency reaches FULL and stays there, and the *)
(* routers at its two ends hold the same database.                         *)
Converges ==
    <>[](\A p \in Pairs : nbr[p].st = FULL /\ db[p[1]] = db[p[2]])

=============================================================================
