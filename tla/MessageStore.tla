---------------------------- MODULE MessageStore ----------------------------
(***************************************************************************)
(* OspfMessageCenter (ospf/ospf.cc, ospf.h): the process-wide store of    *)
(* message bodies shared by every router.  A packet on a link carries only *)
(* the message type and id (hdr_Ospf); the receiver looks the body up by  *)
(* (id, type).  There is one map from id to body per type, and one id      *)
(* counter per type.                                                       *)
(*                                                                         *)
(* Data abstraction: a body is the number of the newMessage call of its   *)
(* type that created it (its "tag"), which is what the properties need to *)
(* tell one body from another.  Senders and receivers are not named: the  *)
(* store does not look at them.  The history of ids handed out (hist) is  *)
(* an auxiliary variable, read only by the properties.                    *)
(***************************************************************************)
EXTENDS Naturals, Sequences, FiniteSets

LOCAL INSTANCE FiniteSetsExt
LOCAL INSTANCE Functions

CONSTANTS
    Types,      \* message types in use, a subset of the five below
    Wrap,       \* OSPF_WRAPAROUND_THRESHOLD (utils.h), scaled down
    MaxSize,    \* max_size: 300, or nodes * LS_MESSAGE_CENTER_SIZE_FACTOR
    MaxMsgs,    \* bound on newMessage calls per type
    MaxResend   \* bound on retransmissions

(* Ospf_message_type_t, without OSPF_MSG_INVALID, which no packet carries. *)
MessageType == {"Hello", "DD", "Req", "Upd", "Ack"}

ASSUME Types \subseteq MessageType
ASSUME {Wrap, MaxSize, MaxMsgs, MaxResend} \subseteq Nat /\ Wrap > 0 /\ MaxSize > 0

(* LS_INVALID_MESSAGE_ID: the initial value of every id counter.           *)
Invalid == 0

(* The types whose bodies stay in the store after they are read: only an *)
(* Ack is deleted on receipt (receiveMessage).  DD, Request and Update     *)
(* messages are the ones the retransmission manager resends by id.         *)
Kept == Types \ {"Hello", "Ack"}
Resendable == Types \cap {"DD", "Req", "Upd"}

VARIABLES
    cur,     \* cur[t]: current_<t>_id
    store,   \* store[t]: <t>_messages, a function from id to body tag
    hist,    \* hist[t][k]: the id given by the k-th newMessage of type t
    net,     \* headers [t, id, tag] sent and not yet received
    resent,  \* retransmissions so far
    aborted  \* ls_error has ended the program

vars == <<cur, store, hist, net, resent, aborted>>

(* hdr_Ospf as far as the store is concerned: type_ and msgId_; the tag    *)
(* names the body the id was given to.                                     *)
Header == [t : Types, id : 0 .. Wrap, tag : 1 .. MaxMsgs]

(* getOspfHeader: the header of a new packet of type t with id msgId.     *)
GetOspfHeader(t, msgId, k) == [t |-> t, id |-> msgId, tag |-> k]

-----------------------------------------------------------------------------
(***************************************************************************)
(* OspfMessageCenter::newMessage                                           *)
(***************************************************************************)

(* Mutant: off by one at the threshold, the counter is reset only once   *)
(* it has passed it.                                                       *)
NextIdLate(t) == (IF cur[t] > Wrap THEN Invalid ELSE cur[t]) + 1

(* The id of the next message of type t: the counter goes back to         *)
(* LS_INVALID_MESSAGE_ID at the threshold, then is incremented.            *)
NextId(t) == (IF cur[t] = Wrap THEN Invalid ELSE cur[t]) + 1

(* Mutant: the store is recycled one entry early.                          *)
RecycleEarly(s) ==
    IF Cardinality(DOMAIN s) >= MaxSize - 1
    THEN Restrict(s, DOMAIN s \ {Min(DOMAIN s)}) ELSE s

(* "if max_size reached, recycle": erase begin(), the smallest id.         *)
Recycle(s) ==
    IF Cardinality(DOMAIN s) >= MaxSize THEN Restrict(s, DOMAIN s \ {Min(DOMAIN s)}) ELSE s

(* LsMap::insert: a new entry for the id.  newMessage takes an insert   *)
(* that returns end() as a failure: ls_error, which aborts the program.   *)
(* Insert is used only where the id is not stored; Collides is the case  *)
(* in which it is.                                                         *)
Insert(s, id, k) == [x \in DOMAIN s \cup {id} |-> IF x = id THEN k ELSE s[x]]

Collides(t) == NextId(t) \in DOMAIN Recycle(store[t])

(* newMessage(sender, t): the next id, the store recycled, the entry made.*)
NewMessage(t, k) == Insert(Recycle(store[t]), NextId(t), k)

-----------------------------------------------------------------------------
(***************************************************************************)
(* The steps.                                                              *)
(***************************************************************************)

(* The constructor: every counter at LS_INVALID_MESSAGE_ID, every store   *)
(* empty.                                                                  *)
Init ==
    /\ cur = [t \in Types |-> Invalid]
    /\ store = [t \in Types |-> <<>>]
    /\ hist = [t \in Types |-> <<>>]
    /\ net = {}
    /\ resent = 0
    /\ aborted = FALSE

(* sendHellos / sendDD / sendRequest / sendUpdate / sendAck: newMessage,  *)
(* the packet written into the returned entry, and sendMessage with a    *)
(* header that carries the id.  When the new id is still stored after the *)
(* recycling, the insert fails and ls_error aborts the program.           *)
Send(t) ==
    /\ ~aborted
    /\ Len(hist[t]) < MaxMsgs
    /\ \/ /\ ~Collides(t)
          /\ LET k == Len(hist[t]) + 1 IN
             /\ cur' = [cur EXCEPT ![t] = NextId(t)]
             /\ store' = [store EXCEPT ![t] = NewMessage(t, k)]
             /\ hist' = [hist EXCEPT ![t] = Append(@, NextId(t))]
             /\ net' = net \cup {GetOspfHeader(t, NextId(t), k)}
          /\ UNCHANGED <<resent, aborted>>
       \/ /\ Collides(t)
          /\ aborted' = TRUE
          /\ UNCHANGED <<cur, store, hist, net, resent>>

(* deleteMessage: erase the entry if the id is stored.                     *)
DeleteMessage(s, id) == IF id \in DOMAIN s THEN Restrict(s, DOMAIN s \ {id}) ELSE s

(* receiveMessage: retrieveMessagePtr; an id no longer stored makes the   *)
(* receiver ignore the packet; otherwise the body found is handled, and   *)
(* an Ack's entry is deleted.                                              *)
Receive(m) ==
    /\ ~aborted
    /\ m \in net
    /\ net' = net \ {m}
    /\ store' = IF m.t = "Ack" /\ m.id \in DOMAIN store[m.t]
                THEN [store EXCEPT ![m.t] = DeleteMessage(@, m.id)]
                ELSE store
    /\ UNCHANGED <<cur, hist, resent, aborted>>

(* resendMessages: the retransmission timer sends again a header with    *)
(* the id recorded when the message was first sent (DdSeq_.msgId_,        *)
(* ReqSeq_, UpdateMap_).                                                   *)
Resend(t, k) ==
    /\ ~aborted
    /\ resent < MaxResend
    /\ net' = net \cup {GetOspfHeader(t, hist[t][k], k)}
    /\ resent' = resent + 1
    /\ UNCHANGED <<cur, store, hist, aborted>>

Next ==
    \/ \E t \in Types : Send(t)
    \/ \E m \in net : Receive(m)
    \/ \E t \in Resendable : \E k \in 1 .. Len(hist[t]) : Resend(t, k)

Spec == Init /\ [][Next]_vars

-----------------------------------------------------------------------------
(***************************************************************************)
(* Properties.                                                             *)
(***************************************************************************)

TypeOK ==
    /\ cur \in [Types -> 0 .. Wrap]
    /\ \A t \in Types :
          /\ DOMAIN store[t] \subseteq 1 .. Wrap
          /\ Cardinality(DOMAIN store[t]) <= MaxSize
          /\ Range(store[t]) \subseteq 1 .. MaxMsgs
          /\ hist[t] \in Seq(1 .. Wrap)
    /\ net \subseteq Header
    /\ resent \in 0 .. MaxResend
    /\ aborted \in BOOLEAN

(* Oldest-first recycling (spec 3: the store "recycles oldest entries per *)
(* message type"): until the id counter of a type wraps, the last MaxSize  *)
(* messages of that type newMessage created are all still stored, each    *)
(* under its own id with its own body, so a retransmission of any of them *)
(* can be read by its receiver.  (After the wrap, erase begin() removes    *)
(* the smallest id, which is then the newest message.)                    *)
RecentKept ==
    \A t \in Kept : Len(hist[t]) <= Wrap =>
        \A k \in 1 .. Len(hist[t]) :
            Len(hist[t]) - k < MaxSize
            => hist[t][k] \in DOMAIN store[t] /\ store[t][hist[t][k]] = k

=============================================================================
