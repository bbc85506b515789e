-------------------------- MODULE MC_LsaLifecycle ---------------------------
EXTENDS LsaLifecycle

\* Ages are explored up to one tick past MaxAge, which is where an LSA that
\* is not flushed shows; queues and retransmission lists stay short.
MaxQueue == 3
MaxRtxLen == 2

StateBound ==
    /\ \A r \in Router : db[r] # None => db[r].age.n <= MaxAge + 1
    /\ \A c \in DOMAIN chan : Len(chan[c]) <= MaxQueue
    /\ \A r \in Router : Len(rtx[r]) <= MaxRtxLen

=============================================================================
