------------------------- MODULE MC_OspfAdjacency -------------------------
(***************************************************************************)
(* Instances for TLC: two routers on one point-to-point link, whose      *)
(* adjacency is formed, lost and formed again, and three in a line.        *)
(***************************************************************************)
EXTENDS OspfAdjacency

MCRouter == {1, 2}
MCPeers == [r \in MCRouter |-> MCRouter \ {r}]

(* Three routers in a line 1 - 2 - 3: router 2 floods what it learns from *)
(* one neighbour to the other.                                             *)
LineRouter == {1, 2, 3}
LinePeers == [r \in LineRouter |-> {q \in LineRouter : q - r = 1 \/ r - q = 1}]

(* Bounds: messages queued on a link, DD sequence numbers, LSA sequence   *)
(* numbers and retransmission-list length.                                 *)
MaxChan == 3
MaxDDSeq == 4
MaxLsaSeq == 2
MaxRtx == 2

StateBound ==
    /\ \A p \in Pairs : /\ Len(chan[p]) <= MaxChan
                        /\ nbr[p].seq <= MaxDDSeq
                        /\ Len(nbr[p].rtx) <= MaxRtx
    /\ \A r \in Router : db[r][r].seq <= MaxLsaSeq
=============================================================================
