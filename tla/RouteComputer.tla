--------------------------- MODULE RouteComputer ---------------------------
(***************************************************************************)
(* The route computation of one router: OspfRouting::_computeRoutes       *)
(* (ospf.cc) with the path tables OspfPaths and OspfPathsTentative        *)
(* (ospf.h, ospf.cc).  For every multi-topology id the code runs a        *)
(* shortest-path-first pass over the router LSAs of its database.  Each   *)
(* step of this module is one iteration of one of the loops of           *)
(* _computeRoutes: one router link examined, one shortest path popped,   *)
(* or the start or end of one topology's pass.                            *)
(*                                                                         *)
(* The database is an input: Init picks it from Databases.  An LSA is     *)
(* [maxAge, links], a link is [id, up, mt] where mt gives the metric of   *)
(* the link in each topology, or None when the link does not carry it.    *)
(***************************************************************************)
EXTENDS Integers, Sequences, FiniteSets
LOCAL INSTANCE SequencesExt

CONSTANTS
    Node,       \* router ids
    Self,       \* myNodeId_
    MtIds,      \* 0 .. getNumMtIds()
    Metric,     \* the metrics a link may carry
    MaxCost,    \* LS_MAX_COST of the ns-2 link-state library
    Databases,  \* the link-state databases the computation may start from
    UninitCost, \* the values the uninitialised path_cost may hold
    None

ASSUME /\ Self \in Node
       /\ MtIds \subseteq Nat /\ 0 \in MtIds
       /\ Metric \subseteq Nat
       /\ MaxCost \in Nat
       /\ UninitCost \subseteq Int

Link == [id : Node, up : BOOLEAN, mt : [MtIds -> Metric \cup {None}]]
LSA  == [maxAge : BOOLEAN, links : Seq(Link)]

\* An entry of OspfEqualPaths: a cost and a list of next hops.
NoPath == [cost |-> -1, nh |-> <<>>]

VARIABLES
    lsdb,      \* linkStateDatabase_: node -> its router LSA, or None
    paths,     \* pPaths: paths[d][i] for destination d and topology i
    tent,      \* pTentativePaths, for the topology being computed
    mtid,      \* the loop index i over the topology ids
    newNodeId, \* the node whose links are being examined
    lsl,       \* lslPtr_: the links of newNodeId
    k,         \* itrList: position in lsl
    path_cost, \* path_cost, declared once for the whole computation
    pc         \* "start" of a topology, "links", "pop", "ret" or "end"

vars == <<lsdb, paths, tent, mtid, newNodeId, lsl, k, path_cost, pc>>

MaxMt == CHOOSE m \in MtIds : \A j \in MtIds : j <= m

-----------------------------------------------------------------------------
(* OspfPaths helpers (ospf.h, ospf.cc).                                    *)

\* OspfPaths::lookupCost: the cost, or LS_MAX_COST + 1 when there is none.
LookupCost(p, d, i) == IF p[d][i] = NoPath THEN MaxCost + 1 ELSE p[d][i].cost

\* LsList::appendUnique: append the elements of l2 not already in l1.
AppendUnique(l1, l2) ==
    FoldLeft(LAMBDA acc, x : IF x \in ToSet(acc) THEN acc ELSE Append(acc, x),
             l1, l2)

\* OspfPaths::insertPath: keep the better path, or widen an equal one by
\* one next hop unless that hop is already there.
InsertPath(p, d, i, cost, nh) ==
    LET ep == p[d][i] IN
    IF ep = NoPath \/ ep.cost > cost
        THEN [p EXCEPT ![d][i] = [cost |-> cost, nh |-> <<nh>>]]
    ELSE IF ep.cost < cost \/ nh \in ToSet(ep.nh) THEN p
    ELSE [p EXCEPT ![d][i].nh = Append(ep.nh, nh)]

\* Mutant: an equal-cost list replaces the old one instead of widening it.
InsertNextHopListReplace(t, d, cost, nhl) ==
    IF t[d] = NoPath \/ t[d].cost >= cost
        THEN [t EXCEPT ![d] = [cost |-> cost, nh |-> nhl]]
    ELSE t

\* OspfPaths::insertNextHopList on the tentative table of one topology.
InsertNextHopList(t, d, cost, nhl) ==
    IF t[d] = NoPath \/ t[d].cost > cost
        THEN [t EXCEPT ![d] = [cost |-> cost, nh |-> nhl]]
    ELSE IF t[d].cost < cost THEN t
    ELSE [t EXCEPT ![d].nh = AppendUnique(t[d].nh, nhl)]

\* OspfPathsTentative::findMinEqualPaths: the first destination, in key
\* order, of least cost with a non-empty next-hop list.
FindMinEqualPaths(t) ==
    LET cand == {d \in Node : t[d] # NoPath /\ t[d].nh # <<>>}
        best == {d \in cand : \A e \in cand : t[d].cost <= t[e].cost}
    IN  CHOOSE d \in best : \A e \in best : d <= e

\* Mutant: the entry whose last next hop is popped is not erased.
PopShortestPathNoErase(t) ==
    LET d  == FindMinEqualPaths(t)
        ep == t[d]
    IN  [path |-> [des |-> d, cost |-> ep.cost, nextHop |-> Head(ep.nh)],
         rest |-> IF Len(ep.nh) = 1 THEN t
                  ELSE [t EXCEPT ![d] = [ep EXCEPT !.nh = Tail(ep.nh)]]]

\* Mutant: the entry is left in place with an empty next-hop list.
PopShortestPathKeepEmpty(t) ==
    LET d  == FindMinEqualPaths(t)
        ep == t[d]
    IN  [path |-> [des |-> d, cost |-> ep.cost, nextHop |-> Head(ep.nh)],
         rest |-> [t EXCEPT ![d] = [ep EXCEPT !.nh = Tail(ep.nh)]]]

\* OspfPathsTentative::popShortestPath: the first next hop of the least
\* entry is taken out; an entry left with none is erased.
PopShortestPath(t) ==
    LET d  == FindMinEqualPaths(t)
        ep == t[d]
    IN  [path |-> [des |-> d, cost |-> ep.cost, nextHop |-> Head(ep.nh)],
         rest |-> [t EXCEPT ![d] = IF Len(ep.nh) = 1 THEN NoPath
                                   ELSE [ep EXCEPT !.nh = Tail(ep.nh)]]]

TentEmpty(t) == \A d \in Node : t[d] = NoPath

-----------------------------------------------------------------------------
(* _computeRoutes (ospf.cc).                                               *)

\* Step 1: myself at cost 0 for every topology, then the pass for mtid 0.
\* The locals as _computeRoutes starts, for the database lsdb.
Begin ==
    /\ paths = [d \in Node |-> [i \in MtIds |->
                   IF d = Self THEN [cost |-> 0, nh |-> <<Self>>] ELSE NoPath]]
    /\ tent = [d \in Node |-> NoPath]
    /\ mtid = 0
    /\ newNodeId = Self
    /\ lsl = <<>>
    /\ k = 1
    /\ path_cost \in UninitCost
    /\ pc = "start"

Init == lsdb \in Databases /\ Begin

\* The head of the loop over topologies: the router's own LSA starts the
\* pass; an empty or MaxAge own LSA returns from the whole computation.
StartTopology ==
    /\ pc = "start"
    /\ IF lsdb[Self] = None \/ lsdb[Self].maxAge
          THEN /\ pc' = "ret"
               /\ UNCHANGED <<newNodeId, lsl, k>>
          ELSE /\ pc' = "links"
               /\ newNodeId' = Self
               /\ lsl' = lsdb[Self].links
               /\ k' = 1
    /\ UNCHANGED <<lsdb, paths, tent, mtid, path_cost>>

\* Mutant: the topology-0 metric (MT0_metric_) is used for every topology.
ExamineLinkMT0 ==
    /\ pc = "links"
    /\ k <= Len(lsl)
    /\ LET l    == lsl[k]
           cost == IF l.mt[mtid] # None
                      THEN l.mt[0] + LookupCost(paths, newNodeId, mtid)
                      ELSE path_cost
           nhl  == IF newNodeId = Self THEN <<l.id>>
                   ELSE paths[newNodeId][mtid].nh
       IN  IF ~l.up
              THEN UNCHANGED <<tent, path_cost>>
              ELSE /\ path_cost' = cost
                   /\ tent' = IF LookupCost(paths, l.id, mtid) < cost THEN tent
                              ELSE InsertNextHopList(tent, l.id, cost, nhl)
    /\ k' = k + 1
    /\ UNCHANGED <<lsdb, paths, mtid, newNodeId, lsl, pc>>

\* One iteration of the loop over the links of newNodeId.  A DOWN link is
\* skipped.  path_cost is assigned only when the link carries the topology;
\* otherwise it keeps the value of an earlier link.  A destination already
\* reached more cheaply is skipped; anything else goes to the tentatives
\* with the next hops of newNodeId, or the destination itself for a link
\* of this router.
ExamineLink ==
    /\ pc = "links"
    /\ k <= Len(lsl)
    /\ LET l    == lsl[k]
           cost == IF l.mt[mtid] # None
                      THEN l.mt[mtid] + LookupCost(paths, newNodeId, mtid)
                      ELSE path_cost
           nhl  == IF newNodeId = Self THEN <<l.id>>
                   ELSE paths[newNodeId][mtid].nh
       IN  IF ~l.up
              THEN UNCHANGED <<tent, path_cost>>
              ELSE /\ path_cost' = cost
                   /\ tent' = IF LookupCost(paths, l.id, mtid) < cost THEN tent
                              ELSE InsertNextHopList(tent, l.id, cost, nhl)
    /\ k' = k + 1
    /\ UNCHANGED <<lsdb, paths, mtid, newNodeId, lsl, pc>>

\* The loop over the links is over; popping starts.
EndLinks ==
    /\ pc = "links"
    /\ k > Len(lsl)
    /\ pc' = "pop"
    /\ UNCHANGED <<lsdb, paths, tent, mtid, newNodeId, lsl, k, path_cost>>

\* One iteration of the popping loop: the least tentative path is
\* installed.  When the database holds a non-MaxAge LSA of its
\* destination the loop breaks to examine that LSA's links; otherwise
\* popping continues.
PopPath ==
    /\ pc = "pop"
    /\ ~TentEmpty(tent)
    /\ LET r  == PopShortestPath(tent)
           sp == r.path
       IN  /\ tent' = r.rest
           /\ paths' = InsertPath(paths, sp.des, mtid, sp.cost, sp.nextHop)
           /\ newNodeId' = sp.des
           /\ IF lsdb[sp.des] # None /\ ~lsdb[sp.des].maxAge
                 THEN /\ lsl' = lsdb[sp.des].links
                      /\ k' = 1
                      /\ pc' = "links"
                 ELSE UNCHANGED <<lsl, k, pc>>
    /\ UNCHANGED <<lsdb, mtid, path_cost>>

\* The tentatives are exhausted: the next topology, or the end.
EndTopology ==
    /\ pc = "pop"
    /\ TentEmpty(tent)
    /\ IF mtid < MaxMt THEN pc' = "start" /\ mtid' = mtid + 1
                       ELSE pc' = "end" /\ UNCHANGED mtid
    /\ UNCHANGED <<lsdb, paths, tent, newNodeId, lsl, k, path_cost>>

Next == StartTopology \/ ExamineLink \/ EndLinks \/ PopPath \/ EndTopology

\* The computation runs to completion inside one call of computeRoutes.
Spec == Init /\ [][Next]_vars /\ WF_vars(Next)

Finished == pc \in {"ret", "end"}

-----------------------------------------------------------------------------
(* The reference: Dijkstra's result defined by enumeration.  An edge n->m *)
(* of topology i exists when n has a non-MaxAge LSA with an up link to m  *)
(* that carries i.  The own LSA counts only when it is not MaxAge, as in   *)
(* StartTopology.                                                          *)

EdgeMetric(n, m, i) ==
    IF lsdb[n] = None \/ lsdb[n].maxAge THEN None
    ELSE LET ls == SelectSeq(lsdb[n].links,
                             LAMBDA l : l.id = m /\ l.up /\ l.mt[i] # None)
         IN  IF ls = <<>> THEN None ELSE ls[1].mt[i]


PathCost(p, i) ==
    FoldLeft(LAMBDA acc, j : acc + EdgeMetric(p[j], p[j + 1], i),
             0, [j \in 1 .. Len(p) - 1 |-> j])

\* The simple paths of topology i from Self to d.
PathsTo(d, i) ==
    {p \in SeqOf(Node, Cardinality(Node)) :
        /\ p # <<>> /\ p[1] = Self /\ p[Len(p)] = d
        /\ Cardinality(ToSet(p)) = Len(p)
        /\ \A j \in 1 .. Len(p) - 1 : EdgeMetric(p[j], p[j + 1], i) # None}

ShortestPaths(d, i) ==
    {p \in PathsTo(d, i) : \A q \in PathsTo(d, i) : PathCost(p, i) <= PathCost(q, i)}

\* Every destination reachable in topology i has its least cost and the
\* set of first hops of all least-cost paths; nothing else has a path.
RouteOK(d, i) ==
    LET sp == ShortestPaths(d, i) IN
    IF d = Self THEN paths[d][i] = [cost |-> 0, nh |-> <<Self>>]
    ELSE IF sp = {} THEN paths[d][i] = NoPath
    ELSE /\ paths[d][i] # NoPath
         /\ paths[d][i].cost = PathCost(CHOOSE p \in sp : TRUE, i)
         /\ ToSet(paths[d][i].nh) = {p[2] : p \in sp}
         /\ Len(paths[d][i].nh) = Cardinality(ToSet(paths[d][i].nh))

-----------------------------------------------------------------------------
(* Properties.                                                             *)

\* A path entry has a cost within LS_MAX_COST and at least one next hop.
Entry == {NoPath} \cup [cost : 0 .. MaxCost, nh : Seq(Node) \ {<<>>}]

TypeOK ==
    /\ lsdb \in [Node -> LSA \cup {None}]
    /\ paths \in [Node -> [MtIds -> Entry]]
    /\ tent \in [Node -> Entry]
    /\ mtid \in MtIds
    /\ newNodeId \in Node
    /\ k \in Nat \ {0}
    /\ path_cost \in Int
    /\ pc \in {"start", "links", "pop", "ret", "end"}

\* When _computeRoutes returns, the path table holds for every topology and
\* destination the least cost over the router LSAs and, as next hops,
\* exactly the first hops of all least-cost paths, each once (spec section
\* 8: cost 0 to self, no path to an unreachable node, two next hops for two
\* disjoint equal-cost paths).  The next hops of a node are installed one
\* pop at a time and each pop re-examines the node's links, so the result
\* depends on the order of pops and on path_cost surviving from one link
\* to the next.
RoutesCorrect == Finished => \A d \in Node, i \in MtIds : RouteOK(d, i)

\* _computeRoutes returns: the popping loop, which re-examines a node's
\* links at every pop of one of its next hops, does not run for ever.
Terminates == <>Finished

=============================================================================
