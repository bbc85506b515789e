-------------------------- MODULE MC_RouteComputer --------------------------
(* Databases for RouteComputer.  Every router LSA lists one link per       *)
(* neighbour, in increasing id order; both ends of a link describe it the  *)
(* same way (status and metric per topology).  A router other than Self    *)
(* may have no LSA in the database yet, or one at MaxAge.  A family of     *)
(* databases may use only some of the routers, NS; the others have no      *)
(* links and no LSA.                                                       *)
EXTENDS RouteComputer, TLC

Edges == {e \in Node \X Node : e[1] < e[2]}

\* The description of the link between n and m under edge map ed.
EdgeOf(ed, n, m) == IF n < m THEN ed[<<n, m>>] ELSE ed[<<m, n>>]

\* The routers in increasing id order.
NodeOrder == [j \in 1 .. Cardinality(Node) |->
                CHOOSE x \in Node : Cardinality({y \in Node : y < x}) = j - 1]

LinksOf(ed, n) ==
    LET nbrs == SelectSeq(NodeOrder, LAMBDA m : m # n /\ EdgeOf(ed, n, m) # None)
    IN  [j \in 1 .. Len(nbrs) |-> [id |-> nbrs[j]] @@ EdgeOf(ed, n, nbrs[j])]

\* The database with link lists lk and LSA status st.
DB(lk, st) ==
    [n \in Node |-> IF st[n] = "absent" THEN None
                    ELSE [maxAge |-> st[n] = "maxage", links |-> lk[n]]]

\* The links among the routers NS.
InNS(NS) == {e \in Edges : e[1] \in NS /\ e[2] \in NS}

\* The LSA status maps over NS: a router of NS other than Self has an LSA
\* that is absent, at MaxAge or current; Self's is current; the rest have
\* none.
StatusMaps(NS) ==
    {s \in [Node -> {"absent", "maxage", "ok"}] :
        \A n \in Node : s[n] \in (IF n = Self THEN {"ok"}
                                 ELSE IF n \in NS THEN {"absent", "maxage", "ok"}
                                 ELSE {"absent"})}

\* Every router's link list when the links among NS are described by g.
ListsOf(NS, g) ==
    LET ed == [e \in Edges |-> IF e \in InNS(NS) THEN g[e] ELSE None]
    IN  [n \in Node |-> LinksOf(ed, n)]

\* Every database over the routers NS whose links take values in EdgeVal.
DBsOver(NS, EdgeVal) ==
    {DB(ListsOf(NS, g), st) : g \in [InNS(NS) -> EdgeVal], st \in StatusMaps(NS)}

\* Two topologies over the routers NS; every link carries both, with its
\* own metric in each, and may be DOWN.
MultiLinks == {None} \cup [up : BOOLEAN, mt : [MtIds -> Metric]]

\* Two topologies; a link carries topology 0 and may or may not carry 1.
PartialLinks == {None} \cup {l \in [up : {TRUE}, mt : [MtIds -> Metric \cup {None}]] :
                                l.mt[0] # None}

\* Two topologies over routers 1..3, links that may not carry topology 1.
PartialDatabases == DBsOver({1, 2, 3}, PartialLinks)

\* The families of the mixed run: every graph on all the routers with one
\* metric per link shared by both topologies, and every graph on routers
\* 1..3 with a metric per topology and links that may be DOWN.
MixedFamilies ==
    {[ns |-> Node, links |-> {None} \cup {[up |-> TRUE, mt |-> [i \in MtIds |-> c]] :
                                           c \in Metric}],
     [ns |-> {1, 2, 3}, links |-> MultiLinks]}

\* The mixed run enumerates its databases in the initial predicate: as a
\* constant set of some twenty thousand databases they would take TLC a
\* minute to build before checking starts.
MixedInit ==
    /\ \E f \in MixedFamilies :
          \E g \in [InNS(f.ns) -> f.links], st \in StatusMaps(f.ns) :
             lsdb = DB(ListsOf(f.ns, g), st)
    /\ Begin

MixedSpec == MixedInit /\ [][Next]_vars /\ WF_vars(Next)

=============================================================================
