------------------------------ MODULE MCEngine ------------------------------
(***************************************************************************)
(* Model checking of Engine: small graphs, and all schedulers for each.    *)
(***************************************************************************)
EXTENDS Engine

Edge(m, n, size) == [from |-> m, to |-> n, size |-> size]
Graph(flops, edges, speed) == [flops |-> flops, edges |-> edges, speed |-> speed]
Numbered(s) == [i \in 0 .. Len(s) - 1 |-> s[i + 1]]

Even == Numbered(<<1, 1>>)
Uneven == Numbered(<<3, 1>>)
EvenThree == Numbered(<<1, 1, 1>>)

\* All graphs of four tasks with an edge between each two of them or not, with
\* the sizes of the messages short and long by turns.
Arrows == <<Edge(0, 1, 1), Edge(0, 2, 9), Edge(1, 2, 5), Edge(0, 3, 5), Edge(1, 3, 2), Edge(2, 3, 9)>>
Four(speed) ==
    {Graph(Numbered(<<6, 12, 6, 12>>), SelectSeq(Arrows, LAMBDA e : e \in E), speed) :
        E \in SUBSET Range(Arrows)}

\* A fork and a join of six tasks, and two chains that cross.
ForkJoin(speed) ==
    Graph(Numbered(<<6, 6, 12, 12, 6, 12>>),
          <<Edge(0, 1, 1), Edge(0, 2, 9), Edge(0, 3, 2), Edge(0, 4, 12),
            Edge(1, 5, 1), Edge(2, 5, 3), Edge(3, 5, 9), Edge(4, 5, 1)>>, speed)
Crossing(speed) ==
    Graph(Numbered(<<12, 6, 6, 12, 6, 6>>),
          <<Edge(0, 2, 3), Edge(1, 3, 8), Edge(0, 3, 1), Edge(1, 2, 2), Edge(2, 4, 1),
            Edge(3, 5, 5), Edge(2, 5, 7)>>, speed)

Graphs ==
    Four(Even) \cup Four(Uneven)
    \cup {ForkJoin(s) : s \in {Even, Uneven, EvenThree}} \cup {Crossing(s) : s \in {Even, Uneven, EvenThree}}

Entries(g) == {n \in DOMAIN g.flops : \A e \in Range(g.edges) : e.to # n}
Exits(g) == {n \in DOMAIN g.flops : \A e \in Range(g.edges) : e.from # n}

Algorithm(kind, prio, size) ==
    [kind |-> kind, prio |-> prio, size |-> size, cluster |-> "none", merge |-> "none"]
Plain == {Algorithm(k, NONE, NONE) : k \in {"ETF", "ERT", "DLS", "FCP_f", "MCP", "FLB_f", "FLB_f_b"}}
Sized == {Algorithm("FCP_p", NONE, s) : s \in {0, 1}}
Prioritised == {"MD", "HDFET", "HLFET", "SCFET", "SDFET"}
Lists ==
    {Algorithm(k, p, NONE) : k \in {"LSA", "LSF"}, p \in Prioritised}
    \cup {Algorithm("LSA1", p, s) : p \in Prioritised, s \in {0, 1}}
LastMessage == {Algorithm("LSA2", p, NONE) : p \in Prioritised}
Balanced == {Algorithm("LLB", p, NONE) : p \in {"CPM", "WL"}}
Demands == {Algorithm(k, NONE, NONE) : k \in {"DPS", "DPS_F"}}

\* DSC or LC, merged and ordered; only DSC may be followed by LLB.
TwoSteps ==
    {[Algorithm(k, NONE, NONE) EXCEPT !.cluster = c, !.merge = m] :
        k \in Ordering, c \in {"DSC", "LC"}, m \in {"GLB", "SAR", "WCM"}}
    \cup {[Algorithm("LLB", "DSC", NONE) EXCEPT !.cluster = "DSC", !.merge = "LLB"]}

\* With uneven processors the small graphs take only one of the orderings.
OneOrdering == {a \in TwoSteps : a.kind \notin {"STE", "LEV"}}

AllJobs ==
    {[dag |-> g, alg |-> a] : g \in Graphs, a \in Plain \cup Sized \cup Lists \cup Balanced}
    \cup {[dag |-> g, alg |-> a] : g \in Four(Uneven), a \in OneOrdering}
    \cup {[dag |-> g, alg |-> a] : g \in Graphs \ Four(Uneven), a \in TwoSteps}
    \cup {[dag |-> g, alg |-> a] : g \in {h \in Graphs : Cardinality(Entries(h)) = 1}, a \in LastMessage}
    \cup {[dag |-> g, alg |-> a] : g \in {h \in Graphs : Exits(h) = {Max(DOMAIN h.flops)}}, a \in Demands}
=============================================================================
