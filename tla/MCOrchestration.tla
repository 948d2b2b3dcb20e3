--------------------------- MODULE MCOrchestration ---------------------------
(***************************************************************************)
(* The requests of the model-checked instances of Orchestration.           *)
(***************************************************************************)
EXTENDS Orchestration, TLC

CONSTANTS o1, o2, p1, p2, p3, r1, r2, s1, s2, q1, q2, q3

\* Two orchestrations of one pod: the same two licences in opposite order and
\* the same space.
PairPodsOf    == (o1 :> <<p1>>) @@ (o2 :> <<p2>>)
CrossWanted   == (p1 :> <<{r1}, {r2}>>) @@ (p2 :> <<{r2}, {r1}>>)
PairNodeItems == (o1 :> <<p1>>) @@ (o2 :> <<p2>>)
PairFits      == (o1 :> {s1}) @@ (o2 :> {s1})
PairNofPorts  == (p1 :> 1) @@ (p2 :> 1)

\* One orchestration of two pods: p1 takes either licence, both need node
\* resources of one space and two spaces fit.  Two threads of p1 ask for its ports.
SoloPodsOf    == (o1 :> <<p2, p1>>)
SoloWanted    == (p1 :> <<{r1, r2}>>) @@ (p2 :> <<>>)
SoloNodeItems == (o1 :> <<p1, p2>>)
SoloFits      == (o1 :> {s1, s2})
SoloNofPorts  == (p1 :> 2) @@ (p2 :> 0)

\* Nothing but licences.
NoNodeItems   == (o1 :> <<>>) @@ (o2 :> <<>>)
NoFits        == (o1 :> {}) @@ (o2 :> {})
NoPorts       == (p1 :> 0) @@ (p2 :> 0)
=============================================================================
