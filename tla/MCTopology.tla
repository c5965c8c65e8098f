----------------------------- MODULE MCTopology -----------------------------
(* Descriptors of all shapes of a three-level tree with four CPUs, domains *)
(* without CPUs included.                                                  *)
EXTENDS PsciTopology

Sum(s) == FoldSeq(LAMBDA n, sum : n + sum, 0, s)
Rows(width, total) == {s \in [1 .. width -> 0 .. total] : Sum(s) = total}

(* Up to two root domains, up to three clusters.                           *)
ThreeLevels ==
  UNION {{<<roots>> \o r \o c : r \in Rows(roots, clusters),
                                c \in Rows(clusters, NCpus)} :
           roots \in 1 .. 2, clusters \in 1 .. 3}
=============================================================================
