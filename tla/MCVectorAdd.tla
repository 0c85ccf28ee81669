----------------------------- MODULE MCVectorAdd -----------------------------
(* Code objects of one or two segments, with and without a gap before and  *)
(* between them and memory past their image, and one or two symbols.       *)
EXTENDS VectorAddProps

Segment(v, m, n) == [vaddr |-> v, memSize |-> m, imageSize |-> n]

MCLayouts ==
  {<<Segment(1, 3, 2)>>,
   <<Segment(0, 2, 1), Segment(2, 2, 2)>>, <<Segment(0, 1, 1), Segment(2, 2, 2)>>}

MCSymbols(g) ==
  [addr : UNION {g[j].vaddr .. g[j].vaddr + g[j].imageSize - 1 : j \in DOMAIN g},
   kernel : BOOLEAN]

MCObjects ==
  UNION {{[segs |-> g, syms |-> <<s>>] : s \in MCSymbols(g)} \cup
         {[segs |-> g, syms |-> <<s, t>>] : s \in MCSymbols(g),
                                            t \in {t \in MCSymbols(g) : t.kernel}} :
           g \in MCLayouts}

=============================================================================
