----------------------------- MODULE MCLibrary ------------------------------
EXTENDS Library, TLC
MCSize == [c \in Contents |-> IF c = "report" THEN 2 ELSE 1]
WorkerSymmetry == Permutations(Workers)

(* Nobody reads again what a file held that is gone and that no request is *)
(* about, nor the counter of a month that is over for every request.       *)
Held == Files \cup {req[w].file : w \in Workers}
Read == {m \in Months : m >= month \/ \E w \in Workers : req[w].month \in 1 .. m}
LibraryView ==
    <<{<<f, content[f]>> : f \in Held \cap FileIds}, {<<m, m \in metered, usage[m]>> : m \in Read},
      status, born, charged, links, objects, clocks, uploads, pc, req, faults>>
=============================================================================
