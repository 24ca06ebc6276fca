----------------------------- MODULE MCReading ------------------------------
EXTENDS Reading
MCSources == [s \in Sections |-> {s}]
MCCoverage == [v \in Versions |-> 1]
MCAlike == {<<s, c>> \in SummaryDocs \X ChunkDocs : OrderOf(c) = OrderOf(s)}

(* What the index shows matters while a path has to search it, and what    *)
(* the paths found until the fusion; both are then free to change, or      *)
(* reset, before they matter again.                                        *)
Sought == (IF a.at = "search" THEN SummaryDocs ELSE {}) \cup (IF b.at = "search" THEN ChunkDocs ELSE {})
ReadingView ==
    <<published, offered, searchable \cap Sought,
      pc, IF pc \in {"searching", "fused"} THEN <<a, b>> ELSE <<>>,
      merged, found, answers, target>>
=============================================================================
