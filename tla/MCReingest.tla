----------------------------- MODULE MCReingest -----------------------------
EXTENDS Reingest

CONSTANTS a, t, r,     \* a word each of a paragraph, a title, a table
          h, k         \* the two tokens of one character

MCWords == {a, t, r, h, k, Delimiter, Question, Replacement}
MCBlock(kind, text) == [kind |-> kind, text |-> text]
para == MCBlock("prose", <<a>>)
sentences == MCBlock("prose", <<a, Delimiter, h, k>>)
question == MCBlock("prose", <<Question, h, k>>)
title == MCBlock("title", <<t>>)
table == MCBlock("table", <<r>>)

(* Nothing; a block of every kind, alone and next to a paragraph; a title  *)
(* before a title or question; and three blocks in the orders in which a   *)
(* full chunk hands on a block, a title or table parts prose, or an answer *)
(* is longer than the limit.                                               *)
MCDocuments ==
    {<<>>}
    \cup UNION {{<<x>>, <<para, x>>, <<x, para>>} :
                   x \in {para, sentences, question, title, table}}
    \cup {<<title, title>>, <<title, question>>}
    \cup {<<para, para, question>>, <<para, para, title>>,
          <<para, title, question>>, <<para, table, para>>,
          <<question, para, question>>}

Config(method, size, carry, stride) ==
    [method |-> method, size |-> size, carry |-> carry, stride |-> stride]

(* An overlap of a third, of nothing, of minus a half and of four thirds,  *)
(* and no limit.                                                           *)
MCConfigs == {Config("naive", 3, 1, 2), Config("delimiter", 3, 1, 2),
              Config("qa", 3, 1, 2), Config("one", 3, 1, 2),
              Config("naive", 3, 0, 3), Config("naive", 2, 0, 3),
              Config("naive", 3, 4, 1), Config("qa", 0, 0, 1)}
=============================================================================
