---------------------------- MODULE MC_AggIterator ----------------------------
(* Model values for AggIterator: two partitions of three timestamps each.  *)
EXTENDS AggIterator

\* Partition 1 holds up to three rows (two blocks), partition 2 one.
MCRows == <<3, 1>>

\* One span per query; covering all, a middle stretch, one partition, a point.
MCOneSpan == { {<<1, 6>>}, {<<2, 5>>}, {<<1, 2>>}, {<<4, 4>>} }

\* Two disjoint spans in one query (ts_spans_ of an IN-list or OR filter).
MCTwoSpans == { {<<1, 1>>, <<3, 4>>}, {<<2, 2>>, <<4, 6>>} }

MCAggQueries == { {"MIN", "MAX", "SUM", "COUNT"}, {"COUNT", "SUM"} }

MCFirstLastQueries ==
    { {"FIRST"}, {"FIRST_ROW"}, {"LAST"}, {"LAST_ROW"}, {"FIRST", "LAST_ROW"},
      {"MIN", "FIRST", "LAST"}, {"COUNT", "FIRST_ROW", "LAST_ROW"} }
=============================================================================
