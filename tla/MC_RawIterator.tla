---------------------------- MODULE MC_RawIterator ----------------------------
EXTENDS RawIterator

\* Entity 1 writes up to three rows into partition 1 and one into
\* partition 2, entity 2 one row into partition 1: with blocks of 2 rows
\* entity 1 has a full block and a partial one in partition 1, and a
\* watermark of 3 stops entity 1 in partition 2 before entity 2 is read.
MCEntityRows == [e \in {1, 2} |-> IF e = 1 THEN <<3, 1>> ELSE <<1, 0>>]

\* One iterator over both entities, or one per entity (two subgroups).
MCIterShapes == {<< <<1, 2>> >>, << <<1>>, <<2>> >>}

\* A span covering everything, and one cutting partition 1.
MCSpanSets == {{<<1, 6>>}, {<<2, 6>>}}

MCWatermarks == {NoTs, 3}
====
