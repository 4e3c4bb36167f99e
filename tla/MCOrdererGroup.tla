--------------------------- MODULE MCOrdererGroup ---------------------------
(* Small instances of OrdererGroup for TLC.                                 *)
EXTENDS OrdererGroup

CONSTANTS s1, s2, id1, id2

\* A spec listing the single components in singles and the first n batchers.
MCSpec(singles, n, common, own, shard) ==
  [manage |-> TRUE, mode |-> "", common |-> common,
   cfg |-> [c \in Child |->
     [on |-> c \in singles \/ c \in 4 .. (3 + n),
      setting |-> IF c = 4 THEN own ELSE Unset,
      id |-> IF c = 4 THEN shard ELSE id2]]]

\* A user adds a batcher, changes a common field, overrides it for one
\* batcher, or stops managing the children; nothing is ever dropped.
GrowingSpecs ==
  {MCSpec({Consenter}, 1, s1, Unset, id1),
   MCSpec({Consenter}, 2, s2, Unset, id1),
   [MCSpec({Consenter}, 1, s1, s2, id1) EXCEPT !.manage = FALSE]}

\* A user drops the last batcher.
ShrinkingSpecs ==
  {MCSpec({Assembler, Router}, 2, s1, Unset, id1),
   MCSpec({Assembler, Router}, 1, s1, s2, id1)}
=============================================================================
