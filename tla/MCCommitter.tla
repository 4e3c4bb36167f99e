----------------------------- MODULE MCCommitter -----------------------------
(* Small instances of Committer for TLC.                                     *)
EXTENDS Committer, Integers

CONSTANTS s1, s2

MCSpec(common, enrollment, shared, listed, own) ==
  [common |-> [on |-> common >= 0,
               replicas |-> IF common >= 0 THEN common ELSE 0],
   enrollment |-> enrollment, shared |-> shared,
   cfg |-> [c \in Child |->
     [on |-> c \in listed,
      enrollment |-> IF c \in listed THEN own ELSE Unset,
      endpoints |-> IF c \in listed THEN own ELSE Unset]]]

\* No common block and nothing listed; everything listed, and a common block
\* without replicas.
EditedSpecs ==
  {MCSpec(-1, s1, s2, {}, Unset), MCSpec(0, s1, s2, Child, s1)}

OneSpec == {MCSpec(1, s1, s2, Child, Unset)}
=============================================================================
