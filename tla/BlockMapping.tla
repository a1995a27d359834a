---------------------------- MODULE BlockMapping ----------------------------
(***************************************************************************)
(* How the FlowScheduler distributes the blocks of a flowgraph over its    *)
(* workers: map_block() in src/src/runtime/scheduler/flow.rs.  Blocks and  *)
(* workers are numbered from 0, as in the code.                            *)
(***************************************************************************)
EXTENDS Integers, FiniteSets

CONSTANTS BlockCounts,   \* sizes of flowgraphs
          CoreCounts     \* numbers of workers

ASSUME MappingAssumption ==
    /\ BlockCounts \subseteq Nat
    /\ CoreCounts \subseteq Nat \ {0}

Smaller(x, y) == IF x <= y THEN x ELSE y

\* The blocks of the first x workers: n each, and one more for the first r.
Start(x, n_blocks, n_cores) ==
    x * (n_blocks \div n_cores) + Smaller(x, n_blocks % n_cores)

\* The loop returns at the first x whose workers have the block among theirs;
\* the last worker gets the rest.
map_block(block, n_blocks, n_cores) ==
    LET found == {x \in 1 .. n_cores - 1 : block < Start(x, n_blocks, n_cores)}
    IN  IF found = {} THEN n_cores - 1
        ELSE (CHOOSE x \in found : \A y \in found : x <= y) - 1

-----------------------------------------------------------------------------

\* The blocks of worker w.
Share(w, n_blocks, n_cores) ==
    {b \in 0 .. n_blocks - 1 : map_block(b, n_blocks, n_cores) = w}

\* Every block gets a worker that exists, neighbours in the flowgraph stay
\* neighbours, and the work is balanced: no worker has two blocks more than
\* another, also with fewer blocks than workers or with a remainder
\* (flow.rs:119-130).
MappingFair ==
    \A n_blocks \in BlockCounts, n_cores \in CoreCounts :
      /\ \A b \in 0 .. n_blocks - 1 :
           map_block(b, n_blocks, n_cores) \in 0 .. n_cores - 1
      /\ \A b, c \in 0 .. n_blocks - 1 :
           b <= c => map_block(b, n_blocks, n_cores)
                       <= map_block(c, n_blocks, n_cores)
      /\ \A v, w \in 0 .. n_cores - 1 :
           Cardinality(Share(v, n_blocks, n_cores))
             <= Cardinality(Share(w, n_blocks, n_cores)) + 1
=============================================================================
