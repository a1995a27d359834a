--------------------------- MODULE MCFlowExecutor ---------------------------
(* Instances of FlowExecutor for TLC.  The workers of the executor are     *)
(* numbered from 1, map_block() counts from 0.                             *)
EXTENDS FlowExecutor, BlockMapping

CONSTANT timer       \* a thread

\* Two flowgraphs of one block each, which are mapped independently and
\* therefore share a worker, and a global task
MixedHome == <<1, 1, 0>>
\* A flowgraph of one block, and a global task
OneHome == <<1, 0>>

\* map_block() is a function of the numbers of blocks and workers alone: TLC
\* evaluates its property before the run.
ASSUME MappingChecked == MappingFair

ASSUME HomeAssumption ==
    \A t \in Tasks : Home[t] # 0 => Home[t] = map_block(0, 1, W) + 1
=============================================================================
