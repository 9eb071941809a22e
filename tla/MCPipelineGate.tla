---------------------------- MODULE MCPipelineGate ----------------------------
(* The promotion of an image, with any of the four stages missing. *)
EXTENDS PipelineGate

CONSTANTS build, canary, green, blue

MCOrder == {<<build, canary>>, <<canary, green>>, <<green, blue>>}

\* No requisite, one, two, or one twice; the order in a list does not matter.
MCRequisites ==
  {<<>>} \cup {<<s>> : s \in Stage}
    \cup {<<canary, canary>>, <<build, canary>>, <<build, green>>}
==============================================================================
