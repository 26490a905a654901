--------------------------- MODULE MCAgentDriver ---------------------------
(***************************************************************************)
(* AgentDriver for TLC: two instances, the regions of the first change     *)
(* and may be one more than MaxEntries.  Two regions have one GUID, which  *)
(* is part of the third's.                                                 *)
(***************************************************************************)
EXTENDS AgentDriver, TLC

CONSTANTS i1, i2, a1, a2, b

MCInstances == <<i1, i2>>
MCGuidOf == (a1 :> "gA") @@ (a2 :> "gA") @@ (b :> "gAB")
MCSizeOf == (a1 :> 1) @@ (a2 :> 1) @@ (b :> 2)
MCWithin == {<<"gA", "gA">>, <<"gAB", "gAB">>, <<"gA", "gAB">>}
MCLists ==
  (i1 :> { <<>>, <<b>>, <<b, a2>>, <<a1, b, a2>> }) @@ (i2 :> { <<a2>> })
=============================================================================
