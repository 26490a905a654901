----------------------------- MODULE MCPmtAgent -----------------------------
(***************************************************************************)
(* PmtAgent for TLC.  dA9 has the GUID of dA with a size that pmt.xml does *)
(* not list, dA3 has it with one whose XML set is another's, dX has a GUID *)
(* that pmt.xml does not know, and the text of GUID gA is a prefix of gAB. *)
(* The XML sets of dB, dC, dD and dE have a fault each: a metric whose     *)
(* transformation is not defined, a metric without SampleType, a metric    *)
(* whose input the allowlist does not match, and a sample without bits     *)
(* next to a metric without inputs.                                        *)
(***************************************************************************)
EXTENDS PmtAgent, TLC

CONSTANTS f1, f2, f3, dA, dA3, dA9, dX, dB, dC, dD, dE

MCFolders == <<f1, f2, f3>>
MCHome == (f1 :> dX) @@ (f2 :> dA) @@ (f3 :> dA9)

MCKey(guid, size) == [guid |-> guid, size |-> size]
MCUidOf ==
  (dA :> MCKey("gA", 1)) @@ (dA3 :> MCKey("gA", 3))
  @@ (dA9 :> MCKey("gA", 9)) @@ (dX :> MCKey("gX", 1)) @@ (dB :> MCKey("gB", 1))
  @@ (dC :> MCKey("gC", 1)) @@ (dD :> MCKey("gD", 1)) @@ (dE :> MCKey("gE", 1))
MCDevices == DOMAIN MCUidOf

MCMapped ==
  <<MCKey("gAB", 2), MCKey("gA", 1), MCKey("gA", 3), MCKey("gB", 1), MCKey("gC", 1),
    MCKey("gD", 1), MCKey("gE", 1)>>
MCMappedKeys == {MCMapped[n] : n \in 1..Len(MCMapped)}
MCPrefixOf ==
  {<<key.guid, key.guid>> : key \in MCMappedKeys \cup {MCUidOf[dX]}} \cup {<<"gA", "gAB">>}
MCSound == MCMappedKeys \ {MCKey("gA", 3)}
MCLoadable == MCMappedKeys \ {MCKey("gAB", 2)}

MCSample(id) == [id |-> id, bits |-> TRUE]
MCMetric(name, inputs) ==
  [name |-> name, refs |-> TRUE, inputs |-> inputs, typed |-> TRUE]

\* The allowlist does not match r1 and r: that they are incomplete does no harm.
MCSamplesIn ==
  [key \in MCMappedKeys |->
     IF key.guid = "gE" THEN {[MCSample("s1") EXCEPT !.bits = FALSE]}
     ELSE {MCSample("s1"), MCSample("t1"), [MCSample("r1") EXCEPT !.bits = FALSE]}]
MCMetricsIn ==
  [key \in MCMappedKeys |->
     CASE key.guid = "gB" -> {[MCMetric("s", {"s1"}) EXCEPT !.refs = FALSE]}
       [] key.guid = "gC" -> {[MCMetric("s", {"s1"}) EXCEPT !.typed = FALSE]}
       [] key.guid = "gD" -> {MCMetric("t", {"t1"})}
       [] key.guid = "gE" -> {MCMetric("s", None)}
       [] OTHER -> {MCMetric("s", {"s1"}), [MCMetric("r", None) EXCEPT !.refs = FALSE]}]

\* The patterns "s" and "s1", matched at the start of a name, and "t$", which
\* admits metric t and not its input t1.
MCAllow == << {"s", "s1"}, {"t"} >>
=============================================================================
