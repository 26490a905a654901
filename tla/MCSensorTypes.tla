--------------------------- MODULE MCSensorTypes ---------------------------
(***************************************************************************)
(* SensorTypes for TLC: two metrics of the XML and one that it lacks, and   *)
(* every YAML file whose entries are among eight, which between them meet  *)
(* every check.                                                            *)
(***************************************************************************)
EXTENDS SensorTypes, TLC

CONSTANTS m1, m2, m3

MCNested(type, kafka, redfish) ==
  [form |-> "nested", type |-> type, kafkaStream |-> kafka, redfishSensor |-> redfish]
MCEntries ==
  {[form |-> "flat", type |-> "Power"], [form |-> "flat", type |-> Odd],
   MCNested("Power", "Streaming", Null), MCNested("Power", Null, Null),
   MCNested(Null, Null, "Streaming"), MCNested(Null, "Streaming", "Threshold"),
   MCNested("Power", Refused, Null), MCNested(Missing, Null, Null)}
MCWritten == UNION {[S -> MCEntries] : S \in {{m3}} \cup SUBSET {m1, m2}}
=============================================================================
