-------------------------- MODULE Converter_proofs --------------------------
(***************************************************************************)
(* Proofs about the two models of the inventory converter: ConversionBatch,*)
(* for any configurations of any length, and SensorTypes, for any metrics, *)
(* types and sources and any history of its two files.                     *)
(***************************************************************************)
EXTENDS ConversionBatch, SensorTypes, TLAPS

\* The position in the batch and the stage fit together.
Placed ==
  /\ stage = "config" => at = 0
  /\ stage \notin {"config", "next"} => at \in Elements
  /\ single => stage \notin {"config", "next"} /\ Len(config) = 1
  /\ stage = "dump" => single

\* A batch that has begun has no element that its validation refuses.
NoFault == ~single /\ stage # "config" => ConfigFaults = {}

\* What is past the check of its YAML file passed it.
Checked ==
  /\ stage \in {"extract", "validate", "open", "write"} => FitsVersion(This)
  /\ WrongYamlWritesNothing

\* Status 0 is given before the first element or after the last.
ZeroStage ==
  \/ stage = "config"
  \/ stage = "next" /\ at = Len(config)
  \/ stage = "dump"

IInv ==
  /\ TypeOK
  /\ Placed
  /\ NoFault
  /\ EarlierElementsConverted
  /\ Checked
  /\ exit = "0" => ZeroStage

ExitCodes == {"0", "1", "2", "3", "4", "5", "raised"}

-----------------------------------------------------------------------------

\* A configuration is a sequence.
LEMMA LenNat == ASSUME NEW c \in Configs PROVE Len(c) \in Nat
  BY ConfigsAssumption

\* The invariant holds when the program has read its command line
\* (inventory_converter.py:495-501, schema_generator.py:22-33).
LEMMA InitIInv == Init => IInv
<1> SUFFICES ASSUME Init PROVE IInv
  OBVIOUS
<1>1. Len(config) \in Nat
  BY LenNat DEF Init
<1>2. TypeOK
  BY <1>1 DEF Init, TypeOK, Stages, Elements
<1>3. Placed /\ NoFault
  BY <1>1 DEF Init, Placed, NoFault, Elements
<1>4. EarlierElementsConverted
  <2> SUFFICES ASSUME NEW o \in Outs
               PROVE  ~Writing(o) /\ Writers(o) = {} /\ disk[o].is = "old"
    BY DEF EarlierElementsConverted
  <2>1. ~Writing(o) /\ disk[o].is = "old"
    BY DEF Init, Writing
  <2>2. \A n \in Elements : ~Done(n)
    BY <1>1 DEF Init, Done, Elements
  <2> QED  BY <2>1, <2>2 DEF Writers
<1>5. Checked
  BY DEF Init, Checked, WrongYamlWritesNothing
<1>6. exit = "0" => ZeroStage
  BY DEF Init
<1> QED  BY <1>2, <1>3, <1>4, <1>5, <1>6 DEF IInv

\* A step that touches no file keeps what is said of the files, if it neither
\* completes an element nor opens a file.
LEMMA FilesKept ==
  ASSUME EarlierElementsConverted, WrongYamlWritesNothing,
         UNCHANGED <<config, disk>>,
         stage # "write", stage' # "write",
         \A n \in Elements : Done(n)' <=> Done(n)
  PROVE  EarlierElementsConverted' /\ WrongYamlWritesNothing'
<1>1. Elements' = Elements /\ Outs' = Outs
  BY DEF Elements, Outs
<1>2. \A o \in Outs : Writers(o)' = Writers(o) /\ ~Writing(o) /\ ~Writing(o)'
  BY <1>1 DEF Writers, Writing
<1>3. EarlierElementsConverted'
  BY <1>1, <1>2 DEF EarlierElementsConverted
<1>4. WrongYamlWritesNothing'
  BY <1>1 DEF WrongYamlWritesNothing, FitsVersion
<1> QED  BY <1>3, <1>4

\* The end of the process keeps the invariant wherever it comes, with status 0
\* only where it is earned.
LEMMA ExitKeeps ==
  ASSUME IInv, NEW code \in ExitCodes, Exit(code), code = "0" => ZeroStage
  PROVE  IInv'
<1> USE DEF IInv, Exit, Same
<1>1. TypeOK'
  BY DEF TypeOK, ExitCodes, Elements, Outs
<1>2. Placed' /\ NoFault'
  BY DEF Placed, NoFault, Elements, ConfigFaults
<1>3. EarlierElementsConverted'
  BY DEF EarlierElementsConverted, Writers, Writing, Done, Elements, Outs, This
<1>4. Checked'
  BY DEF Checked, WrongYamlWritesNothing, FitsVersion, Outs, Elements, This
<1>5. exit' = "0" => ZeroStage'
  BY DEF ZeroStage
<1> QED  BY <1>1, <1>2, <1>3, <1>4, <1>5

\* So does the passage from one stage of an element to the next, when it is not
\* the one that writes; the check of the YAML file is what leads to "extract".
LEMMA GotoKeeps ==
  ASSUME IInv, exit = "run", NEW s \in {"xml", "yaml", "extract", "validate", "open"},
         Goto(s), stage \in {"schema", "xml", "yaml", "extract", "validate"},
         s \in {"extract", "validate", "open"} => FitsVersion(This)
  PROVE  IInv'
<1> USE DEF IInv, Goto, Same
<1>1. TypeOK'
  BY DEF TypeOK, Stages, Elements, Outs
<1>2. Placed' /\ NoFault'
  BY DEF Placed, NoFault, Elements, ConfigFaults
<1>3. EarlierElementsConverted' /\ WrongYamlWritesNothing'
  BY FilesKept DEF Checked, Done
<1>4. FitsVersion(This)' <=> FitsVersion(This)
  BY DEF This, FitsVersion
<1>5. Checked'
  BY <1>3, <1>4 DEF Checked
<1> QED  BY <1>1, <1>2, <1>3, <1>5

\* A YAML file that is not refused fits (inventory_converter.py:97-115).
LEMMA NotRefusedFits == ~YamlRefused => FitsVersion(This)
  BY DEF YamlRefused, FitsVersion, IsVersion

-----------------------------------------------------------------------------

\* The configuration is found valid (schema_generator.py:54-57).
LEMMA ConfigValidKeeps == IInv /\ ConfigValid => IInv'
<1> SUFFICES ASSUME IInv, ConfigValid PROVE IInv'
  OBVIOUS
<1> USE DEF IInv, ConfigValid, At, Goto, Same
<1>1. TypeOK'
  BY DEF TypeOK, Stages, Elements, Outs
<1>2. Placed' /\ NoFault'
  BY DEF Placed, NoFault, Elements, ConfigFaults
<1>3. \A n \in Elements : Done(n)' <=> Done(n)
  BY DEF Done, Placed, Elements
<1>4. EarlierElementsConverted' /\ WrongYamlWritesNothing'
  BY <1>3, FilesKept DEF Checked
<1>5. Checked'
  BY <1>4 DEF Checked
<1> QED  BY <1>1, <1>2, <1>4, <1>5

\* The batch goes on to its next element (schema_generator.py:33, 62-64).
LEMMA NextElementKeeps == IInv /\ NextElement => IInv'
<1> SUFFICES ASSUME IInv, NextElement PROVE IInv'
  OBVIOUS
<1>1. CASE Exit("raised")
  BY <1>1, ExitKeeps DEF ExitCodes
<1>2. CASE at' = at + 1 /\ stage' = "schema" /\ Same /\ UNCHANGED <<disk, exit>>
  <2> USE <1>2 DEF IInv, NextElement, At, Same
  <2>0. Len(config) \in Nat /\ at \in 0..Len(config)
    BY LenNat DEF TypeOK
  <2>1. TypeOK'
    BY <2>0 DEF TypeOK, Stages, Elements, Outs
  <2>2. Placed' /\ NoFault'
    BY <2>0 DEF Placed, NoFault, Elements, ConfigFaults
  <2>3. \A n \in Elements : Done(n)' <=> Done(n)
    BY <2>0 DEF Done, Elements
  <2>4. EarlierElementsConverted' /\ WrongYamlWritesNothing'
    BY <2>3, FilesKept DEF Checked
  <2>5. Checked'
    BY <2>4 DEF Checked
  <2> QED  BY <2>1, <2>2, <2>4, <2>5
<1> QED  BY <1>1, <1>2 DEF NextElement

\* The output is opened, and with it emptied (inventory_converter.py:519-522).
LEMMA OpenOutputKeeps == IInv /\ OpenOutput => IInv'
<1> SUFFICES ASSUME IInv, OpenOutput PROVE IInv'
  OBVIOUS
<1>1. CASE Exit("1")
  BY <1>1, ExitKeeps DEF ExitCodes
<1>2. CASE /\ disk' = [disk EXCEPT ![This.out] = [is |-> "torn"]]
           /\ stage' = "write"
           /\ Same /\ UNCHANGED <<at, exit>>
  <2> USE <1>2 DEF IInv, OpenOutput, At, Same
  <2>0. /\ Len(config) \in Nat /\ at \in Elements
        /\ This' = This /\ This.out \in Outs /\ Outs' = Outs /\ Elements' = Elements
    BY LenNat DEF TypeOK, Placed, This, Outs, Elements
  <2>1. TypeOK'
    BY <2>0 DEF TypeOK, Stages
  <2>2. Placed' /\ NoFault'
    BY <2>0 DEF Placed, NoFault, ConfigFaults
  <2>3. \A o \in Outs : disk'[o] = IF o = This.out THEN [is |-> "torn"] ELSE disk[o]
    BY <2>0 DEF TypeOK
  <2>4. EarlierElementsConverted'
    <3>1. \A n \in Elements : Done(n)' <=> Done(n)
      BY DEF Done
    <3>2. \A o \in Outs : Writers(o)' = Writers(o)
      BY <2>0, <3>1 DEF Writers
    <3>3. \A o \in Outs : ~Writing(o) /\ (Writing(o)' <=> o = This.out)
      BY <2>0 DEF Writing
    <3> SUFFICES ASSUME NEW o \in Outs
                 PROVE  IF Writing(o)' THEN disk'[o].is = "torn"
                        ELSE IF Writers(o)' = {} THEN disk'[o].is = "old"
                        ELSE \E n \in Writers(o)' :
                               /\ disk'[o] = [is |-> "whole", from |-> n]
                               /\ \A m \in Writers(o)' : m <= n
      BY <2>0 DEF EarlierElementsConverted
    <3>4. CASE o = This.out
      BY <2>3, <3>3, <3>4
    <3>5. CASE o # This.out
      <4>1. disk'[o] = disk[o] /\ ~Writing(o) /\ ~Writing(o)'
        BY <2>3, <3>3, <3>5
      <4> QED  BY <3>2, <4>1 DEF EarlierElementsConverted
    <3> QED  BY <3>4, <3>5
  <2>5. WrongYamlWritesNothing'
    BY <2>0, <2>3 DEF Checked, WrongYamlWritesNothing, FitsVersion
  <2>6. FitsVersion(This)'
    BY <2>0 DEF Checked, FitsVersion
  <2> QED  BY <2>1, <2>2, <2>4, <2>5, <2>6 DEF Checked
<1> QED  BY <1>1, <1>2 DEF OpenOutput

\* The element is written (inventory_converter.py:519-526): its output, which
\* was torn, is whole, and it is the last of those that write there.
LEMMA WriteOutputKeeps == IInv /\ WriteOutput => IInv'
<1> SUFFICES ASSUME IInv, WriteOutput PROVE IInv'
  OBVIOUS
<1>1. CASE Exit("1") \/ Exit("2")
  BY <1>1, ExitKeeps DEF ExitCodes
<1>2. CASE /\ disk' = [disk EXCEPT ![This.out] = [is |-> "whole", from |-> at]]
           /\ stage' = IF single THEN "dump" ELSE "next"
           /\ Same /\ UNCHANGED <<at, exit>>
  <2> USE <1>2 DEF IInv, WriteOutput, At, Same
  <2>0. /\ Len(config) \in Nat /\ at \in Elements
        /\ This' = This /\ This.out \in Outs /\ Outs' = Outs /\ Elements' = Elements
    BY LenNat DEF TypeOK, Placed, This, Outs, Elements
  <2>1. TypeOK'
    BY <2>0 DEF TypeOK, Stages
  <2>2. Placed' /\ NoFault'
    BY <2>0 DEF Placed, NoFault, ConfigFaults
  <2>3. \A o \in Outs :
          disk'[o] = IF o = This.out THEN [is |-> "whole", from |-> at] ELSE disk[o]
    BY <2>0 DEF TypeOK
  <2>4. EarlierElementsConverted'
    <3> SUFFICES ASSUME NEW o \in Outs
                 PROVE  IF Writers(o)' = {} THEN disk'[o].is = "old"
                        ELSE \E n \in Writers(o)' :
                               /\ disk'[o] = [is |-> "whole", from |-> n]
                               /\ \A m \in Writers(o)' : m <= n
      BY <2>0 DEF EarlierElementsConverted, Writing
    <3>1. \A n \in Elements : Done(n)' <=> n = at \/ Done(n)
      BY DEF Done
    <3>2. CASE o = This.out
      <4>1. at \in Writers(o)'
        BY <2>0, <3>1, <3>2 DEF Writers, This
      <4>2. \A m \in Writers(o)' : m <= at
        BY <2>0 DEF Writers, Done, Elements
      <4> QED  BY <2>3, <3>2, <4>1, <4>2
    <3>3. CASE o # This.out
      <4>1. Writers(o)' = Writers(o)
        BY <2>0, <3>1, <3>3 DEF Writers, This
      <4>2. disk'[o] = disk[o] /\ ~Writing(o)
        BY <2>3, <3>3 DEF Writing
      <4> QED  BY <4>1, <4>2 DEF EarlierElementsConverted
    <3> QED  BY <3>2, <3>3
  <2>5. WrongYamlWritesNothing'
    BY <2>0, <2>3 DEF Checked, WrongYamlWritesNothing, FitsVersion, This
  <2> QED  BY <2>1, <2>2, <2>4, <2>5 DEF Checked
<1> QED  BY <1>1, <1>2 DEF WriteOutput

-----------------------------------------------------------------------------

\* Every step keeps the invariant.
LEMMA NextIInv == IInv /\ [Next]_vars => IInv'
<1> SUFFICES ASSUME IInv, [Next]_vars PROVE IInv'
  OBVIOUS
<1> USE DEF ExitCodes
<1>1. CASE ConfigUnreadable
  BY <1>1, ExitKeeps DEF ConfigUnreadable, At, ZeroStage
<1>2. CASE ConfigInvalid
  BY <1>2, ExitKeeps DEF ConfigInvalid
<1>3. CASE ConfigValid
  BY <1>3, ConfigValidKeeps
<1>4. CASE NextElement
  BY <1>4, NextElementKeeps
<1>5. CASE BatchEnds
  BY <1>5, ExitKeeps DEF BatchEnds, At, ZeroStage
<1>6. CASE LoadSchema
  BY <1>6, ExitKeeps, GotoKeeps DEF LoadSchema, At
<1>7. CASE LoadAggregator
  BY <1>7, ExitKeeps, GotoKeeps DEF LoadAggregator, At
<1>8. CASE LoadYaml
  BY <1>8, ExitKeeps, GotoKeeps, NotRefusedFits DEF LoadYaml, At
<1>9. CASE Extract
  <2>1. FitsVersion(This)
    BY <1>9 DEF Extract, At, IInv, Checked
  <2>2. Goto("validate") \/ \E c \in ExitCodes \ {"0"} : Exit(c)
    BY <1>9 DEF Extract
  <2> QED  BY <1>9, <2>1, <2>2, ExitKeeps, GotoKeeps DEF Extract, At
<1>10. CASE Validate
  <2>1. FitsVersion(This)
    BY <1>10 DEF Validate, At, IInv, Checked
  <2> QED  BY <1>10, <2>1, ExitKeeps, GotoKeeps DEF Validate, At
<1>11. CASE OpenOutput
  BY <1>11, OpenOutputKeeps
<1>12. CASE WriteOutput
  BY <1>12, WriteOutputKeeps
<1>13. CASE Dump
  BY <1>13, ExitKeeps DEF Dump, At, ZeroStage
<1>14. CASE UNCHANGED vars
  <2> USE <1>14 DEF vars, IInv
  <2>1. TypeOK'
    BY DEF TypeOK, Elements, Outs
  <2>2. Placed' /\ NoFault' /\ ZeroStage' = ZeroStage
    BY DEF Placed, NoFault, Elements, ConfigFaults, ZeroStage
  <2>3. EarlierElementsConverted'
    <3>1. Outs' = Outs
      BY DEF Outs, Elements
    <3>2. ASSUME NEW o
          PROVE  Writers(o)' = Writers(o) /\ Writing(o)' = Writing(o)
      BY DEF Writers, Writing, Done, Elements, This
    <3> QED  BY <3>1, <3>2 DEF EarlierElementsConverted
  <2>4. Checked'
    BY DEF Checked, WrongYamlWritesNothing, FitsVersion, Outs, Elements, This
  <2> QED  BY <2>1, <2>2, <2>3, <2>4
<1> QED
  BY <1>1, <1>2, <1>3, <1>4, <1>5, <1>6, <1>7, <1>8, <1>9, <1>10, <1>11, <1>12,
     <1>13, <1>14 DEF Next, Ended

\* IInv is an invariant of the conversion and of the batch.
THEOREM Invariance == Spec => []IInv
  BY InitIInv, NextIInv, PTL DEF Spec

-----------------------------------------------------------------------------

\* Every value stays in its type: in particular no element but one of the
\* configuration is ever written.
THEOREM TypeCorrect == Spec => []TypeOK
<1>1. IInv => TypeOK
  BY DEF IInv
<1> QED  BY <1>1, Invariance, PTL

\* Whatever ends the batch, and wherever, the elements before are converted and
\* the files of those after are as they were (schema_generator.py:33-34).
THEOREM EarlierConverted == Spec => []EarlierElementsConverted
<1>1. IInv => EarlierElementsConverted
  BY DEF IInv
<1> QED  BY <1>1, Invariance, PTL

\* No file is written from a YAML file that the version excludes
\* (inventory_converter.py:278-295).
THEOREM WrongYaml == Spec => []WrongYamlWritesNothing
<1>1. IInv => WrongYamlWritesNothing
  BY DEF IInv, Checked
<1> QED  BY <1>1, Invariance, PTL

\* When nothing is being written and no element has been, every file is old.
LEMMA NothingDoneYet ==
  ASSUME IInv, stage = "config", NEW o \in Outs
  PROVE  disk[o].is = "old"
<1>1. \A n \in Elements : ~Done(n)
  BY DEF IInv, Placed, Done, Elements
<1> QED  BY <1>1 DEF IInv, EarlierElementsConverted, Writing, Writers

\* Status 0 tells that all was converted, or that nothing was because the
\* configuration could not be read (schema_generator.py:52-60).
THEOREM ZeroAllOrNothing == Spec => []ZeroIsAllOrNothing
<1>1. IInv => ZeroIsAllOrNothing
  <2> SUFFICES ASSUME IInv, exit = "0"
               PROVE  \/ \A o \in Outs : disk[o].is = "whole"
                      \/ \A o \in Outs : disk[o].is = "old"
    BY DEF ZeroIsAllOrNothing
  <2>1. CASE stage = "config"
    BY <2>1, NothingDoneYet
  <2>2. CASE stage \in {"next", "dump"} /\ at = Len(config)
    <3>1. \A n \in Elements : Done(n)
      BY <2>2, LenNat DEF Done, Elements, IInv, TypeOK
    <3>2. \A o \in Outs : Writers(o) # {} /\ ~Writing(o)
      BY <2>2, <3>1 DEF Outs, Writers, Writing
    <3>3. ASSUME NEW o \in Outs PROVE disk[o].is = "whole"
      <4>1. PICK n \in Writers(o) : disk[o] = [is |-> "whole", from |-> n]
        BY <3>2, Zenon DEF IInv, EarlierElementsConverted
      <4> QED  BY <4>1
    <3> QED  BY <3>3
  <2>3. ASSUME stage = "dump" PROVE at = Len(config)
    <3>1. at \in Elements /\ Len(config) = 1
      BY <2>3 DEF IInv, Placed
    <3> QED  BY <3>1 DEF Elements
  <2> QED  BY <2>1, <2>2, <2>3 DEF IInv, ZeroStage
<1> QED  BY <1>1, Invariance, PTL

\* A field that is missing in any element of a batch is found before any file is
\* touched (schema_generator.py:54-57).
THEOREM FaultyConfig == Spec => []FaultyConfigWritesNothing
<1>1. IInv => FaultyConfigWritesNothing
  <2> SUFFICES ASSUME IInv, NEW n \in Elements, config[n].missing, ~single
               PROVE  \A o \in Outs : disk[o].is = "old"
    BY DEF FaultyConfigWritesNothing
  <2>1. stage = "config"
    BY DEF IInv, NoFault, ConfigFaults
  <2> QED  BY <2>1, NothingDoneYet
<1> QED  BY <1>1, Invariance, PTL

-----------------------------------------------------------------------------
(* SensorTypes.                                                            *)

Entries == Flat \cup Nested
Metric == [sensorType : Types \cup {Null}, kafkaStream : Allowed \cup {Null},
           redfishSensor : Allowed \cup {Null}]

\* Entries have one of the two forms, also in a torn file ...
YamlInv == yaml # Absent => \A m \in DOMAIN yaml : yaml[m] \in Entries

\* ... and an Avro file that can be read has only what the checks let pass.
AvroInv == avro # Absent => avro.metrics \in [Metrics -> Metric]

SensorIInv == YamlInv /\ AvroInv /\ RoundTrip /\ MadeForOneVersion

\* What is checked and fits a schema is a map of metrics.
LEMMA ExtractedFact ==
  ASSUME NEW y, NEW version \in Versions, NEW schema,
         \A m \in DOMAIN y : y[m] \in Entries,
         ValidYaml(y, version), Extractable(y, version),
         FitsSchema(Extracted(y, version), schema)
  PROVE  Extracted(y, version) \in [Metrics -> Metric]
<1> SUFFICES ASSUME NEW m \in Metrics PROVE Extracted(y, version)[m] \in Metric
  BY DEF Extracted
<1> DEFINE e == Extracted(y, version)[m]
<1>1. CASE m \notin DOMAIN y
  BY <1>1 DEF Extracted, NoSensor, Metric
<1>2. CASE m \in DOMAIN y /\ version = 0
  <2>1. y[m] \in Flat
    BY <1>2 DEF ValidYaml, Entries, Flat, Nested
  <2>2. e = [sensorType |-> y[m].type, kafkaStream |-> Null, redfishSensor |-> Null]
    BY <1>2 DEF Extracted, NoSensor
  <2>3. e.sensorType # Odd
    BY DEF FitsSchema
  <2> QED  BY <2>1, <2>2, <2>3 DEF Flat, Metric
<1>3. CASE m \in DOMAIN y /\ version = 1
  <2>1. y[m] \in Nested /\ Refused \notin {y[m].kafkaStream, y[m].redfishSensor}
    BY <1>3 DEF ValidYaml, Entries, Flat, Nested
  <2>2. y[m].type # Missing
    BY <1>3 DEF Extractable
  <2>3. e = [sensorType |-> y[m].type, kafkaStream |-> y[m].kafkaStream,
             redfishSensor |-> y[m].redfishSensor]
    BY <1>3 DEF Extracted
  <2>4. e.sensorType # Odd
    BY DEF FitsSchema
  <2> QED  BY <2>1, <2>2, <2>3, <2>4 DEF Nested, Metric
<1> QED  BY <1>1, <1>2, <1>3 DEF Versions

\* A map of metrics, written as YAML and extracted again.
LEMMA ReturnFact ==
  ASSUME NEW metrics \in [Metrics -> Metric], NEW version \in Versions
  PROVE  LET y == MetricMap(metrics, version)
         IN  /\ \A m \in DOMAIN y : m \in Metrics /\ y[m] \in Entries
             /\ ValidYaml(y, version) /\ Extractable(y, version)
             /\ DOMAIN y # {} => ~ValidYaml(y, 1 - version)
             /\ Extracted(y, version) =
                  IF version = 1 THEN metrics ELSE [m \in Metrics |-> Dropped(metrics[m])]
<1> DEFINE y == MetricMap(metrics, version)
<1>1. DOMAIN y = {m \in Metrics : HasEntry(metrics[m], version)}
  BY DEF MetricMap
<1>2. \A m \in DOMAIN y : y[m] = Entry(metrics[m], version)
  BY DEF MetricMap
<1> HIDE DEF y
<1>5. ASSUME NEW m \in Metrics
      PROVE  /\ metrics[m] \in Metric
             /\ metrics[m].sensorType \in Types \cup {Null}
             /\ metrics[m].kafkaStream \in Allowed \cup {Null}
             /\ metrics[m].redfishSensor \in Allowed \cup {Null}
             /\ metrics[m] = [sensorType |-> metrics[m].sensorType,
                              kafkaStream |-> metrics[m].kafkaStream,
                              redfishSensor |-> metrics[m].redfishSensor]
  <2>1. metrics[m] \in Metric
    OBVIOUS
  <2> QED  BY <2>1 DEF Metric
<1>3. CASE version = 0
  <2>1. \A m \in DOMAIN y : y[m] = [form |-> "flat", type |-> metrics[m].sensorType]
    BY <1>2, <1>3 DEF Entry
  <2>2. \A m \in DOMAIN y : m \in Metrics /\ y[m] \in Entries
    <3> SUFFICES ASSUME NEW m \in DOMAIN y PROVE m \in Metrics /\ y[m] \in Entries
      OBVIOUS
    <3>1. m \in Metrics /\ metrics[m].sensorType \in Types \cup {Odd, Null}
      BY <1>1, <1>5
    <3>2. y[m] = [form |-> "flat", type |-> metrics[m].sensorType]
      BY <2>1
    <3> QED  BY <3>1, <3>2 DEF Entries, Flat
  <2>3. ValidYaml(y, 0) /\ Extractable(y, 0)
    BY <2>1 DEF ValidYaml, Extractable
  <2>4. DOMAIN y # {} => ~ValidYaml(y, 1)
    BY <2>1 DEF ValidYaml
  <2>5. ASSUME NEW m \in Metrics
        PROVE  Extracted(y, 0)[m] = Dropped(metrics[m])
    <3>1. Dropped(metrics[m]) = [sensorType |-> metrics[m].sensorType,
                                 kafkaStream |-> Null, redfishSensor |-> Null]
      BY DEF Dropped, NoSensor
    <3>2. Extracted(y, 0)[m] = [sensorType |-> IF m \in DOMAIN y THEN y[m].type ELSE Null,
                                kafkaStream |-> Null, redfishSensor |-> Null]
      BY DEF Extracted, NoSensor
    <3>3. m \in DOMAIN y => y[m].type = metrics[m].sensorType
      BY <2>1
    <3>4. m \notin DOMAIN y => metrics[m].sensorType = Null
      BY <1>1, <1>3 DEF HasEntry
    <3> QED  BY <3>1, <3>2, <3>3, <3>4
  <2>6. Extracted(y, 0) = [m \in Metrics |-> Dropped(metrics[m])]
    BY <2>5 DEF Extracted
  <2> QED  BY <1>3, <2>2, <2>3, <2>4, <2>6 DEF y
<1>4. CASE version = 1
  <2>1. \A m \in DOMAIN y :
          y[m] = [form |-> "nested", type |-> metrics[m].sensorType,
                  kafkaStream |-> metrics[m].kafkaStream,
                  redfishSensor |-> metrics[m].redfishSensor]
    BY <1>2, <1>4 DEF Entry
  <2>2. \A m \in DOMAIN y : m \in Metrics /\ y[m] \in Nested /\ y[m] \in Entries
    <3> SUFFICES ASSUME NEW m \in DOMAIN y
                 PROVE  m \in Metrics /\ y[m] \in Nested /\ y[m] \in Entries
      OBVIOUS
    <3>1. /\ m \in Metrics
          /\ metrics[m].sensorType \in Types \cup {Odd, Null, Missing}
          /\ metrics[m].kafkaStream \in Allowed \cup {Refused, Null}
          /\ metrics[m].redfishSensor \in Allowed \cup {Refused, Null}
      BY <1>1, <1>5
    <3>2. y[m] = [form |-> "nested", type |-> metrics[m].sensorType,
                  kafkaStream |-> metrics[m].kafkaStream,
                  redfishSensor |-> metrics[m].redfishSensor]
      BY <2>1
    <3> QED  BY <3>1, <3>2 DEF Entries, Nested
  <2>3. ValidYaml(y, 1) /\ Extractable(y, 1)
    <3>1. \A m \in Metrics : /\ metrics[m].kafkaStream # Refused
                             /\ metrics[m].redfishSensor # Refused
                             /\ metrics[m].sensorType # Missing
      BY ValuesAssumption DEF Metric
    <3> QED  BY <1>1, <2>1, <3>1 DEF ValidYaml, Extractable
  <2>4. DOMAIN y # {} => ~ValidYaml(y, 0)
    BY <2>1 DEF ValidYaml
  <2>5. ASSUME NEW m \in Metrics
        PROVE  Extracted(y, 1)[m] = metrics[m]
    <3>1. metrics[m] = [sensorType |-> metrics[m].sensorType,
                        kafkaStream |-> metrics[m].kafkaStream,
                        redfishSensor |-> metrics[m].redfishSensor]
      BY <1>5
    <3>2. CASE m \in DOMAIN y
      BY <2>1, <3>1, <3>2 DEF Extracted
    <3>3. CASE m \notin DOMAIN y
      <4>1. /\ metrics[m].sensorType = Null /\ metrics[m].kafkaStream = Null
            /\ metrics[m].redfishSensor = Null
        BY <1>1, <1>4, <3>3 DEF HasEntry
      <4> QED  BY <3>1, <3>3, <4>1 DEF Extracted, NoSensor
    <3> QED  BY <3>2, <3>3
  <2>6. Extracted(y, 1) = metrics
    BY <2>5 DEF Extracted
  <2> QED  BY <1>4, <2>2, <2>3, <2>4, <2>6 DEF y
<1> QED  BY <1>3, <1>4 DEF Versions

LEMMA SensorInitIInv == SensorInit => SensorIInv
<1> SUFFICES ASSUME SensorInit PROVE SensorIInv
  OBVIOUS
<1>1. YamlInv
  BY WrittenAssumption DEF SensorInit, YamlInv, Maps, Entries
<1> QED  BY <1>1 DEF SensorInit, SensorIInv, AvroInv, RoundTrip, MadeForOneVersion

\* Every step keeps the invariant.
LEMMA SensorNextIInv == SensorIInv /\ [SensorNext]_sensorVars => SensorIInv'
<1> SUFFICES ASSUME SensorIInv, [SensorNext]_sensorVars PROVE SensorIInv'
  OBVIOUS
<1> USE DEF SensorIInv
<1>1. ASSUME NEW y \in Written, EditYaml(y) PROVE SensorIInv'
  <2>1. YamlInv'
    BY <1>1, WrittenAssumption DEF EditYaml, YamlInv, Maps, Entries
  <2> QED  BY <1>1, <2>1 DEF EditYaml, AvroInv, RoundTrip, MadeForOneVersion
<1>2. ASSUME NEW version \in Versions, NEW schema \in Versions, Convert(version, schema)
      PROVE  SensorIInv'
  <2>1. Extracted(yaml, version) \in [Metrics -> Metric]
    BY <1>2, ExtractedFact DEF Convert, YamlInv
  <2>2. AvroInv'
    BY <1>2, <2>1 DEF Convert, AvroInv
  <2> QED  BY <1>2, <2>2 DEF Convert, YamlInv, RoundTrip, MadeForOneVersion
<1>3. ASSUME NEW version \in Versions, NEW schema \in Versions, ConvertRefuses(version, schema)
      PROVE  SensorIInv'
  BY <1>3 DEF ConvertRefuses, YamlInv, AvroInv, RoundTrip, MadeForOneVersion
<1>4. CASE AvroLost
  BY <1>4 DEF AvroLost, YamlInv, AvroInv, RoundTrip, MadeForOneVersion
<1>5. ASSUME NEW version \in Versions, FromAvroFails(version) PROVE SensorIInv'
  BY <1>5 DEF FromAvroFails, YamlInv, AvroInv, RoundTrip, MadeForOneVersion
<1>6. ASSUME NEW version \in Versions, FromAvro(version) PROVE SensorIInv'
  <2> DEFINE y == MetricMap(avro.metrics, version)
  <2>1. /\ yaml' = y /\ made' = [version |-> version, from |-> avro] /\ avro' = avro
        /\ avro.metrics \in [Metrics -> Metric]
    BY <1>6 DEF FromAvro, Readable, WriteYaml, AvroInv
  <2>2. /\ \A m \in DOMAIN y : m \in Metrics /\ y[m] \in Entries
        /\ ValidYaml(y, version) /\ Extractable(y, version)
        /\ DOMAIN y # {} => ~ValidYaml(y, 1 - version)
        /\ Extracted(y, version) =
             IF version = 1 THEN avro.metrics
             ELSE [m \in Metrics |-> Dropped(avro.metrics[m])]
    BY <2>1, ReturnFact
  <2> HIDE DEF y
  <2>3. YamlInv' /\ AvroInv'
    BY <2>1, <2>2 DEF YamlInv, AvroInv
  <2>4. RoundTrip' /\ MadeForOneVersion'
    BY <2>1, <2>2 DEF RoundTrip, MadeForOneVersion
  <2> QED  BY <2>3, <2>4
<1>7. ASSUME NEW version \in Versions, WriteFails(version) PROVE SensorIInv'
  <2>1. /\ avro # Absent /\ avro' = avro /\ made' = Absent
        /\ avro.metrics \in [Metrics -> Metric]
        /\ yaml' \in Torn(MetricMap(avro.metrics, version))
    BY <1>7 DEF WriteFails, Readable, AvroInv
  <2>2. PICK y : y = MetricMap(avro.metrics, version)
    OBVIOUS
  <2>3. \A m \in DOMAIN y : y[m] \in Entries
    BY <2>1, <2>2, ReturnFact
  <2>4. \A m \in DOMAIN y : y[m].form = "nested" => [y[m] EXCEPT !.type = Missing] \in Entries
    BY <2>3 DEF Entries, Flat, Nested
  <2>5. YamlInv'
    BY <2>1, <2>2, <2>3, <2>4 DEF YamlInv, Torn
  <2> QED  BY <2>1, <2>5 DEF AvroInv, RoundTrip, MadeForOneVersion
<1>8. CASE UNCHANGED sensorVars
  BY <1>8 DEF sensorVars, YamlInv, AvroInv, RoundTrip, MadeForOneVersion
<1> QED  BY <1>1, <1>2, <1>3, <1>4, <1>5, <1>6, <1>7, <1>8 DEF SensorNext

\* A YAML file that was made from an Avro file gives the same metrics again.
THEOREM RoundTrips == SensorSpec => []RoundTrip
<1>1. SensorIInv => RoundTrip
  BY DEF SensorIInv
<1> QED  BY <1>1, SensorInitIInv, SensorNextIInv, PTL DEF SensorSpec

\* It is refused when the version is not the one it was made for.
THEOREM OneVersion == SensorSpec => []MadeForOneVersion
<1>1. SensorIInv => MadeForOneVersion
  BY DEF SensorIInv
<1> QED  BY <1>1, SensorInitIInv, SensorNextIInv, PTL DEF SensorSpec
=============================================================================
