---------------------------- MODULE SensorTypes ----------------------------
(***************************************************************************)
(* The YAML file of sensor types on its way into an Avro file and back.    *)
(* inventory_converter.py checks it and writes what it says of each metric *)
(* of the XML into the Avro file; yaml_metadata_from_avro.py makes a YAML  *)
(* file from an Avro file, and puts it where the former may have been.     *)
(* Version and schema are options of their own, and the version is not     *)
(* written anywhere.                                                       *)
(*                                                                         *)
(* The rest of the Avro file, and how the converter fails and tears its    *)
(* output, is ConversionBatch's.                                           *)
(***************************************************************************)
EXTENDS Naturals

CONSTANTS
  Metrics,   \* the metrics of the aggregator XML
  Others,    \* metrics that YAML files name and the XML does not have
  Types,     \* the sensor types of the Avro schemas, and
  Odd,       \* a text that is none of them
  Allowed,   \* the sources that validate_yaml_values allows, and
  Refused,   \* one that it does not
  Written,   \* the YAML files that people write
  Null, Missing, Absent

\* An entry is flat, a type, or nested, with a type and two sources.  A source
\* that is missing is read like one that is null; a type is not.
Flat == [form : {"flat"}, type : Types \cup {Odd, Null}]
Nested == [form : {"nested"}, type : Types \cup {Odd, Null, Missing},
           kafkaStream : Allowed \cup {Refused, Null},
           redfishSensor : Allowed \cup {Refused, Null}]
Maps == UNION {[S -> Flat \cup Nested] : S \in SUBSET (Metrics \cup Others)}

ASSUME WrittenAssumption == Written \subseteq Maps
ASSUME ValuesAssumption ==
  /\ Types \cap {Odd, Null, Missing} = {} /\ Allowed \cap {Refused, Null} = {}
  /\ Null \notin {Odd, Missing, Refused} /\ Odd # Missing

VARIABLES
  yaml,      \* the YAML file: a map, or Absent when it is no map any more
  avro,      \* the Avro file [schema, metrics], or Absent when it cannot be read
  made,      \* how the YAML file was made: [version, from], or Absent
  status     \* the exit status of the last command, or "raised"

sensorVars == <<yaml, avro, made, status>>

Versions == {0, 1}

SensorInit ==
  /\ yaml \in Written
  /\ avro = Absent
  /\ made = Absent
  /\ status = "0"

-----------------------------------------------------------------------------
(* inventory_converter.                                                    *)

\* validate_yaml_version and validate_yaml_values.
ValidYaml(y, version) ==
  \A m \in DOMAIN y :
    IF version = 0 THEN y[m].form = "flat"
    ELSE y[m].form = "nested" /\ Refused \notin {y[m].kafkaStream, y[m].redfishSensor}

NoSensor == [sensorType |-> Null, kafkaStream |-> Null, redfishSensor |-> Null]

\* extract_metric: entries of metrics that the XML lacks are not looked at, a
\* metric without an entry has no sensor.
Extracted(y, version) ==
  [m \in Metrics |->
     IF m \notin DOMAIN y THEN NoSensor
     ELSE IF version = 0 THEN [NoSensor EXCEPT !.sensorType = y[m].type]
     ELSE [sensorType |-> y[m].type, kafkaStream |-> y[m].kafkaStream,
           redfishSensor |-> y[m].redfishSensor]]

\* Nested entries without a type are a KeyError.
Extractable(y, version) ==
  version = 1 => \A m \in DOMAIN y \cap Metrics : y[m].type # Missing

\* The first schema has no sources, and neither has other types.
FitsSchema(metrics, schema) ==
  \A m \in Metrics :
    /\ metrics[m].sensorType # Odd
    /\ schema = 0 => metrics[m].kafkaStream = Null /\ metrics[m].redfishSensor = Null

Convert(version, schema) ==
  /\ yaml # Absent
  /\ ValidYaml(yaml, version)
  /\ Extractable(yaml, version)
  /\ LET metrics == Extracted(yaml, version)
     IN  /\ FitsSchema(metrics, schema)
         /\ avro' = [schema |-> schema, metrics |-> metrics]
  /\ status' = "0"
  /\ UNCHANGED <<yaml, made>>

\* A file that is no map is an AttributeError or an error of the parser.
ConvertRefuses(version, schema) ==
  /\ status' \in
       IF yaml = Absent THEN {"2", "raised"}
       ELSE IF ~ValidYaml(yaml, version) THEN {"1"}
       ELSE IF ~Extractable(yaml, version) THEN {"raised"} ELSE {"5"}
  /\ yaml # Absent /\ ValidYaml(yaml, version) /\ Extractable(yaml, version)
       => ~FitsSchema(Extracted(yaml, version), schema)
  /\ UNCHANGED <<yaml, avro, made>>

\* The Avro file is removed, or torn by a conversion that failed.
AvroLost ==
  /\ avro # Absent
  /\ avro' = Absent
  /\ UNCHANGED <<yaml, made, status>>

-----------------------------------------------------------------------------
(* yaml_metadata_from_avro.                                                *)

\* Mutation: only a sensor type makes a metric worth an entry.
HasEntryTyped(metric, version) == metric.sensorType # Null

HasEntry(metric, version) ==
  \/ metric.sensorType # Null
  \/ version = 1 /\ (metric.kafkaStream # Null \/ metric.redfishSensor # Null)

\* Mutation: a metric without sources gets a flat entry.
EntryShort(metric, version) ==
  IF version = 0 \/ metric.kafkaStream = metric.redfishSensor
  THEN [form |-> "flat", type |-> metric.sensorType]
  ELSE [form |-> "nested", type |-> metric.sensorType,
        kafkaStream |-> metric.kafkaStream, redfishSensor |-> metric.redfishSensor]

Entry(metric, version) ==
  IF version = 0 THEN [form |-> "flat", type |-> metric.sensorType]
  ELSE [form |-> "nested", type |-> metric.sensorType,
        kafkaStream |-> metric.kafkaStream, redfishSensor |-> metric.redfishSensor]

\* read_metrics.
MetricMap(metrics, version) ==
  [m \in {n \in Metrics : HasEntry(metrics[n], version)} |-> Entry(metrics[m], version)]

\* A metric of the first schema has no kafkaStream to look up.
Readable(version) ==
  avro # Absent /\ (version = 1 => avro.schema = 1 \/ Metrics = {})

\* The output is opened after everything else: what cannot be loaded or read,
\* and an output that cannot be opened, leave the YAML file as it is.
FromAvroFails(version) ==
  /\ status' \in IF avro = Absent THEN {"1", "2", "raised"}
               ELSE IF ~Readable(version) THEN {"raised"} ELSE {"1"}
  /\ UNCHANGED <<yaml, avro, made>>

WriteYaml(version, content) ==
  /\ yaml' = content
  /\ made' = [version |-> version, from |-> avro]
  /\ status' = "0"
  /\ UNCHANGED avro

FromAvro(version) ==
  Readable(version) /\ WriteYaml(version, MetricMap(avro.metrics, version))

\* What a failed write leaves of a map: nothing, something that is no YAML, some
\* entries, or some and half of the next, whose type comes last.
Torn(y) ==
  {Absent} \cup
  UNION {{[m \in S |-> y[m]],
          [m \in S |-> IF m = last /\ y[m].form = "nested"
                       THEN [y[m] EXCEPT !.type = Missing] ELSE y[m]]} :
           S \in SUBSET DOMAIN y, last \in Metrics}

WriteFails(version) ==
  /\ Readable(version)
  /\ yaml' \in Torn(MetricMap(avro.metrics, version))
  /\ made' = Absent
  /\ status' = "1"
  /\ UNCHANGED avro

-----------------------------------------------------------------------------

\* Someone writes a YAML file.
EditYaml(y) ==
  /\ y # yaml
  /\ yaml' = y
  /\ made' = Absent
  /\ UNCHANGED <<avro, status>>

SensorNext ==
  \/ \E y \in Written : EditYaml(y)
  \/ \E version, schema \in Versions :
       Convert(version, schema) \/ ConvertRefuses(version, schema)
  \/ AvroLost
  \/ \E version \in Versions :
       FromAvro(version) \/ FromAvroFails(version) \/ WriteFails(version)

SensorSpec == SensorInit /\ [][SensorNext]_sensorVars

-----------------------------------------------------------------------------
(* Properties.                                                             *)

Dropped(metric) == [NoSensor EXCEPT !.sensorType = metric.sensorType]

\* A YAML file made from an Avro file says all that the Avro file does: the
\* converter takes it with the same version, and writes the same metrics again.
\* With version 0 an Avro file of the newer schema loses its sources, and nothing
\* else (yaml_metadata_from_avro.py:42-65, inventory_converter.py:278-295).
RoundTrip ==
  made # Absent =>
    /\ ValidYaml(yaml, made.version) /\ Extractable(yaml, made.version)
    /\ Extracted(yaml, made.version) =
         IF made.version = 1 THEN made.from.metrics
         ELSE [m \in Metrics |-> Dropped(made.from.metrics[m])]

\* A YAML file made for one version is refused by the other one, unless no metric
\* has a sensor (yaml_metadata_from_avro.py:52-65, inventory_converter.py:97-105).
MadeForOneVersion ==
  made # Absent /\ DOMAIN yaml # {} => ~ValidYaml(yaml, 1 - made.version)
=============================================================================
