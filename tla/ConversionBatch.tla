-------------------------- MODULE ConversionBatch --------------------------
(***************************************************************************)
(* inventory_converter (inventory_converter.py:495-537) and the batch that *)
(* calls it for every element of a configuration (schema_generator.py):    *)
(* validate the configuration, then per element load three inputs, extract,*)
(* validate and write the Avro file.  The first failure ends the process,  *)
(* with an exit status or with an exception nobody catches.                *)
(*                                                                         *)
(* Contents are abstracted to what the checks tell apart: the format of    *)
(* the YAML file and whether it names a metric of the XML, and what the    *)
(* extraction of the XML comes to.                                         *)
(***************************************************************************)
EXTENDS Naturals, Sequences

CONSTANTS
  Configs,   \* sequences of elements [missing, num, quoted, yaml, sensor, xml, out]
  None       \* no version

\* missing: one of the four checked fields is missing or not a string;
\* num, quoted: the version, a number or a string of YAML, or None;
\* yaml: "flat" (version 0), "nested" (version 1), "badvalue" (version 1 with a
\*   source that is not allowed) or "notype" (version 1 without a type);
\* sensor: the YAML file names a metric of the XML;
\* xml: "good", "dupname" (two metrics of one name), "duplicate" (another
\*   duplicate), "badnumber" (a missing number) or "badformula" (that, or a number
\*   that is not one).
ASSUME ConfigsAssumption ==
  \A c \in Configs : c \in Seq({c[n] : n \in 1..Len(c)})

VARIABLES
  config,  \* the configuration
  single,  \* inventory-converter, with its dumps, and not a batch
  at,      \* the element being converted, 0 while the configuration is read
  stage,   \* what is done next with it
  disk,    \* [Outs -> "old", "torn" or the element whose payload it holds]
  exit     \* "run", the exit status, or "raised"

vars == <<config, single, at, stage, disk, exit>>

Elements == 1..Len(config)
Outs == {config[n].out : n \in Elements}

Stages == {"config", "next", "schema", "xml", "yaml", "extract", "validate",
           "open", "write", "dump"}

TypeOK ==
  /\ config \in Configs
  /\ single \in BOOLEAN
  /\ at \in 0..Len(config)
  /\ stage \in Stages
  /\ disk \in [Outs -> {[is |-> "old"], [is |-> "torn"]}
                         \cup {[is |-> "whole", from |-> n] : n \in Elements}]
  /\ exit \in {"run", "0", "1", "2", "3", "4", "5", "raised"}

\* The command line of the single conversion takes 0 or 1 for the version.
Init ==
  /\ config \in Configs
  /\ single \in BOOLEAN
  /\ single =>
       Len(config) = 1 /\ ~config[1].missing /\ config[1].num # None /\ ~config[1].quoted
  /\ at = IF single THEN 1 ELSE 0
  /\ stage = IF single THEN "schema" ELSE "config"
  /\ disk = [o \in Outs |-> [is |-> "old"]]
  /\ exit = "run"

At(s) == exit = "run" /\ stage = s
This == config[at]
Same == UNCHANGED <<config, single>>

Exit(code) == exit' = code /\ Same /\ UNCHANGED <<at, stage, disk>>
Goto(s) == stage' = s /\ Same /\ UNCHANGED <<at, disk, exit>>

-----------------------------------------------------------------------------
(* schema_generator.                                                       *)

\* A file that cannot be opened and a YAML parser error are logged, and the
\* status is 0; a symbolic link is an exception.
ConfigUnreadable ==
  /\ At("config")
  /\ Exit("0") \/ Exit("raised")

\* Mutation: only the first element is looked at.
ConfigFaultsFirst == {n \in Elements : n = 1 /\ config[n].missing}

\* version is not among the fields that are checked.
ConfigFaults == {n \in Elements : config[n].missing}

\* The errors are strings: error.msg is an AttributeError.
ConfigInvalid ==
  /\ At("config")
  /\ ConfigFaults # {}
  /\ Exit("raised")

ConfigValid ==
  /\ At("config")
  /\ ConfigFaults = {}
  /\ Goto("next")

\* The generator yields the next element; without a version it raises.
NextElement ==
  /\ At("next")
  /\ at < Len(config)
  /\ IF config[at + 1].num = None
     THEN Exit("raised")
     ELSE at' = at + 1 /\ stage' = "schema" /\ Same /\ UNCHANGED <<disk, exit>>

BatchEnds ==
  /\ At("next")
  /\ at = Len(config)
  /\ Exit("0")

-----------------------------------------------------------------------------
(* inventory_converter.                                                    *)

\* Some errors of each of the three files are not caught: a schema that is not UTF-8,
\* an XML reference out of its directory, a YAML file that is not a mapping.
LoadSchema == At("schema") /\ (Goto("xml") \/ \E code \in {"1", "2", "raised"} : Exit(code))
LoadAggregator == At("xml") /\ (Goto("yaml") \/ \E code \in {"1", "2", "raised"} : Exit(code))

\* A version in quotes equals neither 0 nor 1.
IsVersion(n) == ~This.quoted /\ This.num = n

\* Mutation: the format is not compared with version 0.
YamlRefusedLax ==
  IsVersion(1) /\ This.yaml \in {"flat", "badvalue"}

\* validate_yaml_version and validate_yaml_values.
YamlRefused ==
  \/ IsVersion(0) /\ This.yaml # "flat"
  \/ IsVersion(1) /\ This.yaml \in {"flat", "badvalue"}

LoadYaml ==
  /\ At("yaml")
  /\ \/ ~YamlRefused /\ Goto("extract")
     \/ YamlRefused /\ Exit("1")
     \/ \E code \in {"1", "2", "raised"} : Exit(code)

\* Everything but version 0 is extracted as version 1: a flat entry is a
\* TypeError, an entry without a type a KeyError.
FlatAsNested == This.sensor /\ ~IsVersion(0) /\ This.yaml = "flat"
NoType == This.sensor /\ ~IsVersion(0) /\ This.yaml = "notype"

\* The metrics come before the transformations; a duplicate of any kind is a
\* NameError, a missing number a TypeError, a formula that is refused or a number
\* that is not one an exception that is not caught.
Extract ==
  /\ At("extract")
  /\ CASE FlatAsNested \/ This.xml = "badnumber" -> Exit("4")
       [] NoType -> Exit("raised")
       [] This.xml = "duplicate" \/ (This.xml = "dupname" /\ IsVersion(1)) -> Exit("3")
       [] This.xml = "badformula" -> Exit("raised")
       [] OTHER -> Goto("validate")

\* Mutation: the file is opened, and emptied, before the data is validated.
ValidateAfterOpening ==
  /\ At("validate")
  /\ disk' = [disk EXCEPT ![This.out] = [is |-> "torn"]]
  /\ \/ stage' = "open" /\ exit' = exit
     \/ stage' = stage /\ exit' = "5"
  /\ Same /\ UNCHANGED at

\* The data fits the schema, or it does not.
Validate == At("validate") /\ (Goto("open") \/ Exit("5"))

\* The output is a symbolic link or cannot be opened; once open, it is empty.
OpenOutput ==
  /\ At("open")
  /\ \/ Exit("1")
     \/ /\ disk' = [disk EXCEPT ![This.out] = [is |-> "torn"]]
        /\ stage' = "write"
        /\ Same /\ UNCHANGED <<at, exit>>

\* Mutation: a failed write is not noticed.
WriteOutputUnnoticed ==
  /\ At("write")
  /\ \/ Exit("1")
     \/ Goto("next")
     \/ /\ disk' = [disk EXCEPT ![This.out] = [is |-> "whole", from |-> at]]
        /\ stage' = IF single THEN "dump" ELSE "next"
        /\ Same /\ UNCHANGED <<at, exit>>

\* An IOError or an AvroException leaves what was written so far.
WriteOutput ==
  /\ At("write")
  /\ \/ Exit("1") \/ Exit("2")
     \/ /\ disk' = [disk EXCEPT ![This.out] = [is |-> "whole", from |-> at]]
        /\ stage' = IF single THEN "dump" ELSE "next"
        /\ Same /\ UNCHANGED <<at, exit>>

\* dump_metrics and dump_aggregator, when asked for, end the process if they
\* fail: the Avro file is there all the same.
Dump == At("dump") /\ (Exit("0") \/ Exit("1") \/ Exit("2"))

Ended == exit # "run" /\ UNCHANGED vars

Next ==
  \/ ConfigUnreadable
  \/ ConfigInvalid
  \/ ConfigValid
  \/ NextElement
  \/ BatchEnds
  \/ LoadSchema
  \/ LoadAggregator
  \/ LoadYaml
  \/ Extract
  \/ Validate
  \/ OpenOutput
  \/ WriteOutput
  \/ Dump
  \/ Ended

Spec == Init /\ [][Next]_vars

-----------------------------------------------------------------------------
(* Properties.                                                             *)

Done(n) == n < at \/ (n = at /\ stage \in {"next", "dump"})
Writers(o) == {n \in Elements : config[n].out = o /\ Done(n)}
Writing(o) == stage = "write" /\ This.out = o

\* Whatever ends the batch, the elements before the failing one are converted,
\* and the output of no other element is touched before that element's data is
\* validated (schema_generator.py:33-34, inventory_converter.py:502-526).
EarlierElementsConverted ==
  \A o \in Outs :
    IF Writing(o) THEN disk[o].is = "torn"
    ELSE IF Writers(o) = {} THEN disk[o].is = "old"
    ELSE \E n \in Writers(o) :
           disk[o] = [is |-> "whole", from |-> n] /\ \A m \in Writers(o) : m <= n

\* An exit status of 0 is all or nothing: every output is whole, or the
\* configuration could not be read and every output is what it was.
ZeroIsAllOrNothing ==
  exit = "0" =>
    \/ \A o \in Outs : disk[o].is = "whole"
    \/ \A o \in Outs : disk[o].is = "old"

FitsVersion(e) ==
  ~e.quoted =>
    /\ e.num = 0 => e.yaml = "flat"
    /\ e.num = 1 => e.yaml \notin {"flat", "badvalue"}

\* With version 0 or 1, no file is written from a YAML file of the other
\* version, or from one with a source that is not allowed, although the
\* extraction would take them when no metric is named
\* (inventory_converter.py:97-115, 278-295).
WrongYamlWritesNothing ==
  \A o \in Outs : disk[o].is = "whole" => FitsVersion(config[disk[o].from])

\* An error that the validation of the configuration looks for, in any element,
\* is found before anything is written (schema_generator.py:54-57, 67-90).
FaultyConfigWritesNothing ==
  (\E n \in Elements : config[n].missing) =>
    single \/ \A o \in Outs : disk[o].is = "old"
=============================================================================
