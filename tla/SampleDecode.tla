---------------------------- MODULE SampleDecode ----------------------------
(***************************************************************************)
(* From the bytes of a telemetry region to metrics, in both collectors:    *)
(* CalculateMask (xml-parser.go:237-241, 259-268) and                      *)
(* processAggregatorData (common_processor.go:27-120) of the Go receiver,  *)
(* the dictionary of get_pmt_dict and read_samples (pmt.py:290-385,        *)
(* 423-465, 843-930) of the Python agent.  Either reads the region one     *)
(* group of samples, then one metric at a time.  They share nothing but    *)
(* their input.                                                            *)
(*                                                                         *)
(* A byte or a word is the set of its bits that are 1.  A container has    *)
(* ContainerBytes bytes of ByteBits bits, 8 and 8 in the code.  A formula  *)
(* is not evaluated: a metric's value is the formula with the raw values   *)
(* of its inputs, or its evaluation fails.  gval is outside src/, and      *)
(* SafeExpression has the evaluation of the agent.                         *)
(***************************************************************************)
EXTENDS Naturals, Sequences, FiniteSetsExt

CONSTANTS
  ByteBits, ContainerBytes,
  Regions,      \* the byte sequences to decode
  Aggregators,  \* sequences of groups of samples
  Interfaces,   \* sequences of metrics
  Defined,      \* the formulas that the interface XML defines
  Failing,      \* those whose evaluation fails
  Allowlists    \* each a set of patterns, a pattern the set of names it matches

Byte == SUBSET (0..(ByteBits - 1))
Group == [id : Nat, samples : Seq([sid : STRING, lsb : Nat, msb : Nat])]
Metric == [group : STRING, name : STRING, counter : BOOLEAN, reserved : BOOLEAN,
           formula : STRING, inputs : SUBSET STRING]

ASSUME WidthAssumption == ByteBits \in Nat \ {0} /\ ContainerBytes \in Nat \ {0}
ASSUME InputAssumption ==
  Regions \subseteq Seq(Byte) /\ Aggregators \subseteq Seq(Group) /\ Interfaces \subseteq Seq(Metric)

VARIABLES
  region, aggregator, interface, allowlist,
  goGroups, goMetrics,   \* Go: how many groups and metrics were passed
  rawValues, values,
  pyGroups, pyMetrics,   \* Python: the same
  pyStage,               \* "load", "read" or "raised"
  samples,               \* the dictionary: sample ID -> [group, sample]
  parsed, ret            \* parsed_samples and the metrics read

inputVars == <<region, aggregator, interface, allowlist>>
goVars == <<goGroups, goMetrics, rawValues, values>>
pyVars == <<pyGroups, pyMetrics, pyStage, samples, parsed, ret>>
vars == <<inputVars, goVars, pyVars>>

-----------------------------------------------------------------------------
(* Bit fields.                                                             *)

Width == ByteBits * ContainerBytes
Bits == 0..(Width - 1)

\* Go: a shift by the width or more gives 0 ...
ShiftLeftOne(n) == IF n < Width THEN {n} ELSE {}

\* ... and 0 - 1 wraps to all ones.
MinusOne(w) == IF w = {} THEN Bits ELSE (w \ {Min(w)}) \cup 0..(Min(w) - 1)

ShiftRight(w, n) == {b - n : b \in {c \in w : c >= n}}

\* Mutation: the field ends below its msb.
CalculateMaskShort(msb, lsb) == MinusOne(ShiftLeftOne(msb)) \ MinusOne(ShiftLeftOne(lsb))

CalculateMask(msb, lsb) == MinusOne(ShiftLeftOne(msb + 1)) \ MinusOne(ShiftLeftOne(lsb))

LittleEndian(bytes) ==
  UNION {{i * ByteBits + b : b \in bytes[i + 1]} : i \in 0..(Len(bytes) - 1)}

\* Offsets come from the group: all its samples share one container.
ByteOffset(group) == group.id * ContainerBytes

\* The bytes of a container, or what there is of them.
Slice(group) ==
  LET last == ByteOffset(group) + ContainerBytes
  IN  SubSeq(region, ByteOffset(group) + 1, IF last <= Len(region) THEN last ELSE Len(region))

GoField(group, sample) ==
  ShiftRight(LittleEndian(Slice(group)) \cap CalculateMask(sample.msb, sample.lsb), sample.lsb)

\* Unbounded integers: the mask needs no wrap.  A slice past the end of the
\* buffer is silently short, and its missing bytes count as zeros.
PyField(group, sample) ==
  LET mask == (Bits \cap 0..sample.msb) \ (Bits \cap 0..(sample.lsb - 1))
  IN  ShiftRight(LittleEndian(Slice(group)) \cap mask, sample.lsb)

Sids(group) == {group.samples[j].sid : j \in 1..Len(group.samples)}

\* A sample ID that comes again in its group replaces what was there.
SampleOf(group, sid) ==
  group.samples[Max({j \in 1..Len(group.samples) : group.samples[j].sid = sid})]

\* Assignments to the keys of a map.
Update(f, g) == [x \in DOMAIN f \cup DOMAIN g |-> IF x \in DOMAIN g THEN g[x] ELSE f[x]]
Nothing == [x \in {} |-> 0]

-----------------------------------------------------------------------------

Init ==
  /\ region \in Regions
  /\ aggregator \in Aggregators
  /\ interface \in Interfaces
  /\ allowlist \in Allowlists
  /\ goGroups = 0 /\ goMetrics = 0
  /\ rawValues = Nothing /\ values = Nothing
  /\ pyGroups = 0 /\ pyMetrics = 0
  /\ pyStage = "load"
  /\ samples = Nothing /\ parsed = Nothing /\ ret = Nothing

-----------------------------------------------------------------------------
(* The Go receiver.                                                        *)

Fits(group) == ByteOffset(group) + ContainerBytes <= Len(region)

GroupsRead == goGroups = Len(aggregator)

\* Mutation: one group that does not fit ends the decoding.
ReadGroupOrEnd ==
  /\ goGroups < Len(aggregator)
  /\ LET group == aggregator[goGroups + 1]
     IN  IF Fits(group)
         THEN /\ rawValues' = Update(rawValues,
                                [sid \in Sids(group) |-> GoField(group, SampleOf(group, sid))])
              /\ goGroups' = goGroups + 1
         ELSE rawValues' = rawValues /\ goGroups' = Len(aggregator)
  /\ UNCHANGED <<inputVars, goMetrics, values, pyVars>>

\* The break leaves the group that does not fit, and only it.
ReadGroup ==
  /\ goGroups < Len(aggregator)
  /\ goGroups' = goGroups + 1
  /\ LET group == aggregator[goGroups + 1]
     IN  rawValues' = IF Fits(group)
                      THEN Update(rawValues,
                             [sid \in Sids(group) |-> GoField(group, SampleOf(group, sid))])
                      ELSE rawValues
  /\ UNCHANGED <<inputVars, goMetrics, values, pyVars>>

\* A counter is published under its sample name only.
PublishedName(metric) ==
  IF metric.counter THEN <<metric.name>> ELSE <<metric.group, metric.name>>

Evaluates(metric) == metric.formula \in Defined \ Failing
Value(raw, metric) == [formula |-> metric.formula, on |-> [i \in metric.inputs |-> raw[i]]]

\* Mutation: a reserved metric is published as any other.
PublishableReserved(metric) == metric.inputs \subseteq DOMAIN rawValues /\ Evaluates(metric)

Publishable(metric) ==
  ~metric.reserved /\ metric.inputs \subseteq DOMAIN rawValues /\ Evaluates(metric)

ProcessMetric ==
  /\ GroupsRead /\ goMetrics < Len(interface)
  /\ goMetrics' = goMetrics + 1
  /\ LET metric == interface[goMetrics + 1]
     IN  values' = IF Publishable(metric)
                   THEN Update(values, [n \in {PublishedName(metric)} |-> Value(rawValues, metric)])
                   ELSE values
  /\ UNCHANGED <<inputVars, goGroups, rawValues, pyVars>>

-----------------------------------------------------------------------------
(* The Python agent.                                                       *)

Allowed(name) == \E pattern \in allowlist : name \in pattern

\* samp_groups.update, after the filter, which looks at sample IDs.
ParseGroup ==
  /\ pyStage = "load" /\ pyGroups < Len(aggregator)
  /\ pyGroups' = pyGroups + 1
  /\ LET group == aggregator[pyGroups + 1]
     IN  samples' = Update(samples,
           [sid \in {s \in Sids(group) : Allowed(s)} |->
             [group |-> group, sample |-> SampleOf(group, sid)]])
  /\ UNCHANGED <<inputVars, goVars, pyMetrics, pyStage, parsed, ret>>

ReadSamples ==
  /\ pyStage = "load" /\ pyGroups = Len(aggregator)
  /\ pyStage' = "read"
  /\ parsed' = [sid \in DOMAIN samples |-> PyField(samples[sid].group, samples[sid].sample)]
  /\ UNCHANGED <<inputVars, goVars, pyGroups, pyMetrics, samples, ret>>

Name(metric) == <<metric.group, metric.name>>
Named(name) == {i \in 1..Len(interface) : Name(interface[i]) = name}

\* parse_transform_mapping: a name is where it came first, with the metric that came
\* last.
Mapping(name) == interface[Max(Named(name))]

Shown(name) == allowlist = {} \/ Allowed(name[2])

\* Mutation: a metric with an input that has no sample is left out.
KeyErrorUndefined(metric) == metric.formula \notin Defined

\* An undefined formula or an input without a sample ends the read.
KeyError(metric) == metric.formula \notin Defined \/ ~(metric.inputs \subseteq DOMAIN parsed)

\* A metric whose name is not allowed is passed over; a formula that fails leaves out
\* its metric.
ReadMetric ==
  /\ pyStage = "read" /\ pyMetrics < Len(interface)
  /\ pyMetrics' = pyMetrics + 1
  /\ LET name == Name(interface[pyMetrics + 1])
         metric == Mapping(name)
     IN  IF \/ \E i \in Named(name) : i <= pyMetrics
            \/ ~Shown(name)
         THEN UNCHANGED <<pyStage, ret>>
         ELSE /\ pyStage' = IF KeyError(metric) THEN "raised" ELSE "read"
              /\ ret' = IF metric.inputs \subseteq DOMAIN parsed /\ Evaluates(metric)
                        THEN Update(ret, [n \in {name} |-> Value(parsed, metric)])
                        ELSE ret
  /\ UNCHANGED <<inputVars, goVars, pyGroups, samples, parsed>>

Next == ReadGroup \/ ProcessMetric \/ ParseGroup \/ ReadSamples \/ ReadMetric

Spec == Init /\ [][Next]_vars

-----------------------------------------------------------------------------
(* Reference definitions and properties.                                   *)

GoDone == GroupsRead /\ goMetrics = Len(interface)
PyDone == pyStage = "read" /\ pyMetrics = Len(interface)

\* Bit number p of the region, counted from the lowest bit of its first byte.
RegionBit(p) == p % ByteBits \in region[(p \div ByteBits) + 1]

\* Bits lsb .. msb of the container, as far as it has them.
FieldRef(group, sample) ==
  {n \in 0..(sample.msb - sample.lsb) :
     sample.lsb + n \in Bits /\ RegionBit(ByteOffset(group) * ByteBits + sample.lsb + n)}

\* Positions of samples in the aggregator definition, in the order of the file.
Definitions == UNION {{i} \X (1..Len(aggregator[i].samples)) : i \in 1..Len(aggregator)}
GroupAt(d) == aggregator[d[1]]
SampleAt(d) == aggregator[d[1]].samples[d[2]]
NotAfter(d, e) == d[1] < e[1] \/ (d[1] = e[1] /\ d[2] <= e[2])

\* The last of some definitions that defines what it defines.
IsLast(d, defs) ==
  d \in defs /\ \A e \in defs : SampleAt(e).sid = SampleAt(d).sid => NotAfter(e, d)

Fitting == {d \in Definitions : Fits(GroupAt(d))}

\* The Go receiver decodes exactly the samples whose container lies inside the
\* data, whatever the order of the groups, and each to its own bits, at every
\* lsb and msb; of several that fit with one sample ID it keeps the last
\* (common_processor.go:44-58).
GoDecodesWhatFits ==
  GroupsRead =>
    /\ DOMAIN rawValues = {SampleAt(d).sid : d \in Fitting}
    /\ \A d \in Fitting : IsLast(d, Fitting) =>
         rawValues[SampleAt(d).sid] = FieldRef(GroupAt(d), SampleAt(d))

\* What is published is exactly the unreserved metrics whose inputs were all
\* decoded and whose formula works, and of several with one published name the
\* last (common_processor.go:66-118).
MetricsFromDecodedInputs ==
  GoDone =>
    LET published == {i \in 1..Len(interface) :
          /\ ~interface[i].reserved /\ Evaluates(interface[i])
          /\ interface[i].inputs \subseteq DOMAIN rawValues}
    IN  /\ DOMAIN values = {PublishedName(interface[i]) : i \in published}
        /\ \A i \in published :
             (\A j \in published : PublishedName(interface[j]) = PublishedName(interface[i]) => j <= i)
             => values[PublishedName(interface[i])] = Value(rawValues, interface[i])

Unique(i) ==
  \A j \in 1..Len(interface) : interface[j].name = interface[i].name => j = i

\* On a complete region the Go receiver and the Python agent, if it reads at all,
\* decode every allowed sample to the same value; and what the agent reports, the
\* receiver publishes with the same value, unless it is reserved or the name is
\* also that of another metric (pmt.py:843-930, common_processor.go:43-118).
CollectorsAgree ==
  /\ GoDone /\ PyDone
  /\ \A i \in 1..Len(aggregator) : Fits(aggregator[i])
  => /\ \A s \in DOMAIN parsed : s \in DOMAIN rawValues /\ parsed[s] = rawValues[s]
     /\ \A i \in 1..Len(interface) :
          LET m == interface[i]
          IN  Name(m) \in DOMAIN ret /\ ~m.reserved /\ Unique(i)
              => /\ PublishedName(m) \in DOMAIN values
                 /\ values[PublishedName(m)] = ret[Name(m)]

\* What the agent would report without an allowlist, every sample kept.
LastDefinition(sid) == CHOOSE d \in Definitions : SampleAt(d).sid = sid /\ IsLast(d, Definitions)
EverySample ==
  [sid \in {SampleAt(d).sid : d \in Definitions} |->
    PyField(GroupAt(LastDefinition(sid)), SampleAt(LastDefinition(sid)))]
Unrestricted ==
  [n \in {Name(interface[i]) : i \in {j \in 1..Len(interface) :
            LET m == Mapping(Name(interface[j]))
            IN  Evaluates(m) /\ m.inputs \subseteq DOMAIN EverySample}}
     |-> Value(EverySample, Mapping(n))]

\* An allowlist only leaves out: a read that does not fail reports exactly the
\* allowed part of what it would report without one, with the same values, however
\* samples and metrics share names (pmt.py:425-428, 888-894).
AllowlistOnlyFilters ==
  PyDone =>
    /\ DOMAIN ret = {n \in DOMAIN Unrestricted : Shown(n)}
    /\ \A n \in DOMAIN ret : ret[n] = Unrestricted[n]
=============================================================================
