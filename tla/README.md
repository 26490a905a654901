# Intel PMT tools: models, checks and proofs

This directory holds TLA+ models of the programs under `src/tools`: the
OpenTelemetry receiver (Go), the Python agent and collectd plugin, and the
inventory converter. It says what was modelled, what TLC checks on small
instances, what TLAPS proves for every instance, and what is left out.

A line such as `receiver.go:261` is in `src/tools/otel/intelpmtreceiver/`,
`pmt.py` is `src/tools/collectd-agent/pmt.py`, and the converter's files are in
`src/tools/inventory-converter/`. `PROJECT.json` maps every definition to the
lines it stands for.

## 1. Inventory

### The receiver (`receiver.go`, `factory.go`, `xml-parser.go`, `common_processor.go`)

* **State.** The context and its cancel function, a map of HTTP clients by
  endpoint, three caches of parsed XML by base directory, a lookup map from
  (GUID text, size) to an XML set. Outside: each client's connection pool, a
  ticker whose channel holds one tick.
* **Operations.** `Start` reads `pmt.xml`, builds the lookup map and spawns one
  goroutine. The goroutine scrapes at once and then on every tick: discover
  (Redfish requests, or sysfs reads), look the device up, load its XML files,
  decode, hand over to the consumer. `Shutdown` cancels the context and closes
  the idle connections of every client; it does not wait.
* **Interaction.** The collector calls `Start` and `Shutdown`; the goroutine
  calls the consumer. `Shutdown` and the goroutine share `httpClients` with no
  lock.
* **Hard behaviour.** Shutdown at any point of a scrape; endpoints that hang,
  fail or answer nonsense; deferred closes on ten return paths; caches whose
  keys are coarser than their contents; comparison of GUIDs as text; 64-bit
  masks at msb 63; truncated regions.
* **Right means.** No connection and no goroutine is left behind; one bad
  endpoint, device or file costs only itself; a device is decoded with its own
  files; every field is its bits.

### The agent and collectd plugin (`pmt.py`)

* **State.** `pmt_files` (paths by UID, which is GUID and size), `pmt` (a
  dictionary per UID), the allowlist.
* **Operations.** `init` (metadata, discovery, one dictionary per UID), `read`
  (collectd) and `periodic_readsamples` (stand-alone, rescheduling itself),
  formula evaluation with limits.
* **Interaction.** collectd calls `init` and `read`, ignores what `init`
  returns, logs what they raise and calls `read` again. Stand-alone, an
  exception ends the agent, SIGINT ends it in order. Sysfs changes under it.
* On Windows and VMkernel there are no files: `get_telemetry` opens the driver,
  asks it for its regions one by one and closes it, once per instance in `init`
  and once per entry of `pmt_files` in every read.
* **Hard behaviour.** `init` cut short; telem files that vanish, return, or
  belong to another device; several entries of `pmt.xml` for one GUID; one
  exception ends a whole read; a driver's list that changes while it is walked.
* **Right means.** A misfortune with one endpoint is not a misfortune of
  another; a dictionary belongs to its endpoint; evaluation is exact and
  bounded; what was accepted at init can be evaluated; an allowlist hides and
  changes nothing; no handle is left open.

### The inventory converter (`inventory_converter.py`, `schema_generator.py`)

* **State.** Almost none in memory; the output files.
* **Operations.** Load three inputs, extract (each formula becomes RPN), check
  against the schema, write; the batch does it per element of a configuration.
* **Hard behaviour.** A failure in the middle of a batch or of a write, exit
  statuses, a version that selects both a check and a way to read; operator
  precedences.
* **Right means.** What was converted before a failure is whole, status 0 tells
  the truth, RPN means what the formula means.

### YAML from Avro (`yaml_metadata_from_avro.py`)

* **State.** The YAML file of sensor types and the Avro file, which the converter
  reads and writes as well.
* **Operations.** Load the Avro file, keep what each metric says of its sensor,
  write a YAML file.
* **Hard behaviour.** Two programs decide which entries there are and what a
  missing value means; the version is an option of each and is not written in
  either file; a write may be torn.
* **Right means.** What was made from an Avro file says what that file says.

### The rest

The XML telemetry data, XSDs, Avro schemas, examples, Docker files, collector
configurations, docs and CI have no behaviour of their own to model.

## 2. Modules

| module | models | extends or instantiates |
|---|---|---|
| `ScrapeLoop` | what a receiver promises its collector (abstract) | |
| `PmtReceiver` | life of the receiver in Redfish mode | `Loop == INSTANCE ScrapeLoop` |
| `PmtReceiver_proofs` | theorems about it | `PmtReceiver`, TLAPS |
| `AggregatorSetup` | lookup map, GUID spelling, XML caches | |
| `AggregatorSetup_proofs` | theorems about it | `AggregatorSetup`, TLAPS |
| `LocalDiscovery` | local mode: discovery read by read, then set-up | `A == INSTANCE AggregatorSetup` |
| `LocalDiscovery_proofs` | theorems about it | `LocalDiscovery`, TLAPS; `AP == INSTANCE AggregatorSetup_proofs` |
| `SampleDecode` | bytes to metrics, in both collectors | |
| `PmtAgent` | init and read of the agent and plugin on Linux | |
| `PmtAgent_proofs` | theorems about it | `PmtAgent`, TLAPS |
| `AgentDriver` | init and read on Windows and VMkernel, request by request | |
| `AgentDriver_proofs` | theorems about it | `AgentDriver`, TLAPS |
| `SafeExpression` | acceptance and evaluation of a formula under limits | |
| `Decoding_proofs` | theorems about decoding and formulas | `SampleDecode`, `SafeExpression`, TLAPS |
| `InfixToPostfix` | infix formula to RPN | |
| `InfixToPostfix_proofs` | theorems about it | `InfixToPostfix`, TLAPS |
| `ConversionBatch` | one conversion, and the batch of them | |
| `SensorTypes` | sensor types from YAML to Avro and back | |
| `Converter_proofs` | theorems about both | `ConversionBatch`, `SensorTypes`, TLAPS |

Each module with a specification, except `ScrapeLoop`, has an `MC` module with the
finite instances and one `.cfg` per run. `SensorTypes` and `SafeExpression` have
names of their own for initial states, steps and specification (`SensorSpec`,
`FormulaSpec`), because a module of proofs extends each together with another.
Definitions under a comment that begins with "Mutation:" are not part of the
system: each is a plausible slip in a definition, which a run must notice.

### PmtReceiver

`host` is how far the collector is in `Start` and `Shutdown`, `pc` where the
goroutine is; `ctx` is the context. A visit of an endpoint is the path
`next -> client -> insert -> request -> post -> triggered -> get -> body ->
next`, with a step for each point where the code waits or where Shutdown may
come between. Every early return of `discoverRedfishAggregator` is the action
`Return`, with the deferred close of the POST body in it. `clients` is the key
set of `httpClients`. A map write is two steps, `InsertBegins` and `InsertEnds`,
since a range loop may run during it: Go's runtime may catch that and kill the
process (`MapFatal`), and if it does not, the loop may or may not visit the new
key. `busy`, `idle` and `closeIdle` are the connection pool as net/http keeps
it. How many aggregators a body holds and what they decode to is the boolean
`usable`.

`ScrapeLoop` says no more than: batches come one at a time, connections are
opened only while the receiver is up, after the request to stop they only
disappear, and the receiver is gone only without connections. The refinement
maps `host` and `pc` to `phase`, and counts a connection, in use or idle, as
`connected`.

### AggregatorSetup

A GUID text is a pair of a number and a spelling, because `BuildLookupMap` keeps
the text of `pmt.xml`, Redfish discovery keeps the BMC's text in lower case, and
local discovery prints the number with `%08x`. A setup reads or takes from the
cache one file per step, so a file may change between two of them. What a set-up
ends in is `outcome`; what a device is decoded with, and the key it had then, is
`decoder`. `firstRead` is a history variable: what each file held when it was first
read. `FirstReadCounts` compares it with what a set-up uses. `Reports` says with which keys a name may come: a place in the answer
of a BMC may be another device in the next scrape.

### LocalDiscovery

A scrape of the local mode is the path `idle -> guid -> size -> telem -> guid ->
... -> setup -> idle`; each of the three files of a folder is read in a step of
its own, and `bound` says whose files the folder has at that moment. `partial` is
what was read so far of one folder, `changed` a history variable that says
whether the folder changed since its guid was read. The set-up of what was found
is `AggregatorSetup`'s, instantiated with the folders for names and with every
combination of GUID and size for keys, and visits the folders in any order, since
`getPMTLocal` ranges over a map. `ImplementsSetup` says that this is a refinement:
seen through the variables of `AggregatorSetup`, local mode does what a Redfish
scrape may do.

### SampleDecode

A byte or a word is the set of its bits that are 1: `&^` is a difference, a shift
moves the members, and `MinusOne` is Go's `1 << n - 1` with its wrap to all ones
when the shift leaves nothing. Python's masks need no wrap. Containers have
`ContainerBytes` bytes of `ByteBits` bits. The reference is `FieldRef`, which reads
the bits of the field one by one out of the region, with no mask and no container.

The receiver takes one group of samples per step (`ReadGroup`), then one metric
(`ProcessMetric`); the agent one group into its dictionary (`ParseGroup`, with the
allowlist on sample IDs), all samples of a region (`ReadSamples`), then one metric
(`ReadMetric`, with the allowlist on names, and the exception that ends the read).
Each has its own masks, names, filters and order; the cut of a container out of the
region (`Slice`) and what a formula gives for its inputs (`Value`, `Evaluates`) are
one definition for both, since the codes do the same there. A metric's value is its formula with the values of its
inputs; a formula is undefined, fails, or works.

### PmtAgent

`bound` says whose data a telem folder has now. `init` reads guid, size and telem of a
folder in a step each (`ReadGuid`, `ReadSize`, `TelemIsFile`), with `partial` for what
it has so far, so that a UID may be the GUID of one device and the size of another;
then comes one step per UID, and a read is one step per file. `pmt_files` is `uids`
(the keys, in order) and `files`. Two history variables serve the properties: `seen`
says which device a folder had when its guid was read, and `torn` which folders had
become another's before their size was. `Candidates` and `Chooses` are the matching of a UID with
`pmt.xml`; the prefix relation on GUID texts is a parameter. `Sound` and
`Loadable` say which XML sets are what `pmt.xml` says and which can be parsed;
any set may also fail to load if it is not in `Loadable`.

`SamplesIn` and `MetricsIn` are what the XML files of a set contain, as far as a
read looks it up: whether a sample has its lsb and msb, which inputs a metric has,
whether its transformation and data type are there, whether it has a `SampleType`. A
read raises where the code indexes a dictionary that lacks the key: `Decodable` for
lines 884 to 917, `Untyped` for line 940. `Misconfigured` says which sets these can
be: not the set that `pmt.xml` says, `Incomplete`, or torn apart by the allowlist
(`Hides`). No metric of the repository's XML files is incomplete.

### AgentDriver

`get_telemetry` with one action per request of the driver: on Windows `Discover`
and then `ReadRegion` by index, on VMkernel `QuerySize` and `ReadEntry` in turn.
`regions` is what the driver has at that moment, and may change between any two
requests. `call` is the call under way: what the discovery called the regions,
what was read so far, and whether the list changed. `init` adds one entry to
`pmt_files` per region, under the GUID and the length that it got; a read calls
`get_telemetry` for each entry and takes the last region whose GUID's text is part
of the UID (`Within`), which raises if there is none, or if `init` was cut short
(`inited`) and the UID has no dictionary. Whatever fails raises, stand-alone to the end and in
collectd to the next read, and the `finally` closes the handle in the same step.

### InfixToPostfix and SafeExpression

The converter's stack machine, one token or one pop per action, on positions
instead of texts, so that two equal operands are told apart. Every token that
Python's tokenizer calls OP is an operator to it, also those without a precedence
(`Unlisted`): such a token is converted where the stack is empty or has a `(` on top,
and a `KeyError` elsewhere (`OperatorFails`). There are two references. `Postfix` finds the operator that Python applies last and splits there.
`RpnOrder` says of each two tokens of the output which comes first, by
`InRightOperand`, with no recursion; for a well-formed formula and with `NothingLostOrRepeated` it leaves one
possible output, and the proofs show that it is `Postfix`. `SafeExpression` checks
a formula once (`Prepare`), then evaluates it with any inputs (`Read`), which need not
have the parameters that the transformation declares. A formula is the sequence of
the nodes of its tree in the order in which the recursive `evaluate` returns from
them, operands before operators, so that one return is one step (`EvaluateNode`)
and `results` is what the calls have returned. A float is one value, and an
operation on it may give a float or an error, hence a set of outcomes. `&`, `|` and
`^` work digit by digit on two's complement (`Digitwise`), as Python's integers do
without a width; an ASSUME of `MCSafeExpression` compares them with the community
module Bitwise. The reference `Ideal` has no limits.

### ConversionBatch

One action per stage with its exit statuses; an exception that nobody catches, such
as for a YAML file that is not a map, is the exit `raised`. An output file is `old`, `torn`
(opened, thus emptied, and not closed) or `whole` with the element it came from.

### SensorTypes

The YAML file, the Avro file, and the commands that make one from the other with
any version and schema. An entry of the YAML file is flat or nested, its values
are members of small sets with one that the checks refuse; `Convert` is what the
converter does to the sensor types, `FromAvro` the other program. `made` remembers
how the YAML file was made, until someone edits it or a write fails.

## 3. Runs

Runs that pass:

| run | instance and bounds | shows |
|---|---|---|
| `receiver` | 3 endpoints: healthy and triggered; triggered with a timeout; one without either, which may hang for ever | `NoConnectionLeft`, `ConnectionsBounded`, `HealthyEndpointsReported`, `FatalOnlyWhileClientsMissing`, `RefinesScrapeLoop`, `GoroutineStops`, `HealthyAlwaysReportedAgain` |
| `setup_redfish` | 2 XML sets, 2 resources with 2 keys each, of which one is not listed; a fragile file in each set, 2 versions | `DecodedWithOwnFiles`, `FirstReadCounts`, `RecoversFromFailedReads` |
| `local` | 2 folders, one stable; 3 devices, one with a malformed guid and a GUID that is not found; 2 XML sets, one fragile file | `MixedOnlyIfChanged`, `StableFolderReturned`, `ImplementsSetup` |
| `decode` | bytes of 2 bits, containers of 2 bytes, all regions of 2 and 3 bytes and a quarter of those of 4; 3 aggregators, 3 interfaces, 4 allowlists | `GoDecodesWhatFits`, `MetricsFromDecodedInputs`, `CollectorsAgree`, `AllowlistOnlyFilters` |
| `agent` | 3 folders, one changing; 8 devices, 7 entries of `pmt.xml`: one whose set is another's, one unloadable, three incomplete and one of which the allowlist admits a metric without its input; collectd, stand-alone for ever and once; XML, JSON or other metadata | `ReadFailsOnlyIfMisconfigured`, `StableReported`, `ExactMatchWins`, `MisreadOnlyIfRenumbered`, `StableReportedAgain` |
| `driver` | Windows and VMkernel, 2 instances, one with 0 to 3 regions that come, go and change places, 3 being one more than the limit of entries; GUIDs of which one is part of another | `NoHandleLeft`, `DecodesOwnGuid`, `CallReturns` |
| `rpn_all` | all 22 620 sequences of up to 4 of 12 tokens (an operand, operators with and without a precedence, two kinds of brackets, one token of none of these), 4 608 formulas of 4 operands, 8 longer ones with `%` or `]` | `RpnMeansTheFormula`, `RpnOrder`, `NothingLostOrRepeated`, `RefusedOnlyIfStrange` |
| `safe_expr` | limits of 4 bits, exponent 3, shift 3, 11 nodes; an operator over the results of operators, over 6 leaves and 5 formulas that are refused | `WorkBounded`, `IntegersExact`, `AcceptedIsEvaluable` |
| `batch` | all configurations of up to 2 elements over some 100 elements, 2 outputs | `EarlierElementsConverted`, `ZeroIsAllOrNothing`, `WrongYamlWritesNothing`, `FaultyConfigWritesNothing` |
| `sensor_types` | 2 metrics and one that the XML lacks, every YAML file over 8 entries, both versions with both schemas | `RoundTrip`, `MadeForOneVersion` |

`receiver` and `setup_redfish` also check the module's type invariant `TypeOK`;
for the agent and the batch the theorem `TypeCorrect` says the same of every
instance. Why the bounds are enough:

* Three endpoints make every pair of consecutive visits, and one endpoint's pool
  never depends on another's.
* Two XML sets, one fragile file in each, let each cache hold and miss while the
  other set is loaded, and let a set-up stop in its middle and at its end.
* Two-bit bytes and two-byte containers reach msb = width, a field across the
  byte border and a cut container; the collectors' steps in any order (some 243 000
  states) show that they share nothing.
* In `local`, one changing folder beside a stable one reaches every order of
  changes between the three reads, before and behind the stable one, since every
  property speaks of one folder among others.
* In `agent`, the changing folder comes first, and may have the UID of a stable one, a
  UID whose dictionary is missing, defective, incomplete or foreign, or none that is
  known, so that it may be lost before, and share a list with, what must be reported.
  Between two of its reads it can become any of eight devices.
* In `driver`, a list of three regions can shrink, grow and shift at every index.
* Four tokens and the eight longer formulas bring an operator without a precedence and
  a bracket of another kind to an empty stack, onto a `(`, and beside an operator.
* With three operators each pair of precedences meets directly, through a
  parenthesis, and through a pop of two.
* Limits of 4 bits put each check at, below and above its boundary, and two levels of
  operators give every operator an operand of every kind of outcome.
* A metric's sensor depends on no other metric; two metrics, one of which may lack
  an entry, and a foreign one meet every check of a whole file.
* The elements of a batch interact only through a shared output and the process:
  two suffice.

No variable is cut off by a bound: the counters are bounded by the code itself
(`ConnectionsBounded`) or by the input.

Deadlock is checked except in `decode`, `rpn_all` and `safe_expr`, where a
computation ends.

Runs that show where the code departs from what it says:

| run | what the code does |
|---|---|
| `setup_local` | local mode does not find devices whose GUID has a leading zero (28 of 63 entries of `pmt.xml`) |
| `agent_allowlist` | a pattern that allows a metric but not its sample IDs makes every read raise |

### Fairness

* `PmtReceiver!FairSpec`. A runnable goroutine runs (weak fairness of `Step`). A
  request ends for sure only if the context is cancelled or its client has a
  timeout (`Expires`): a silent server owes nothing, and the receiver's default
  is no timeout. A healthy server answers; the consumer returns; the ticker
  ticks; `Shutdown`, once called, runs to its end, but nothing says that it is
  called. Go's `select` picks at random among the ready cases, so the two cases
  get strong fairness.
* `AggregatorSetup!FairSpec`. A set-up that has begun goes on, and every scrape
  visits every device (strong fairness, since a visit waits for the set-up
  before it). Files change without any fairness.
* `AgentDriver!FairSpec`. The one thread runs, and every request of the driver
  returns (weak fairness of `Agent`); the regions change without fairness.
* `PmtAgent!FairSpec`. One thread runs; the scheduler, or collectd, calls read
  again. Sysfs and SIGINT have none.

## 4. Divergences seen

The models behave like the code also where the code does something a reader would
not expect. These were met while modelling; no run is kept for them, since the
formula that fails is plain:

* `receiver.go:242`: `Shutdown` cancels the context and does not wait (line 255,
  "Cancel the context to stop the scraping goroutine"), and `select` prefers
  neither the tick nor the context: a scrape may begin, and hand its batch to the
  consumer, after `Shutdown` returned. It opens no connection: `RefinesScrapeLoop`.
* `pmt.py:880`: on Windows and VMkernel a region that went away since `init` leaves
  the buffer a text, which `int.from_bytes` does not take: the read of all
  endpoints ends, while on Linux it costs only its own samples (line 868):
  `ReadRaises`. Within one call the mix of `DecodesOwnGuid` is possible.
* `pmt.py:427`: the size that must match the UID is that of the last sample group
  in the file, and a sample ID that two groups have is the last one's;
  `common_processor.go:56` agrees in that, as `CollectorsAgree` shows.
* `yaml_metadata_from_avro.py:59`: with version 0 an Avro file of the newer schema
  gives a YAML file without the sources, and no message: `RoundTrip` says what is
  lost. A torn YAML file (line 72) may still be a map, and be converted: `Torn`.
* `receiver.go:261`: a client that the goroutine creates while or after `Shutdown`
  walks over the map is not closed ("Close all HTTP clients", line 260). The
  connections go all the same, `NoConnectionLeft`, because its context is
  cancelled.
* `pmt.py:740`: an exception in the middle of `init` leaves UIDs in `pmt_files`
  without a dictionary, although init means to remove what it cannot decode (line
  729), and every later collectd read raises at line 884. It is the disjunct
  `inited = "raised"` of `ReadFailsOnlyIfMisconfigured`.
* `pmt.py:897`: a metric whose XML set lacks its transformation, its data type
  or its inputs (lines 897 to 914), and in collectd its `SampleType` (line 940), ends
  the read of all endpoints, while one whose formula fails is left out (line 923). So
  does a sample without lsb or msb (line 850). `Incomplete` says so.
* `pmt.py:687`: guid and size of a folder are read one after the other; when
  the devices are numbered anew in between, the UID is of none or of a third:
  the disjunct `torn` of `MisreadOnlyIfRenumbered`.
* `pmt.py:740`: JSON metadata (line 660, "use JSON or XML") cannot work, as
  `xmlbaseurl` is bound for XML only: `LoadRaises`.
* `pmt.py:736`: "Matching guid only" (line 738) is a prefix test on the text, so
  GUID `gA` may get a dictionary of `gAB`: `Candidates`.
* `inventory_converter.py:183`: the table of precedences lacks `~`, which
  formulas of `xml/LNL/0` and `xml/LNL/1` use: a `KeyError` ends the conversion,
  `OperatorFails`. It gives `^` the rank of `|` and `<<` a higher rank than `>>`, and
  takes `**` as left associative, so such formulas mean something else than to
  the agent, which uses Python's parser: `RankedOtherwise`, excluded from
  `RpnMeansTheFormula`. No formula of the repository mixes them.
* `inventory_converter.py:279`: with the version in quotes, as its README.md:199
  has it, the version is neither 0 nor 1: `IsVersion`; a flat YAML file then ends
  with status 4 (`FlatAsNested`).
* `schema_generator.py:76`: `version` is not validated, and a missing one raises
  after earlier elements were written: `NextElement`.
* `schema_generator.py:37`: an invalid configuration is reported by an
  `AttributeError`, since the errors are texts: `ConfigInvalid`.

* `inventory_converter.py:205`: "Cannot parse transformation to RPN (unbalanced
  parens)" is raised for a `)` too many only. `x % x` is converted as if `%` had a
  precedence, `x + x % x` is a `KeyError`: `Unranked`.

The tokenizer is that of the Python versions up to 3.11. It has one counter for
brackets of all kinds and raises `TokenError` at the end of a formula where it is
not 0, which a `]` for a `)` leaves at 0: `(x]` is converted to `x ] (`, and
`NothingLostOrRepeated` says what comes out of such a formula.

## 5. Proofs

`PmtReceiver_proofs` proves, for any finite set of endpoints and any choice of
triggered, timed and healthy ones:

* `TypeCorrect`: `TypeOK`. The counts of connections are natural numbers only
  because no path gives back more than it took.
* `NothingLeft`, `FewConnections`, `HealthyReported`: the other invariants of the
  run `receiver`.
* `FatalOnlyEarly`: the action property about the concurrent map use.
* `Refinement`: the receiver implements `ScrapeLoop`.

They rest on the named assumption `EndpointsAssumption` (finite, subsets of the
endpoints, `None` is none of them) and on `Invariance`, the inductive invariant
`IInv`. None of the properties is inductive by itself. `IInv` says which
connections are in use at every `pc` (one on the wire, one more for an unread
POST body, none otherwise), that idle and used connections are at most two and
exist only for endpoints with a client, that a healthy endpoint is either found
or still to be visited while the context is live, and, for Shutdown, that a pool
already closed, or about to be, has no way to keep a connection: a client with
idle connections is in `closeLeft` or the walk over the clients has not begun,
and after the cancellation no request is sent, so `closeIdle` is never reset.
That last part is what makes the order "cancel, then close" matter.

Of `ConversionBatch`, `Converter_proofs` proves, for every set of configurations of any length,
`TypeCorrect` and the four invariants of the run `batch`: `EarlierConverted`,
`ZeroAllOrNothing`, `WrongYaml` and `FaultyConfig`. `EarlierElementsConverted`
says what every output is in terms of the position in the batch; it needs in
addition that the position and the stage fit (`Placed`), that a file being
written passed the check of its YAML file, and that a batch under way has no
faulty element (`NoFault`).

`AggregatorSetup_proofs` proves `TypeCorrect`, `DecodedRight` (the invariant
`DecodedWithOwnFiles`) and `FirstReadsCount` (the action property
`FirstReadCounts`) for any `pmt.xml`. They rest on the named assumption
`OneSetPerBasedir`: the caches know base directories only, and would be wrong
without it. The invariant says that what a cache has for a base directory is a
file of a set with that directory, and that the set-up under way has taken only
such files, of the set of its key. For `FirstReadCounts` it says besides that a cache
has what the file held when it was first read, or nothing if it never was
(`ReadOnceInv`). That the lookup map holds the set that is listed
first is `LookupIsFirst`; that there is a first one is `LeastExists`.

`LocalDiscovery_proofs` proves for any folders and devices:

* `NothingMixedUp`, the invariant `MixedOnlyIfChanged`: between two reads the parts
  read so far are those of the device that the folder has, or `changed` is set.
* `UsesSetup`, the refinement `ImplementsSetup`. Every action of the module is a step
  of `AggregatorSetup` or leaves its variables alone; what needs an invariant is
  `Visit`, whose key must be one that the folder may report.
* `DecodesWithOwnFiles` and `FirstReadsCountHere`: with that, what `AggregatorSetup_proofs`
  proves of Redfish resources holds of folders. The theorems are instantiated, not
  proved again.
* `StableReturned`, the invariant `StableFolderReturned`. It takes the invariants of
  both modules together (`StableInv`): files that are not fragile can be read
  (`DiskInv`), a stable folder yields its own device's files (`ReadInv`) and is found
  once the loop has passed it (`FoundInv`), and what was found waits, is being set
  up, or was set up well if its files cannot fail (`VisitInv`). The last part needs
  from the set-up that the set it loads is the one listed first for the key.

They rest on `FoldersAssumption` and `SetupAssumption`, which repeats for this
module's constants what `AggregatorSetup` assumes of its own.

`InfixToPostfix_proofs` proves `Order` (`RpnOrder`), `Meaning`
(`RpnMeansTheFormula`), `Complete` (`NothingLostOrRepeated`) and `Refusal`
(`RefusedOnlyIfStrange`) for formulas of any length over any tokens;
`FormulasAssumption` says only that they are sequences of texts. The invariant
behind all of them has six parts that matter:

* `PlaceInv`: the stack has positions in increasing order, and every operand and
  operator read so far is in the output or on the stack, once;
* `DepthInv`: the parentheses that are open at a position are the ones on the
  stack, so that no `)` comes without its `(`;
* `PartInv`: what is read behind an entry of the stack lies no less deep than the entry,
  which puts the two operators of a `KeyError` into one part of the formula; and a
  `(` that nothing has closed (`Unclosed`) is on the stack, or at the end in the
  output;
* `StackInv`: an operator on the stack keeps everything read behind it (`Stays`):
  no operator as weak as it has come at its own depth since;
* `ClosedInv`: an operator in the output keeps nothing that is still to be read, so
  it was not popped too early;
* `OrderInv`: the output is in order so far.

`Stays` uses the converter's precedences, `InRightOperand` Python's; `RankAgrees`
shows that on formulas without the mixtures of `RankedOtherwise` the two tables
compare every pair of operators alike.

`Meaning` needs more than the invariant, since `Postfix` is recursive.
`PostfixSplits` shows that `Postfix` exists and satisfies its equation: a function
that computes it for the parts below a size is extended by one, and two such
functions agree. `PostfixInOrder` shows that for a part that is a phrase of the
formula (`Phrase`: it starts and ends like a formula and closes its own
parentheses) `Postfix` gives all of its operands and operators in the order
`ComesBefore`; the two sides of the operator applied last are phrases (`Sides`),
and so is what is inside outer parentheses (`Inside`). `SameOrder` shows that this
order leaves one sequence only, and the output is in this order by `Order`.
These are inductions over lengths and sizes, done as arguments about a least
counterexample (`LeastExists`, from the well-foundedness of `<` on `Nat`), because the
library's induction rules take an operator as a parameter.

`PmtAgent_proofs` proves `TypeCorrect` and the four invariants of the run `agent` for
any folders, devices, metadata and allowlist. Together with `TypeOK` they are almost
inductive; what is missing is how the phases fit (`PhaseInv`), that `pmt_files` is a
dictionary whose keys are distinct (`KeysInv`), whose files were read of the folder that
discovery is at (`PartialInv`), that a file is under the UID of the device its folder
had when its guid was read unless the folder is `torn` (`FilesInv`), that discovery has listed
every stable folder it has passed (`FoundInv`), that a key is either loaded or
still to be loaded (`PmtInv`), and that the batch has every stable file that the
read has passed (`ReadInv`). The hard step is `LoadUnknown`, which takes a key out
of the middle of the dictionary (`SpliceFact`, `CutFact`, `DroppedFact`).

Of `SensorTypes`, `Converter_proofs` proves `RoundTrips` and `OneVersion` for any
metrics, types and sources. What is needed besides is that whatever can be read in an Avro file
passed the checks of the converter (`AvroInv`), whatever YAML file it came from.

`AgentDriver_proofs` proves `HandlesClosed` (`NoHandleLeft`) and `OwnGuidDecoded`
(`DecodesOwnGuid`) for any instances, lists of regions and changes of them, from
the named assumption `RegionsAssumption` (every list has regions that exist).
What `DecodesOwnGuid` needs besides is `CallInv`: of a list that did not change,
every region read so far is kept under its own GUID (`ReadInv`), which on Windows
depends on the GUIDs of the discovery for those still to be read; and a region that
is still to be read has one (`LabelInv`), also when the list has grown since.

Of `SampleDecode`, `Decoding_proofs` proves `DecodesWhatFits` (`GoDecodesWhatFits`),
`PublishesDecoded` (`MetricsFromDecodedInputs`), `Agreement` (`CollectorsAgree`) and
`OnlyFilters` (`AllowlistOnlyFilters`), for bytes and containers of any width and
any regions, definitions and allowlists, from `WidthAssumption` and
`InputAssumption`, which say only what kind of thing the inputs are. There are two
parts:

* A field. `MaskBits` says which bits each mask has; `ContainerBits` that a bit of the
  container is the bit of the region that `FieldRef` looks at, for which the quotient
  and the remainder by `ByteBits` must be related across the bytes (`DivMod`);
  `FieldFact` that the receiver's field is `FieldRef`, and `SameField` that the agent
  has the same, also where a container is cut.
* The inductive invariant `DecodeIInv`. The properties speak of the end; the invariant
  says them of what was passed so far: the raw values are those of the last fitting
  definitions in the groups read (`RawInv`), the published values those of the last
  publishable metrics (`ValuesInv`), the dictionary that of the last allowed
  definitions (`DictInv`), and what is reported that of the names that came up
  (`RetInv`). The hard step is what "last" means when a group replaces some of what
  was there and keeps the rest (`LastStep`).

Of `SafeExpression` it proves `BoundedWork` (`WorkBounded`), `ExactIntegers`
(`IntegersExact`) and `EvaluableAccepted` (`AcceptedIsEvaluable`) for any limits,
formulas, parameters and inputs. `ExpressionsAssumption` says that operands come
before their operator, which is the order of evaluation; `LimitsAssumption` that
the limits are natural numbers and `MaxBits` is not 0. The inductive invariant
`FormulaIInv` is that every result so far is within the limit and is the value of its
node without limits (`ValueIn`), and that only a parameter without a value makes a
node invalid. With it, `ExactIntegers` needs that `Ideal`, which is defined by
recursion over the nodes, is the results: they satisfy its equation, and by the
least node where they differ there is no other solution (`IdealResults`).
`BoundedWork` is arithmetic: `ApplyBounded` bounds what every operator makes of
operands that have been checked, from what powers, shifts, products, quotients and
digitwise operators do to magnitudes (`AbsPower`, `TwoSum`, `AbsProduct`,
`AbsQuotient`, `DigitwiseFact`). Powers and digits are recursive functions, whose
existence is proved once (`Recursion`).

The values of nodes are compared by `ValueInCases`, one kind of node at a time, and
never as two CASE expressions: tlapm 1.4.5 hands such an equality to SMT as true
when the guards are the same, whatever the arms are. The other CASE expressions that
proofs expand (`LoopPhase`, `Precedence`, `Rank`, `Extract`) have constants, or exits
with a constant status, for arms.

Only model-checked: the liveness properties `GoroutineStops`,
`HealthyAlwaysReportedAgain`, `RecoversFromFailedReads`, `StableReportedAgain` and
`CallReturns`. Fairness and ENABLED are beyond TLAPS. Every invariant, action
property and refinement of the passing runs is a theorem.

The violations are counterexamples, with nothing to prove.

## 6. Not modelled

* Formula evaluation by gval in the receiver (another library, floats above
  2^53 included), base64, timestamps, the conversion to pdata: arithmetic and
  formats without state. So the component of decoding is modelled in part.
* The mix of versions in the caches after an update of the XML tree: the model
  allows it, as the code does, and no property forbids it.
* Name collisions in what the agent prints; the endpoint of an entry is kept
  apart by its UID.
* Python's parser, and the values of floats in `SafeExpression`.
* The drivers of Windows and VMkernel, but for what `get_telemetry` can see.
* Contents of XML, YAML and Avro files beyond what the checks tell apart; the
  comments and the header of a YAML file made from an Avro file.
* The XML data, schemas, Docker image, collector configurations, docs and CI, which
  are not programs.

## 7. What could follow

1. An abstract specification of a collector ("publish, for every known endpoint
   that can be read, its own data") that `PmtAgent` and `LocalDiscovery` both
   implement. They differ in what they remember between two reads, which is why
   `MisreadOnlyIfRenumbered` and `MixedOnlyIfChanged` are two properties.
2. The values of floats in `SafeExpression`, and with them the agreement of the two
   collectors on what a formula computes.
