------------------------------ MODULE Executor ------------------------------
(***************************************************************************)
(* run and execute (run.py), with the reader, writer and registration of   *)
(* backends/local.py and the events of emit.py: what one process does with *)
(* one descriptor, one action per access to what other processes can see.  *)
(*                                                                         *)
(* A run ends in one of three ways:                                        *)
(*   "returned"  execute came back, after a write;                         *)
(*   "raised"    a PipelineError was caught at run's boundary, reported    *)
(*               and raised again;                                         *)
(*   "escaped"   anything else: an exception that is no PipelineError, an  *)
(*               invalid descriptor, or the death of the process.          *)
(***************************************************************************)
EXTENDS Catalog, Expectations, Sequences

CONSTANTS
  DescriptorOf,       \* the descriptor each run executes
  Domains,
  Locations,
  Under,              \* the locations a prefix contains, itself included
  QuarantineTable,    \* descriptor.quarantined, on the table
  QuarantineLocation, \* descriptor.quarantined, on the location
  Ontology,           \* the lf_tags the governance plane knows
  Mortal,             \* the runs that may die, or meet an unforeseen exception
  Earlier,            \* the runs before these, whose files are in the warehouse
  Edited,             \* the runs whose descriptor may be rewritten meanwhile
  MaxActive,          \* bound: the runs in progress at once
  MaxStarts,          \* bound: the runs that are started in all
  MaxEdits            \* bound: how often a descriptor file is rewritten

Descriptor ==
  [valid          : BOOLEAN,
   domain         : Domains,
   source         : Tables,
   reader         : {"glue_table", "dms_landing", "unknown"},
   schema_version : Versions,
   steps          : SUBSET {"sql", "python", "unknown"},
   output         : SUBSET Column,  \* what the declared steps make of the frame
   suite          : SUBSET Rules,
   on_failure     : {"block_publish", "quarantine", "warn"},
   target         : Tables,
   location       : Locations,
   partition_by   : SUBSET Names,
   writer         : {"registered", "unknown"},
   lf_tags        : SUBSET Tag]

Writers == Runs \cup Earlier

Errors == {"SchemaDrift", "UnknownKind", "PipelineError", "UnknownTag", "PublishBlocked"}

Revisions == 0 .. MaxEdits

Job ==
  [revision    : Revisions,               \* of the descriptor file, as parsed
   schema      : SUBSET Column,
   publication : Releases \cup {None},
   frame       : SUBSET Column,
   rows        : Releases \cup Runs \cup {None},  \* who wrote the rows read
   result      : Verdict \cup {None},
   owner       : Domains \cup TagValues,
   source_tags : SUBSET Tag,
   side        : BOOLEAN,                 \* writes to quarantined(target)
   stale       : SUBSET (Locations \X Writers),  \* the files found there
   error       : Errors \cup {None}]

Dataset == [namespace : Domains \cup TagValues, name : Tables, tags : SUBSET Tag]

Event ==
  [type    : {"COMPLETE", "FAIL", "OTHER"},
   inputs  : SUBSET Dataset,
   outputs : SUBSET Dataset,
   release : Releases \cup {None},        \* source_published_release
   sha     : Revisions \cup {None},       \* descriptor_sha256
   error   : Errors \cup {None},          \* errorMessage
   result  : Verdict \cup {None}]         \* dataQualityAssertions

Stages ==
  {"idle", "resolve", "read", "steps", "policy", "validate", "prepare",
   "clear", "unlink", "write", "create", "register", "registering", "emit", "fail",
   "assert", "returned", "raised", "escaped"}

Ended == {"returned", "raised", "escaped"}

ASSUME ExecutorAssumption ==
  /\ DescriptorOf \in [Runs -> Descriptor]
  /\ Under \in [Locations -> SUBSET Locations]
  /\ QuarantineTable \in [Tables -> Tables]
  /\ QuarantineLocation \in [Locations -> Locations]
  /\ \A l \in Locations : l \in Under[l]
  /\ MaxActive \in Nat \ {0}
  /\ MaxStarts \in Nat \ {0}
  /\ MaxEdits \in Nat
  /\ Mortal \subseteq Runs
  /\ Earlier \cap Runs = {}
  /\ Edited \subseteq Runs
  /\ None \notin Releases \cup Runs \cup Verdict \cup Errors
  /\ None \notin Revisions

VARIABLES
  pc,        \* where each run is
  job,       \* what each run has worked out so far
  files,     \* whose parquet files are under each location
  events,    \* what each run has emitted, in order
  revision   \* the bytes of each run's descriptor file

runVars == <<pc, job, files, events, revision>>
vars == <<catalogVars, runVars>>

NoJob(r) ==
  [revision |-> 0, schema |-> {}, publication |-> None, frame |-> {},
   rows |-> None, result |-> None, owner |-> DescriptorOf[r].domain,
   source_tags |-> {}, side |-> FALSE, stale |-> {}, error |-> None]

ExecutorTypeOK ==
  /\ pc \in [Runs -> Stages]
  /\ job \in [Runs -> Job]
  /\ files \in [Locations -> SUBSET Writers]
  /\ events \in [Runs -> Seq(Event)]
  /\ revision \in [Runs -> Revisions]

ExecutorInit ==
  /\ pc = [r \in Runs |-> "idle"]
  /\ job = [r \in Runs |-> NoJob(r)]
  /\ files = [l \in Locations |-> Earlier]
  /\ events = [r \in Runs |-> <<>>]
  /\ revision = [r \in Runs |-> 0]

-----------------------------------------------------------------------------
Active == {r \in Runs : pc[r] \notin Ended \cup {"idle"}}

Goto(r, stage) == pc' = [pc EXCEPT ![r] = stage]

\* A PipelineError: run's boundary catches it and emits.
Raise(r, error) ==
  /\ Goto(r, "fail")
  /\ job' = [job EXCEPT ![r].error = error]
  /\ UNCHANGED <<catalogVars, files, events, revision>>

\* Mutant: `except Exception' at the boundary.
EscapeCaught(r) ==
  /\ Goto(r, "fail")
  /\ session' = IF session # None /\ session.holder = r THEN None ELSE session
  /\ UNCHANGED <<tables, versions, lf_tags, data, job, files, events, revision>>

\* Any other exception: nothing catches it, and the process lets go of
\* whatever connection it holds.
Escape(r) ==
  /\ Goto(r, "escaped")
  /\ session' = IF session # None /\ session.holder = r THEN None ELSE session
  /\ UNCHANGED <<tables, versions, lf_tags, data, job, files, events, revision>>

\* A step that only the run itself can see.
Advance(r, stage) ==
  /\ Goto(r, stage)
  /\ UNCHANGED <<catalogVars, files, events, revision>>

\* Where the run writes: the declared target, or quarantined(target).
Table(r) ==
  IF job[r].side THEN QuarantineTable[DescriptorOf[r].target]
                 ELSE DescriptorOf[r].target
\* Mutant: quarantined() renames the table and keeps the prefix.
LocationDeclared(r) == DescriptorOf[r].location

Location(r) ==
  IF job[r].side THEN QuarantineLocation[DescriptorOf[r].location]
                 ELSE DescriptorOf[r].location

-----------------------------------------------------------------------------
(* Reading *)

\* parse and as_v1.  An UnknownApiVersion or ValidationError is raised
\* outside run's try.
Parse(r) ==
  /\ pc[r] = "idle"
  /\ Cardinality(Active) < MaxActive
  /\ Cardinality({q \in Runs : pc[q] # "idle"}) < MaxStarts
  /\ Goto(r, IF DescriptorOf[r].valid THEN "resolve" ELSE "escaped")
  /\ job' = [job EXCEPT ![r].revision = revision[r]]
  /\ UNCHANGED <<catalogVars, files, events, revision>>

\* Mutant: the newest shape, whatever the descriptor pinned.
ResolveNewest(r) ==
  LET source == DescriptorOf[r].source IN
  /\ pc[r] = "resolve"
  /\ session = None
  /\ \E v \in Versions :
        /\ AtPin(source, v)
        /\ job' = [job EXCEPT ![r].schema = tables[source][v],
                              ![r].publication = versions[source][v]]
  /\ Advance(r, "read")

\* Mutant: the publication is noted before the pin is checked.
ResolveClaiming(r) ==
  LET source == DescriptorOf[r].source
      pin    == DescriptorOf[r].schema_version
      claim  == versions[source][pin] IN
  /\ pc[r] = "resolve"
  /\ session = None
  /\ \/ /\ AtPin(source, pin)
        /\ job' = [job EXCEPT ![r].schema = tables[source][pin],
                              ![r].publication = claim]
        /\ Advance(r, "read")
     \/ /\ ~AtPin(source, pin)
        /\ job' = [job EXCEPT ![r].error = "SchemaDrift", ![r].publication = claim]
        /\ Advance(r, "fail")

\* The pin against the catalog, before a row is read.
Resolve(r) ==
  LET source == DescriptorOf[r].source
      pin    == DescriptorOf[r].schema_version IN
  /\ pc[r] = "resolve"
  /\ session = None
  /\ \/ /\ AtPin(source, pin)
        /\ job' = [job EXCEPT ![r].schema = tables[source][pin],
                              ![r].publication = versions[source][pin]]
        /\ Advance(r, "read")
     \/ /\ ~AtPin(source, pin)
        /\ Raise(r, "SchemaDrift")

\* The source's rows, through Schema.enforce.
ReadFrame(r) ==
  LET found == data[DescriptorOf[r].source] IN
  IF Satisfies(found.columns, job[r].schema)
  THEN /\ job' = [job EXCEPT ![r].frame = Enforced(found.columns, job[r].schema),
                             ![r].rows  = found.by]
       /\ Advance(r, "steps")
  ELSE Raise(r, "SchemaDrift")

\* A table the catalog lists and the database lacks is a duckdb error.
ReadGlueTable(r) ==
  LET source == DescriptorOf[r].source
      stored == source \notin Landed /\ data[source] # None IN
  /\ DescriptorOf[r].reader = "glue_table"
  /\ session = None
  /\ \/ stored /\ ReadFrame(r)
     \/ ~stored /\ Escape(r)

\* A landing prefix with no batch, and a schema with no key to collapse by,
\* are PipelineErrors; no connection is opened.  Batches without a key's column,
\* and such as have no Op or no _dms_seq, are pandas's KeyError.
ReadDmsLanding(r) ==
  LET source      == DescriptorOf[r].source
      keys        == PrimaryKeys(job[r].schema)
      collapsible == source \in Landed /\ data[source] # None /\ keys # {} IN
  /\ DescriptorOf[r].reader = "dms_landing"
  /\ \/ /\ collapsible
        /\ keys \subseteq NamesOf(data[source].columns)
        /\ ReadFrame(r)
     \/ collapsible /\ Escape(r)
     \/ ~collapsible /\ Raise(r, "PipelineError")

Read(r) ==
  /\ pc[r] = "read"
  /\ \/ ReadGlueTable(r)
     \/ ReadDmsLanding(r)
     \/ DescriptorOf[r].reader = "unknown" /\ Raise(r, "UnknownKind")

-----------------------------------------------------------------------------
(* Transforming and validating *)

\* The domain's SQL or Python, over the frame alone.  Each step may fail, and
\* what a module raises, or its import, is no PipelineError.
RunSteps(r) ==
  LET steps == DescriptorOf[r].steps IN
  /\ pc[r] = "steps"
  /\ \/ /\ "unknown" \notin steps
        /\ job' = [job EXCEPT ![r].frame = DescriptorOf[r].output]
        /\ Advance(r, "policy")
     \/ steps \ {"unknown"} # {} /\ Raise(r, "PipelineError")
     \/ "unknown" \in steps /\ Raise(r, "UnknownKind")
     \/ "python" \in steps /\ Escape(r)

\* An ontology that is missing, or is not JSON, is not a PipelineError either.
ResolvePolicy(r) ==
  /\ pc[r] = "policy"
  /\ \/ /\ DescriptorOf[r].lf_tags \subseteq Ontology
        /\ Advance(r, "validate")
        /\ UNCHANGED job
     \/ /\ ~(DescriptorOf[r].lf_tags \subseteq Ontology)
        /\ Raise(r, "UnknownTag")
     \/ Escape(r)

ValidateFrame(r) ==
  /\ pc[r] = "validate"
  /\ \/ /\ Builds(DescriptorOf[r].suite)
        /\ \E verdict \in Verdicts(DescriptorOf[r].suite) :
              job' = [job EXCEPT ![r].result = verdict]
        /\ Advance(r, "prepare")
     \/ /\ ~Builds(DescriptorOf[r].suite)
        /\ Escape(r)

\* The writer is looked up, the source's tags are read, and a failed suite
\* is dealt with as the descriptor says.
Prepare(r) ==
  LET blocked == job[r].result = "failed"
                 /\ DescriptorOf[r].on_failure = "block_publish"
      aside   == job[r].result = "failed"
                 /\ DescriptorOf[r].on_failure = "quarantine"
      source  == DescriptorOf[r].source IN
  /\ pc[r] = "prepare"
  /\ \/ /\ DescriptorOf[r].writer = "unknown"
        /\ Raise(r, "UnknownKind")
     \/ /\ DescriptorOf[r].writer = "registered"
        /\ session = None
        /\ \/ blocked /\ Raise(r, "PublishBlocked")
           \/ /\ ~blocked
              /\ job' = [job EXCEPT ![r].owner = Owner(source, DescriptorOf[r].domain),
                                    ![r].source_tags = lf_tags[source],
                                    ![r].side = aside]
              /\ Advance(r, "clear")

-----------------------------------------------------------------------------
(* Writing *)

\* Whether two runs' files under one location have one name: a partitioned
\* write makes names of its own, the other kind part-0.parquet.
SameName(q, r) ==
  q = r \/ {q, r} \subseteq {p \in Runs : DescriptorOf[p].partition_by = {}}

\* Mutant: the parent of the target is searched.
ListWarehouse(r) ==
  /\ pc[r] = "clear"
  /\ job' = [job EXCEPT ![r].stale = {f \in Locations \X Writers : f[2] \in files[f[1]]}]
  /\ Advance(r, "unlink")

\* out.rglob("*.parquet") reaches every location under the prefix.
ListStale(r) ==
  LET found == {f \in Under[Location(r)] \X Writers : f[2] \in files[f[1]]} IN
  /\ pc[r] = "clear"
  /\ job' = [job EXCEPT ![r].stale = found]
  /\ Advance(r, "unlink")

\* The files listed are deleted one by one, whoever's has the name by now.  One
\* that another run has deleted meanwhile is a FileNotFoundError.
UnlinkStale(r) ==
  /\ pc[r] = "unlink"
  /\ \/ /\ job[r].stale = {}
        /\ Advance(r, "write")
        /\ UNCHANGED job
     \/ \E f \in job[r].stale :
          LET there == {q \in files[f[1]] : SameName(q, f[2])} IN
          \/ /\ there # {}
             /\ files' = [files EXCEPT ![f[1]] = @ \ there]
             /\ job' = [job EXCEPT ![r].stale = @ \ {f}]
             /\ UNCHANGED <<catalogVars, pc, events, revision>>
          \/ there = {} /\ Escape(r)

\* Mutant: the partition keys are checked after the files are written.
WriteUnchecked(r) ==
  /\ pc[r] = "write"
  /\ files' = [files EXCEPT ![Location(r)] = @ \cup {r}]
  /\ \/ /\ DescriptorOf[r].partition_by \subseteq NamesOf(job[r].frame)
        /\ Goto(r, "create")
        /\ UNCHANGED job
     \/ /\ ~(DescriptorOf[r].partition_by \subseteq NamesOf(job[r].frame))
        /\ Goto(r, "fail")
        /\ job' = [job EXCEPT ![r].error = "PipelineError"]
  /\ UNCHANGED <<catalogVars, events, revision>>

\* A file of the same name is replaced, the others stay.
WriteFiles(r) ==
  LET keys == DescriptorOf[r].partition_by
      kept == {q \in files[Location(r)] : ~SameName(q, r)} IN
  /\ pc[r] = "write"
  /\ \/ /\ keys \subseteq NamesOf(job[r].frame)
        /\ files' = [files EXCEPT ![Location(r)] = kept \cup {r}]
        /\ Goto(r, "create")
        /\ UNCHANGED <<catalogVars, job, events, revision>>
     \/ /\ ~(keys \subseteq NamesOf(job[r].frame))
        /\ Raise(r, "PipelineError")

\* Mutant: the old table is dropped before the new one is created.
PublishTableDropping(r) ==
  /\ pc[r] = "create"
  /\ \/ /\ data[Table(r)] = None
        /\ CreateTable(Table(r), [columns |-> job[r].frame, by |-> r])
        /\ Goto(r, "register")
     \/ /\ data[Table(r)] # None
        /\ session = None
        /\ data' = [data EXCEPT ![Table(r)] = None]
        /\ UNCHANGED <<tables, versions, lf_tags, session, pc>>
  /\ UNCHANGED <<job, files, events, revision>>

PublishTable(r) ==
  /\ pc[r] = "create"
  /\ CreateTable(Table(r), [columns |-> job[r].frame, by |-> r])
  /\ Goto(r, "register")
  /\ UNCHANGED <<job, files, events, revision>>

Register(r) ==
  /\ pc[r] = "register"
  /\ BeginRegister(r, Table(r), AsRegistered(job[r].frame), DescriptorOf[r].lf_tags)
  /\ Goto(r, "registering")
  /\ UNCHANGED <<job, files, events, revision>>

\* executemany refuses an empty list, so a contract with no tags dies here.
Registering(r) ==
  /\ pc[r] = "registering"
  /\ \/ /\ InsertColumn(r) \/ DeleteTags(r) \/ InsertTag(r)
        /\ UNCHANGED runVars
     \/ /\ DescriptorOf[r].lf_tags # {}
        /\ EndRegister(r)
        /\ Goto(r, "emit")
        /\ UNCHANGED <<job, files, events, revision>>
     \/ /\ DescriptorOf[r].lf_tags = {}
        /\ Holds(r, "tags")
        /\ Escape(r)

-----------------------------------------------------------------------------
(* Emitting *)

Emit(r, event) == events' = [events EXCEPT ![r] = Append(@, event)]

Output(r) ==
  [namespace |-> DescriptorOf[r].domain, name |-> Table(r),
   tags |-> DescriptorOf[r].lf_tags]

\* The event of a run that wrote: emit with every argument it takes.
Reported(r, type) ==
  [type    |-> type,
   inputs  |-> {[namespace |-> job[r].owner, name |-> DescriptorOf[r].source,
                 tags |-> job[r].source_tags]},
   outputs |-> {Output(r)},
   release |-> job[r].publication,
   sha     |-> revision[r],
   error   |-> None,
   result  |-> None]

\* Mutant: the status goes on the wire as it is, STATE forgotten.
TerminalUnmapped(r) ==
  Reported(r, IF job[r].side THEN "QUARANTINED" ELSE "COMPLETE")

\* Mutant: a quarantined run is a completed one.
TerminalComplete(r) == Reported(r, "COMPLETE")

\* COMPLETE or QUARANTINED; STATE maps the second onto the FAIL of the wire.
TerminalEvent(r) == Reported(r, IF job[r].side THEN "FAIL" ELSE "COMPLETE")

FailureEvent(r) ==
  [type |-> "FAIL", inputs |-> {}, outputs |-> {}, release |-> job[r].publication,
   sha |-> revision[r], error |-> job[r].error, result |-> None]

Blocked(r) == job[r].error = "PublishBlocked"

\* Against the table that was tested.  A blocked run passes emit no tags.
AssertionEvent(r) ==
  [type |-> "OTHER",
   inputs |-> {[Output(r) EXCEPT !.tags = IF Blocked(r) THEN {} ELSE @]},
   outputs |-> {}, release |-> None, sha |-> None, error |-> None,
   result |-> job[r].result]

EmitTerminal(r) ==
  /\ pc[r] = "emit"
  /\ Emit(r, TerminalEvent(r))
  /\ Goto(r, "assert")
  /\ UNCHANGED <<catalogVars, job, files, revision>>

\* run's except clause.  PublishBlocked is the one error with a result.
EmitFailure(r) ==
  /\ pc[r] = "fail"
  /\ Emit(r, FailureEvent(r))
  /\ Goto(r, IF Blocked(r) THEN "assert" ELSE "raised")
  /\ UNCHANGED <<catalogVars, job, files, revision>>

EmitAssertions(r) ==
  /\ pc[r] = "assert"
  /\ Emit(r, AssertionEvent(r))
  /\ Goto(r, IF Blocked(r) THEN "raised" ELSE "returned")
  /\ UNCHANGED <<catalogVars, job, files, revision>>

-----------------------------------------------------------------------------
(* Not going as planned *)

\* The stages whose next step opens a connection, by what they open it for.
Querying(r) ==
  \/ pc[r] = "resolve"
  \/ pc[r] = "read" /\ DescriptorOf[r].reader = "glue_table"
  \/ pc[r] = "prepare" /\ DescriptorOf[r].writer = "registered"
Publishing(r) == pc[r] \in {"create", "register"}

\* Mutant: connect waits for the file instead of raising.
RefusedWaits(r) ==
  /\ Querying(r) \/ Publishing(r)
  /\ session # None
  /\ UNCHANGED vars

\* duckdb.connect raises while another process has the file open: for as long
\* as a session lasts, or for the moment another run's own step takes.
Refused(r) ==
  /\ Querying(r) \/ Publishing(r)
  /\ \/ session # None
     \/ \E q \in Runs \ {r} : Publishing(q) \/ (Publishing(r) /\ Querying(q))
  /\ Escape(r)

\* A kill, or an exception no handler names: a bad transport, a full disk.
Dies(r) ==
  /\ r \in Mortal
  /\ r \in Active
  /\ Escape(r)

\* Somebody rewrites the descriptor while the run has it parsed.
Edit(r) ==
  /\ r \in Edited
  /\ r \in Active
  /\ revision[r] < MaxEdits
  /\ revision' = [revision EXCEPT ![r] = @ + 1]
  /\ UNCHANGED <<catalogVars, pc, job, files, events>>

Step(r) ==
  \/ Resolve(r) \/ Read(r) \/ RunSteps(r) \/ ResolvePolicy(r)
  \/ ValidateFrame(r) \/ Prepare(r) \/ ListStale(r) \/ UnlinkStale(r)
  \/ WriteFiles(r) \/ PublishTable(r) \/ Register(r) \/ Registering(r)
  \/ EmitTerminal(r) \/ EmitFailure(r) \/ EmitAssertions(r) \/ Refused(r)
=============================================================================
