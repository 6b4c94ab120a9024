--------------------------- MODULE RuntimeProofs ----------------------------
(***************************************************************************)
(* Theorems about the deployment, for every set of runs, descriptors,      *)
(* applications, tables and releases.                                      *)
(***************************************************************************)
EXTENDS Runtime, TLAPS

-----------------------------------------------------------------------------
(* Type correctness: what the operations of the catalog preserve *)

\* What a producer ships, a pipeline stores and a registration holds are the
\* things the type invariant says they are.
LEMMA ShipType ==
  ASSUME CatalogTypeOK, NEW a \in Apps, NEW t \in Tables, NEW shape \in Shapes,
         NEW release \in Releases, Ship(a, t, shape, release)
  PROVE  CatalogTypeOK'
<1>1. shape \in SUBSET Column
  BY CatalogAssumption
<1>2. data' \in [Tables -> Content \cup {None}]
  BY <1>1 DEF CatalogTypeOK, Ship, Content
<1>3. session' \in Session \cup {None}
  BY <1>1 DEF Ship, Session
<1> QED
  BY <1>2, <1>3 DEF CatalogTypeOK, Ship

LEMMA PublishType ==
  ASSUME CatalogTypeOK, NEW a \in Apps, NEW v \in Versions, Publish(a, v)
  PROVE  CatalogTypeOK'
<1>1. session \in Session
  BY DEF CatalogTypeOK, Publish
<1>2. /\ session.table \in Tables
      /\ session.columns \in SUBSET Column
      /\ session.release \in Releases \cup {None}
  BY <1>1 DEF Session
<1>3. tables' \in [Tables -> [Versions -> SUBSET Column]]
  BY <1>2 DEF CatalogTypeOK, Publish
<1>4. versions' \in [Tables -> [Versions -> Releases \cup {None}]]
  BY <1>2 DEF CatalogTypeOK, Publish
<1> QED
  BY <1>3, <1>4 DEF CatalogTypeOK, Publish

LEMMA DisconnectType ==
  ASSUME CatalogTypeOK, NEW c, Disconnect(c)
  PROVE  CatalogTypeOK'
BY DEF CatalogTypeOK, Disconnect

LEMMA CreateTableType ==
  ASSUME CatalogTypeOK, NEW t \in Tables, NEW content \in Content,
         CreateTable(t, content)
  PROVE  CatalogTypeOK'
BY DEF CatalogTypeOK, CreateTable

LEMMA OneIsAVersion == 1 \in Versions
BY CatalogAssumption DEF Versions

LEMMA BeginRegisterType ==
  ASSUME CatalogTypeOK, NEW r \in Runs, NEW t \in Tables,
         NEW columns \in SUBSET Column, NEW tags \in SUBSET Tag,
         BeginRegister(r, t, columns, tags)
  PROVE  CatalogTypeOK'
<1>1. tables' \in [Tables -> [Versions -> SUBSET Column]]
  BY OneIsAVersion DEF CatalogTypeOK, BeginRegister
<1>2. session' \in Session \cup {None}
  BY DEF BeginRegister, Session
<1> QED
  BY <1>1, <1>2 DEF CatalogTypeOK, BeginRegister

LEMMA InsertColumnType ==
  ASSUME CatalogTypeOK, NEW r \in Runs, InsertColumn(r)
  PROVE  CatalogTypeOK'
<1>1. session \in Session
  BY DEF CatalogTypeOK, InsertColumn, Holds
<1>2. PICK c \in session.columns :
        /\ tables'  = [tables EXCEPT ![session.table][1] = @ \cup {c}]
        /\ session' = [session EXCEPT !.columns = @ \ {c}]
  BY DEF InsertColumn
<1>3. session.table \in Tables /\ c \in Column
  BY <1>1 DEF Session
<1>4. tables' \in [Tables -> [Versions -> SUBSET Column]]
  BY <1>2, <1>3, OneIsAVersion DEF CatalogTypeOK
<1>5. session' \in Session
  BY <1>1, <1>2 DEF Session
<1> QED
  BY <1>4, <1>5 DEF CatalogTypeOK, InsertColumn

LEMMA DeleteTagsType ==
  ASSUME CatalogTypeOK, NEW r \in Runs, DeleteTags(r)
  PROVE  CatalogTypeOK'
<1>1. session \in Session
  BY DEF CatalogTypeOK, DeleteTags, Holds
<1>2. session' \in Session
  BY <1>1 DEF DeleteTags, Session
<1> QED
  BY <1>2 DEF CatalogTypeOK, DeleteTags

LEMMA InsertTagType ==
  ASSUME CatalogTypeOK, NEW r \in Runs, InsertTag(r)
  PROVE  CatalogTypeOK'
<1>1. session \in Session
  BY DEF CatalogTypeOK, InsertTag, Holds
<1>2. PICK g \in session.tags :
        /\ lf_tags' = [lf_tags EXCEPT ![session.table] = @ \cup {g}]
        /\ session' = [session EXCEPT !.tags = @ \ {g}]
  BY DEF InsertTag
<1>3. session.table \in Tables /\ g \in Tag
  BY <1>1 DEF Session
<1>4. lf_tags' \in [Tables -> SUBSET Tag]
  BY <1>2, <1>3 DEF CatalogTypeOK
<1>5. session' \in Session
  BY <1>1, <1>2 DEF Session
<1> QED
  BY <1>4, <1>5 DEF CatalogTypeOK, InsertTag

LEMMA EndRegisterType ==
  ASSUME CatalogTypeOK, NEW r \in Runs, EndRegister(r)
  PROVE  CatalogTypeOK'
BY DEF CatalogTypeOK, EndRegister

LEMMA CatalogInitType == CatalogInit => CatalogTypeOK
<1> SUFFICES ASSUME CatalogInit PROVE CatalogTypeOK
  OBVIOUS
<1>1. InitialShape \in SUBSET Column
  BY CatalogAssumption
<1>2. tables \in [Tables -> [Versions -> SUBSET Column]]
  BY <1>1 DEF CatalogInit
<1>3. versions \in [Tables -> [Versions -> Releases \cup {None}]]
  BY CatalogAssumption DEF CatalogInit
<1>4. \A t \in AppTables : [key |-> "domain", value |-> OwnerOf[t]] \in Tag
  BY CatalogAssumption DEF Tag
<1>5. lf_tags \in [Tables -> SUBSET Tag]
  BY <1>4 DEF CatalogInit
<1>6. [columns |-> InitialShape, by |-> InitialRelease] \in Content
  BY <1>1, CatalogAssumption DEF Content
<1>7. data \in [Tables -> Content \cup {None}]
  BY <1>6 DEF CatalogInit
<1> QED
  BY <1>2, <1>3, <1>5, <1>7 DEF CatalogInit, CatalogTypeOK

-----------------------------------------------------------------------------
(* Type correctness: what the executor adds *)

LEMMA DescriptorFields ==
  ASSUME NEW r \in Runs
  PROVE  /\ DescriptorOf[r] \in Descriptor
         /\ DescriptorOf[r].domain \in Domains
         /\ DescriptorOf[r].source \in Tables
         /\ DescriptorOf[r].schema_version \in Versions
         /\ DescriptorOf[r].output \in SUBSET Column
         /\ DescriptorOf[r].target \in Tables
         /\ DescriptorOf[r].location \in Locations
         /\ DescriptorOf[r].lf_tags \in SUBSET Tag
         /\ DescriptorOf[r].reader \in {"glue_table", "dms_landing", "unknown"}
BY ExecutorAssumption DEF Descriptor

LEMMA TargetType ==
  ASSUME NEW r \in Runs
  PROVE  Table(r) \in Tables /\ Location(r) \in Locations
BY DescriptorFields, ExecutorAssumption DEF Table, Location

LEMMA JobFields ==
  ASSUME NEW j \in Job
  PROVE  /\ \A c \in SUBSET Column : [j EXCEPT !.schema = c] \in Job
         /\ \A p \in Releases \cup {None} : [j EXCEPT !.publication = p] \in Job
         /\ \A c \in SUBSET Column : [j EXCEPT !.frame = c] \in Job
         /\ \A o \in Domains \cup TagValues : [j EXCEPT !.owner = o] \in Job
         /\ \A g \in SUBSET Tag : [j EXCEPT !.source_tags = g] \in Job
         /\ \A b \in BOOLEAN : [j EXCEPT !.side = b] \in Job
         /\ \A f \in SUBSET (Locations \X Writers) : [j EXCEPT !.stale = f] \in Job
<1>1. \A c \in SUBSET Column : [j EXCEPT !.schema = c] \in Job
  BY DEF Job
<1>2. \A p \in Releases \cup {None} : [j EXCEPT !.publication = p] \in Job
  BY DEF Job
<1>3. \A c \in SUBSET Column : [j EXCEPT !.frame = c] \in Job
  BY DEF Job
<1>4. \A o \in Domains \cup TagValues : [j EXCEPT !.owner = o] \in Job
  BY DEF Job
<1>5. \A g \in SUBSET Tag : [j EXCEPT !.source_tags = g] \in Job
  BY DEF Job
<1>6. \A b \in BOOLEAN : [j EXCEPT !.side = b] \in Job
  BY DEF Job
<1>7. \A f \in SUBSET (Locations \X Writers) : [j EXCEPT !.stale = f] \in Job
  BY DEF Job
<1> QED
  BY <1>1, <1>2, <1>3, <1>4, <1>5, <1>6, <1>7

LEMMA RaiseType ==
  ASSUME TypeOK, NEW r \in Runs, NEW e \in Errors, Raise(r, e)
  PROVE  TypeOK'
<1>1. job' \in [Runs -> Job]
  <2> DEFINE failed == [job[r] EXCEPT !.error = e]
  <2>1. job[r] \in Job
    BY DEF TypeOK, ExecutorTypeOK
  <2>2. failed \in Job
    BY <2>1 DEF Job
  <2>3. job' = [job EXCEPT ![r] = failed]
    BY DEF Raise
  <2> HIDE DEF failed
  <2> QED BY <2>2, <2>3 DEF TypeOK, ExecutorTypeOK
<1>2. pc' \in [Runs -> Stages]
  BY DEF TypeOK, ExecutorTypeOK, Raise, Goto, Stages
<1>3. CatalogTypeOK'
  BY DEF TypeOK, CatalogTypeOK, Raise, catalogVars
<1> QED
  BY <1>1, <1>2, <1>3 DEF TypeOK, ExecutorTypeOK, Raise

LEMMA EscapeType ==
  ASSUME TypeOK, NEW r \in Runs, Escape(r)
  PROVE  TypeOK'
<1>1. pc' \in [Runs -> Stages]
  BY DEF TypeOK, ExecutorTypeOK, Escape, Goto, Stages
<1>2. CatalogTypeOK'
  BY DEF TypeOK, CatalogTypeOK, Escape
<1> QED
  BY <1>1, <1>2 DEF TypeOK, ExecutorTypeOK, Escape

LEMMA AdvanceType ==
  ASSUME TypeOK, NEW r \in Runs, NEW stage \in Stages,
         job' \in [Runs -> Job], Advance(r, stage)
  PROVE  TypeOK'
<1>1. pc' \in [Runs -> Stages]
  BY DEF TypeOK, ExecutorTypeOK, Advance, Goto
<1>2. CatalogTypeOK'
  BY DEF TypeOK, CatalogTypeOK, Advance, catalogVars
<1> QED
  BY <1>1, <1>2 DEF TypeOK, ExecutorTypeOK, Advance

LEMMA EmitType ==
  ASSUME TypeOK, NEW r \in Runs, NEW event \in Event, NEW stage \in Stages,
         Emit(r, event), Goto(r, stage), UNCHANGED <<catalogVars, job, files, revision>>
  PROVE  TypeOK'
<1>1. events' \in [Runs -> Seq(Event)]
  BY DEF TypeOK, ExecutorTypeOK, Emit
<1>2. pc' \in [Runs -> Stages]
  BY DEF TypeOK, ExecutorTypeOK, Goto
<1>3. CatalogTypeOK'
  BY DEF TypeOK, CatalogTypeOK, catalogVars
<1> QED
  BY <1>1, <1>2, <1>3 DEF TypeOK, ExecutorTypeOK

LEMMA InitType == Init => TypeOK
<1> SUFFICES ASSUME Init PROVE TypeOK
  OBVIOUS
<1>1. CatalogTypeOK
  BY CatalogInitType DEF Init
<1>2. 0 \in Revisions
  BY ExecutorAssumption DEF Revisions
<1>3. \A r \in Runs : NoJob(r) \in Job
  BY <1>2, DescriptorFields DEF NoJob, Job
<1>4. job \in [Runs -> Job]
  BY <1>3 DEF Init, ExecutorInit
<1> QED
  BY <1>1, <1>2, <1>4 DEF Init, ExecutorInit, TypeOK, ExecutorTypeOK, Stages, Writers

LEMMA ParseType ==
  ASSUME TypeOK, NEW r \in Runs, Parse(r)
  PROVE  TypeOK'
<1>1. job' \in [Runs -> Job]
  <2>1. job \in [Runs -> Job] /\ revision[r] \in Revisions
    BY DEF TypeOK, ExecutorTypeOK
  <2>2. [job[r] EXCEPT !.revision = revision[r]] \in Job
    BY <2>1 DEF Job
  <2>3. job' = [job EXCEPT ![r] = [job[r] EXCEPT !.revision = revision[r]]]
    BY <2>1 DEF Parse
  <2> QED
    BY <2>1, <2>2, <2>3
<1>2. pc' \in [Runs -> Stages]
  BY DEF TypeOK, ExecutorTypeOK, Parse, Goto, Stages
<1>3. CatalogTypeOK'
  BY DEF TypeOK, CatalogTypeOK, Parse, catalogVars
<1> QED
  BY <1>1, <1>2, <1>3 DEF TypeOK, ExecutorTypeOK, Parse

LEMMA ResolveType ==
  ASSUME TypeOK, NEW r \in Runs, Resolve(r)
  PROVE  TypeOK'
<1> DEFINE source == DescriptorOf[r].source
           pin    == DescriptorOf[r].schema_version
<1>1. CASE AtPin(source, pin)
  <2>1. tables[source][pin] \in SUBSET Column /\ versions[source][pin] \in Releases \cup {None}
    BY DescriptorFields DEF TypeOK, CatalogTypeOK
  <2> DEFINE resolved == [job EXCEPT ![r].schema = tables[source][pin]]
  <2>2. resolved \in [Runs -> Job]
    BY <2>1, JobFields DEF TypeOK, ExecutorTypeOK
  <2>3. job' = [resolved EXCEPT ![r].publication = versions[source][pin]]
    BY <1>1 DEF Resolve, TypeOK, ExecutorTypeOK
  <2> HIDE DEF resolved
  <2>4. job' \in [Runs -> Job]
    BY <2>1, <2>2, <2>3 DEF Job
  <2> QED
    BY <1>1, <2>4, AdvanceType DEF Resolve, Stages
<1>2. CASE ~AtPin(source, pin)
  BY <1>2, RaiseType DEF Resolve, Errors
<1> QED
  BY <1>1, <1>2

LEMMA EnforcedType ==
  ASSUME NEW found, NEW promised \in SUBSET Column
  PROVE  Enforced(found, promised) \in SUBSET Column
BY DEF Enforced, Column

LEMMA ReadFrameType ==
  ASSUME TypeOK, NEW r \in Runs, data[DescriptorOf[r].source] # None, ReadFrame(r)
  PROVE  TypeOK'
<1> DEFINE found == data[DescriptorOf[r].source]
<1>1. found \in Content
  BY DescriptorFields DEF TypeOK, CatalogTypeOK
<1>2. CASE Satisfies(found.columns, job[r].schema)
  <2>1. job[r].schema \in SUBSET Column
    BY DEF TypeOK, ExecutorTypeOK, Job
  <2>2. Enforced(found.columns, job[r].schema) \in SUBSET Column
    BY <2>1, EnforcedType
  <2>3. found.by \in Releases \cup Runs
    BY <1>1 DEF Content
  <2> DEFINE columns == Enforced(found.columns, job[r].schema)
             framed  == [job EXCEPT ![r].frame = columns]
  <2>4. job' = [framed EXCEPT ![r].rows = found.by]
    BY <1>2 DEF ReadFrame, TypeOK, ExecutorTypeOK
  <2> HIDE DEF columns
  <2>5. framed \in [Runs -> Job]
    BY <2>2, JobFields DEF TypeOK, ExecutorTypeOK, columns
  <2> HIDE DEF found, framed
  <2>6. job' \in [Runs -> Job]
    BY <2>3, <2>4, <2>5 DEF Job
  <2> QED
    BY <1>2, <2>6, AdvanceType DEF ReadFrame, Stages, found
<1>3. CASE ~Satisfies(found.columns, job[r].schema)
  BY <1>3, RaiseType DEF ReadFrame, Errors
<1> QED
  BY <1>2, <1>3

LEMMA ReadType ==
  ASSUME TypeOK, NEW r \in Runs, Read(r)
  PROVE  TypeOK'
<1>1. CASE ReadGlueTable(r)
  <2>1. CASE ReadFrame(r) /\ data[DescriptorOf[r].source] # None
    BY <2>1, ReadFrameType
  <2>2. CASE Escape(r)
    BY <2>2, EscapeType
  <2> QED
    BY <1>1, <2>1, <2>2 DEF ReadGlueTable
<1>2. CASE ReadDmsLanding(r)
  <2>1. CASE ReadFrame(r) /\ data[DescriptorOf[r].source] # None
    BY <2>1, ReadFrameType
  <2>2. CASE Raise(r, "PipelineError")
    BY <2>2, RaiseType DEF Errors
  <2>3. CASE Escape(r)
    BY <2>3, EscapeType
  <2> QED
    BY <1>2, <2>1, <2>2, <2>3 DEF ReadDmsLanding
<1>3. CASE Raise(r, "UnknownKind")
  BY <1>3, RaiseType DEF Errors
<1> QED
  BY <1>1, <1>2, <1>3 DEF Read

LEMMA LocalStepsType ==
  ASSUME TypeOK, NEW r \in Runs,
         RunSteps(r) \/ ResolvePolicy(r) \/ ValidateFrame(r)
  PROVE  TypeOK'
<1>1. CASE RunSteps(r)
  <2>1. CASE Raise(r, "PipelineError") \/ Raise(r, "UnknownKind") \/ Escape(r)
    BY <2>1, RaiseType, EscapeType DEF Errors
  <2>2. CASE job' = [job EXCEPT ![r].frame = DescriptorOf[r].output] /\ Advance(r, "policy")
    <3> DEFINE output == DescriptorOf[r].output
    <3>1. output \in SUBSET Column
      BY DescriptorFields
    <3>2. job' = [job EXCEPT ![r].frame = output]
      BY <2>2
    <3> HIDE DEF output
    <3>3. job \in [Runs -> Job]
      BY DEF TypeOK, ExecutorTypeOK
    <3>4. job' \in [Runs -> Job]
      BY <3>1, <3>2, <3>3 DEF Job
    <3> QED
      BY <2>2, <3>4, AdvanceType DEF Stages
  <2> QED
    BY <1>1, <2>1, <2>2 DEF RunSteps
<1>2. CASE ResolvePolicy(r)
  <2>1. CASE Raise(r, "UnknownTag") \/ Escape(r)
    BY <2>1, RaiseType, EscapeType DEF Errors
  <2>2. CASE Advance(r, "validate") /\ UNCHANGED job
    BY <2>2, AdvanceType DEF Stages, TypeOK, ExecutorTypeOK
  <2> QED
    BY <1>2, <2>1, <2>2 DEF ResolvePolicy
<1>3. CASE ValidateFrame(r)
  <2>1. CASE Escape(r)
    BY <2>1, EscapeType
  <2>2. ASSUME NEW verdict \in Verdicts(DescriptorOf[r].suite),
               job' = [job EXCEPT ![r].result = verdict], Advance(r, "prepare")
        PROVE  TypeOK'
    <3>1. verdict \in Verdict
      BY DEF Verdicts, Verdict
    <3>2. job' \in [Runs -> Job]
      <4>1. job \in [Runs -> Job]
        BY DEF TypeOK, ExecutorTypeOK
      <4>2. [job[r] EXCEPT !.result = verdict] \in Job
        BY <3>1, <4>1 DEF Job
      <4>3. job' = [job EXCEPT ![r] = [job[r] EXCEPT !.result = verdict]]
        BY <2>2, <4>1
      <4> QED
        BY <4>1, <4>2, <4>3
    <3> QED
      BY <2>2, <3>2, AdvanceType DEF Stages
  <2> QED
    BY <1>3, <2>1, <2>2 DEF ValidateFrame
<1> QED
  BY <1>1, <1>2, <1>3

LEMMA OwnerType ==
  ASSUME CatalogTypeOK, NEW t \in Tables, NEW reader \in Domains
  PROVE  Owner(t, reader) \in Domains \cup TagValues
<1>1. lf_tags[t] \in SUBSET Tag
  BY DEF CatalogTypeOK
<1>2. CASE \E g \in lf_tags[t] : g.key = "domain"
  <2> DEFINE tag == CHOOSE g \in lf_tags[t] : g.key = "domain"
  <2>1. tag \in Tag
    BY <1>1, <1>2
  <2> QED
    BY <1>2, <2>1 DEF Owner, Tag
<1> QED
  BY <1>2 DEF Owner

LEMMA PrepareType ==
  ASSUME TypeOK, NEW r \in Runs, Prepare(r)
  PROVE  TypeOK'
<1> DEFINE source == DescriptorOf[r].source
           owner  == Owner(source, DescriptorOf[r].domain)
           aside  == job[r].result = "failed" /\ DescriptorOf[r].on_failure = "quarantine"
<1>1. CASE Raise(r, "UnknownKind") \/ Raise(r, "PublishBlocked")
  BY <1>1, RaiseType DEF Errors
<1>2. CASE /\ job' = [job EXCEPT ![r].owner = owner,
                                 ![r].source_tags = lf_tags[source],
                                 ![r].side = aside]
           /\ Advance(r, "clear")
  <2>1. owner \in Domains \cup TagValues /\ lf_tags[source] \in SUBSET Tag
    BY DescriptorFields, OwnerType DEF TypeOK, CatalogTypeOK
  <2>2. aside \in BOOLEAN
    OBVIOUS
  <2> HIDE DEF owner, aside
  <2> DEFINE owned  == [job EXCEPT ![r].owner = owner]
             tagged == [owned EXCEPT ![r].source_tags = lf_tags[source]]
  <2>3. job' = [tagged EXCEPT ![r].side = aside]
    BY <1>2 DEF TypeOK, ExecutorTypeOK
  <2>4. owned \in [Runs -> Job]
    BY <2>1, JobFields DEF TypeOK, ExecutorTypeOK
  <2> HIDE DEF owned
  <2>5. tagged \in [Runs -> Job]
    BY <2>1, <2>4 DEF Job
  <2> HIDE DEF tagged
  <2>6. job' \in [Runs -> Job]
    BY <2>2, <2>3, <2>5 DEF Job
  <2> QED
    BY <1>2, <2>6, AdvanceType DEF Stages
<1> QED
  BY <1>1, <1>2 DEF Prepare

LEMMA ClearingType ==
  ASSUME TypeOK, NEW r \in Runs, ListStale(r) \/ UnlinkStale(r)
  PROVE  TypeOK'
<1> USE DEF TypeOK, ExecutorTypeOK
<1>1. ASSUME NEW stale \in SUBSET (Locations \X Writers),
             job' = [job EXCEPT ![r].stale = stale]
      PROVE  job' \in [Runs -> Job]
  <2>1. [job[r] EXCEPT !.stale = stale] \in Job
    BY JobFields
  <2>2. job' = [job EXCEPT ![r] = [job[r] EXCEPT !.stale = stale]]
    BY <1>1
  <2> QED
    BY <2>1, <2>2
<1>2. CASE ListStale(r)
  <2>1. Under[Location(r)] \subseteq Locations
    BY TargetType, ExecutorAssumption
  <2>2. {f \in Under[Location(r)] \X Writers : f[2] \in files[f[1]]}
          \in SUBSET (Locations \X Writers)
    BY <2>1
  <2>3. job' \in [Runs -> Job]
    BY <1>1, <1>2, <2>2 DEF ListStale
  <2> QED
    BY <1>2, <2>3, AdvanceType DEF ListStale, Stages
<1>3. CASE UnlinkStale(r)
  <2>1. CASE Advance(r, "write") /\ UNCHANGED job
    BY <2>1, AdvanceType DEF Stages
  <2>2. CASE Escape(r)
    BY <2>2, EscapeType
  <2>3. ASSUME NEW f \in job[r].stale, NEW there,
               files' = [files EXCEPT ![f[1]] = @ \ there],
               job' = [job EXCEPT ![r].stale = @ \ {f}],
               UNCHANGED <<catalogVars, pc, events, revision>>
        PROVE  TypeOK'
    <3>1. job[r].stale \ {f} \in SUBSET (Locations \X Writers)
      BY DEF Job
    <3>2. job' = [job EXCEPT ![r].stale = job[r].stale \ {f}]
      BY <2>3
    <3>3. job' \in [Runs -> Job]
      BY <1>1, <3>1, <3>2
    <3>4. files' \in [Locations -> SUBSET Writers]
      BY <2>3
    <3>5. CatalogTypeOK'
      BY <2>3 DEF CatalogTypeOK, catalogVars
    <3> QED
      BY <2>3, <3>3, <3>4, <3>5
  <2> QED
    BY <1>3, <2>1, <2>2, <2>3 DEF UnlinkStale
<1> QED
  BY <1>2, <1>3

LEMMA WritingType ==
  ASSUME TypeOK, NEW r \in Runs, WriteFiles(r)
  PROVE  TypeOK'
<1>1. CASE Raise(r, "PipelineError")
  BY <1>1, RaiseType DEF Errors
<1>2. ASSUME NEW kept \in SUBSET files[Location(r)],
             files' = [files EXCEPT ![Location(r)] = kept \cup {r}],
             Goto(r, "create"), UNCHANGED <<catalogVars, job, events, revision>>
      PROVE  TypeOK'
  <2>1. CatalogTypeOK'
    BY <1>2 DEF TypeOK, CatalogTypeOK, catalogVars
  <2>2. kept \cup {r} \in SUBSET Writers
    BY TargetType DEF TypeOK, ExecutorTypeOK, Writers
  <2> QED
    BY <1>2, <2>1, <2>2 DEF TypeOK, ExecutorTypeOK, Goto, Stages
<1> QED
  BY <1>1, <1>2 DEF WriteFiles

LEMMA AsRegisteredType ==
  ASSUME NEW columns \in SUBSET Column
  PROVE  AsRegistered(columns) \in SUBSET Column
BY DEF AsRegistered, Column

LEMMA RegistrationType ==
  ASSUME TypeOK, NEW r \in Runs, PublishTable(r) \/ Register(r) \/ Registering(r)
  PROVE  TypeOK'
<1> USE DEF TypeOK
<1>1. job[r].frame \in SUBSET Column
  BY DEF ExecutorTypeOK, Job
<1>2. ASSUME NEW stage \in Stages, Goto(r, stage), CatalogTypeOK',
             UNCHANGED <<job, files, events, revision>>
      PROVE  TypeOK'
  BY <1>2 DEF ExecutorTypeOK, Goto
<1>3. CASE PublishTable(r)
  <2>1. [columns |-> job[r].frame, by |-> r] \in Content
    BY <1>1 DEF Content
  <2>2. CatalogTypeOK'
    BY <1>3, <2>1, TargetType, CreateTableType DEF PublishTable
  <2> QED
    BY <1>2, <1>3, <2>2 DEF PublishTable, Stages
<1>4. CASE Register(r)
  <2>1. CatalogTypeOK'
    BY <1>1, <1>4, AsRegisteredType, TargetType, DescriptorFields, BeginRegisterType
    DEF Register
  <2> QED
    BY <1>2, <1>4, <2>1 DEF Register, Stages
<1>5. CASE Registering(r)
  <2>1. CASE (InsertColumn(r) \/ DeleteTags(r) \/ InsertTag(r)) /\ UNCHANGED runVars
    <3>1. CatalogTypeOK'
      BY <2>1, InsertColumnType, DeleteTagsType, InsertTagType
    <3> QED
      BY <2>1, <3>1 DEF runVars, ExecutorTypeOK
  <2>2. CASE /\ EndRegister(r)
             /\ Goto(r, "emit")
             /\ UNCHANGED <<job, files, events, revision>>
    BY <1>2, <2>2, EndRegisterType DEF Stages
  <2>3. CASE Escape(r)
    BY <2>3, EscapeType
  <2> QED
    BY <1>5, <2>1, <2>2, <2>3 DEF Registering
<1> QED
  BY <1>3, <1>4, <1>5

LEMMA DatasetTypes ==
  ASSUME TypeOK, NEW r \in Runs
  PROVE  /\ Output(r) \in Dataset
         /\ [Output(r) EXCEPT !.tags = {}] \in Dataset
         /\ [namespace |-> job[r].owner, name |-> DescriptorOf[r].source,
             tags |-> job[r].source_tags] \in Dataset
<1>1. job[r] \in Job
  BY DEF TypeOK, ExecutorTypeOK
<1> QED
  BY <1>1, TargetType, DescriptorFields DEF Output, Dataset, Job

LEMMA EventTypes ==
  ASSUME TypeOK, NEW r \in Runs
  PROVE  TerminalEvent(r) \in Event /\ FailureEvent(r) \in Event /\ AssertionEvent(r) \in Event
<1> DEFINE input == [namespace |-> job[r].owner, name |-> DescriptorOf[r].source,
                     tags |-> job[r].source_tags]
           tested == [Output(r) EXCEPT !.tags = IF Blocked(r) THEN {} ELSE @]
<1>1. /\ job[r].publication \in Releases \cup {None}
      /\ job[r].error \in Errors \cup {None}
      /\ job[r].result \in Verdict \cup {None}
      /\ revision[r] \in Revisions
  BY DEF TypeOK, ExecutorTypeOK, Job
<1>2. input \in Dataset /\ Output(r) \in Dataset
  BY DatasetTypes
<1>3. tested \in Dataset
  BY DatasetTypes DEF Output
<1> HIDE DEF input, tested
<1>4. TerminalEvent(r) \in Event
  BY <1>1, <1>2 DEF TerminalEvent, Reported, Event, input
<1>5. FailureEvent(r) \in Event
  BY <1>1 DEF FailureEvent, Event
<1>6. AssertionEvent(r) \in Event
  BY <1>1, <1>3 DEF AssertionEvent, Event, tested
<1> QED
  BY <1>4, <1>5, <1>6

LEMMA EmittingType ==
  ASSUME TypeOK, NEW r \in Runs,
         EmitTerminal(r) \/ EmitFailure(r) \/ EmitAssertions(r)
  PROVE  TypeOK'
BY EventTypes, EmitType DEF EmitTerminal, EmitFailure, EmitAssertions, Stages

LEMMA StepType ==
  ASSUME TypeOK, NEW r \in Runs, Step(r)
  PROVE  TypeOK'
<1>1. CASE Refused(r)
  BY <1>1, EscapeType DEF Refused
<1> QED
  BY <1>1, ResolveType, ReadType, LocalStepsType, PrepareType, ClearingType, WritingType,
     RegistrationType, EmittingType DEF Step

LEMMA EditType ==
  ASSUME TypeOK, NEW r \in Runs, Edit(r)
  PROVE  TypeOK'
<1>1. revision[r] + 1 \in Revisions
  BY ExecutorAssumption DEF Edit, TypeOK, ExecutorTypeOK, Revisions
<1>2. CatalogTypeOK'
  BY DEF Edit, TypeOK, CatalogTypeOK, catalogVars
<1> QED
  BY <1>1, <1>2 DEF Edit, TypeOK, ExecutorTypeOK

LEMMA AppType ==
  ASSUME TypeOK, NEW a \in Apps, App(a)
  PROVE  TypeOK'
<1>1. CatalogTypeOK'
  <2>1. CASE AppShips(a)
    BY <2>1, ShipType, RuntimeAssumption, CatalogAssumption DEF AppShips, TypeOK
  <2>2. CASE AppPublishes(a)
    BY <2>2, PublishType DEF AppPublishes, TypeOK
  <2>3. CASE AppLeaves(a)
    BY <2>3, DisconnectType DEF AppLeaves, TypeOK
  <2> QED
    BY <2>1, <2>2, <2>3 DEF App
<1>2. UNCHANGED runVars
  BY DEF App, AppShips, AppPublishes, AppLeaves
<1> QED
  BY <1>1, <1>2 DEF runVars, TypeOK, ExecutorTypeOK

LEMMA NextType == TypeOK /\ [Next]_vars => TypeOK'
<1> SUFFICES ASSUME TypeOK, [Next]_vars PROVE TypeOK'
  OBVIOUS
<1>1. CASE UNCHANGED vars
  BY <1>1 DEF vars, catalogVars, runVars, TypeOK, CatalogTypeOK, ExecutorTypeOK
<1>2. ASSUME NEW r \in Runs, Parse(r) \/ Step(r) \/ Dies(r) \/ Edit(r)
      PROVE  TypeOK'
  BY <1>2, ParseType, StepType, EditType, EscapeType DEF Dies
<1>3. ASSUME NEW a \in Apps, App(a)
      PROVE  TypeOK'
  BY <1>3, AppType
<1> QED
  BY <1>1, <1>2, <1>3 DEF Next, Resting

\* Every variable of the deployment keeps its type, whatever the descriptors
\* and however runs and releases interleave.
THEOREM TypeCorrect == Spec => []TypeOK
BY InitType, NextType, PTL DEF Spec

-----------------------------------------------------------------------------
(* One terminal event *)

Emits(r) == EmitTerminal(r) \/ EmitFailure(r) \/ EmitAssertions(r)

Clears(r) == ListStale(r) \/ UnlinkStale(r)

\* Deleting stale files touches nothing but the files and the list of them.
LEMMA ClearingMoves ==
  ASSUME NEW r \in Runs, Clears(r)
  PROVE  \/ Escape(r)
         \/ /\ UNCHANGED <<catalogVars, events, revision>>
            /\ \/ pc[r] = "clear" /\ Goto(r, "unlink") /\ UNCHANGED files
               \/ pc[r] = "unlink" /\ Goto(r, "write") /\ UNCHANGED <<files, job>>
               \/ pc[r] = "unlink" /\ UNCHANGED pc
BY DEF Clears, ListStale, UnlinkStale, Advance

LEMMA ClearingKeeps ==
  ASSUME TypeOK, NEW r \in Runs, Clears(r)
  PROVE  /\ pc[r] \in {"clear", "unlink"}
         /\ \A q \in Runs \ {r} : job'[q] = job[q]
         /\ \A l \in Locations : files'[l] \subseteq files[l]
         /\ job'[r].schema = job[r].schema /\ job'[r].publication = job[r].publication
         /\ job'[r].frame = job[r].frame /\ job'[r].rows = job[r].rows
         /\ job'[r].result = job[r].result /\ job'[r].owner = job[r].owner
         /\ job'[r].source_tags = job[r].source_tags /\ job'[r].side = job[r].side
         /\ job'[r].error = job[r].error /\ job'[r].revision = job[r].revision
<1> USE DEF TypeOK, ExecutorTypeOK
<1>1. PICK stale : job' = [job EXCEPT ![r].stale = stale] \/ job' = job
  BY DEF Clears, ListStale, UnlinkStale, Escape
<1>2. job'[r] = [job[r] EXCEPT !.stale = stale] \/ job'[r] = job[r]
  BY <1>1
<1>3. job[r] \in Job
  OBVIOUS
<1>4. \A l \in Locations : files'[l] \subseteq files[l]
  <2>1. \/ UNCHANGED files
        \/ \E f, there : files' = [files EXCEPT ![f[1]] = @ \ there]
    BY DEF Clears, ListStale, UnlinkStale, Escape, Advance
  <2> QED
    BY <2>1
<1> QED
  BY <1>1, <1>2, <1>3, <1>4 DEF Job, Clears, ListStale, UnlinkStale

\* A step of r that emits nothing moves r alone: to a stage before emission,
\* from one, or out of the program.
Quiet(r) ==
  /\ UNCHANGED events
  /\ \/ UNCHANGED pc
     \/ \E stage \in Stages \ {"assert", "returned", "raised"} :
          /\ Goto(r, stage)
          /\ pc[r] \in Ended \cup {"assert"} => stage = "escaped" /\ pc[r] = "assert"

LEMMA RaiseIsQuiet ==
  ASSUME NEW r \in Runs, NEW e, Raise(r, e), pc[r] \notin Ended \cup {"assert"}
  PROVE  Quiet(r)
BY DEF Raise, Quiet, Stages

LEMMA EscapeIsQuiet ==
  ASSUME NEW r \in Runs, Escape(r), pc[r] \notin Ended
  PROVE  Quiet(r)
BY DEF Escape, Quiet, Stages

LEMMA AdvanceIsQuiet ==
  ASSUME NEW r \in Runs, NEW stage \in Stages \ {"assert", "returned", "raised"},
         Advance(r, stage), pc[r] \notin Ended \cup {"assert"}
  PROVE  Quiet(r)
BY DEF Advance, Quiet

LEMMA QuietSteps ==
  ASSUME NEW r \in Runs, Parse(r) \/ Step(r) \/ Dies(r) \/ Edit(r)
  PROVE  Emits(r) \/ Quiet(r)
<1>1. CASE Parse(r)
  BY <1>1 DEF Parse, Quiet, Stages, Ended
<1>2. CASE Dies(r)
  BY <1>2, EscapeIsQuiet DEF Dies, Active
<1>3. CASE Edit(r)
  BY <1>3 DEF Edit, Quiet
<1>4. CASE Resolve(r)
  BY <1>4, RaiseIsQuiet, AdvanceIsQuiet DEF Resolve, Ended, Stages
<1>5. CASE Read(r)
  <2>1. pc[r] \notin Ended \cup {"assert"}
    BY <1>5 DEF Read, Ended
  <2>2. \/ \E e \in Errors : Raise(r, e)
        \/ Escape(r)
        \/ Advance(r, "steps")
    BY <1>5 DEF Read, ReadGlueTable, ReadDmsLanding, ReadFrame, Errors
  <2> QED
    BY <2>1, <2>2, RaiseIsQuiet, AdvanceIsQuiet, EscapeIsQuiet DEF Stages
<1>6. CASE RunSteps(r) \/ ResolvePolicy(r) \/ ValidateFrame(r)
  BY <1>6, RaiseIsQuiet, AdvanceIsQuiet, EscapeIsQuiet
  DEF RunSteps, ResolvePolicy, ValidateFrame, Ended, Stages
<1>7. CASE Prepare(r)
  BY <1>7, RaiseIsQuiet, AdvanceIsQuiet DEF Prepare, Ended, Stages
<1>8. CASE Clears(r)
  <2>1. pc[r] \notin Ended
    BY <1>8 DEF Clears, ListStale, UnlinkStale, Ended
  <2> QED
    BY <1>8, <2>1, ClearingMoves, EscapeIsQuiet DEF Quiet, Ended, Stages
<1>9. CASE WriteFiles(r)
  <2>1. pc[r] \notin Ended \cup {"assert"}
    BY <1>9 DEF WriteFiles, Ended
  <2>2. \/ Raise(r, "PipelineError")
        \/ Goto(r, "create") /\ UNCHANGED events
    BY <1>9 DEF WriteFiles
  <2> QED
    BY <2>1, <2>2, RaiseIsQuiet DEF Quiet, Stages
<1>10. CASE PublishTable(r) \/ Register(r)
  BY <1>10 DEF PublishTable, Register, Quiet, Ended, Stages
<1>11. CASE Registering(r)
  BY <1>11, EscapeIsQuiet DEF Registering, runVars, Quiet, Ended, Stages
<1>12. CASE Refused(r)
  BY <1>12, EscapeIsQuiet DEF Refused, Querying, Publishing, Ended
<1> QED
  BY <1>1, <1>2, <1>3, <1>4, <1>5, <1>6, <1>7, <1>8, <1>9, <1>10, <1>11, <1>12
  DEF Step, Emits, Clears

\* The emission part of the invariant, for one run.
EmissionOf(r) ==
  /\ Len(events[r]) <= 2
  /\ \A i \in DOMAIN events[r] : Terminal(events[r][i]) <=> i = 1
  /\ pc[r] \notin Ended \cup {"assert"} => Len(events[r]) = 0
  /\ pc[r] = "assert" => Len(events[r]) = 1
  /\ pc[r] \in {"returned", "raised"} => Len(events[r]) >= 1

LEMMA QuietEmission ==
  ASSUME TypeOK, NEW r \in Runs, NEW q \in Runs, EmissionOf(q), Quiet(r)
  PROVE  EmissionOf(q)'
<1> USE DEF TypeOK, ExecutorTypeOK
<1>1. events'[q] = events[q]
  BY DEF Quiet
<1>2. CASE pc'[q] = pc[q]
  BY <1>1, <1>2 DEF EmissionOf, Terminal
<1>3. CASE pc'[q] # pc[q]
  <2>1. PICK stage \in Stages \ {"assert", "returned", "raised"} :
          /\ Goto(r, stage)
          /\ pc[r] \in Ended \cup {"assert"} => stage = "escaped" /\ pc[r] = "assert"
    BY <1>3 DEF Quiet
  <2>2. q = r /\ pc'[q] = stage
    BY <1>3, <2>1 DEF Goto
  <2> QED
    BY <1>1, <2>1, <2>2 DEF EmissionOf, Terminal, Ended, Stages
<1> QED
  BY <1>2, <1>3

LEMMA EmitsEmission ==
  ASSUME TypeOK, NEW r \in Runs, NEW q \in Runs, EmissionOf(q), Emits(r)
  PROVE  EmissionOf(q)'
<1> USE DEF TypeOK, ExecutorTypeOK
<1>1. PICK event \in Event, stage \in Stages :
        /\ Emit(r, event)
        /\ Goto(r, stage)
        /\ \/ /\ pc[r] \in {"emit", "fail"}
              /\ Terminal(event)
              /\ stage \in {"assert", "raised"}
           \/ /\ pc[r] = "assert"
              /\ ~Terminal(event)
              /\ stage \in {"returned", "raised"}
  <2>1. CASE EmitTerminal(r)
    <3>1. Terminal(TerminalEvent(r))
      BY DEF TerminalEvent, Reported, Terminal
    <3> QED
      BY <2>1, <3>1, EventTypes DEF EmitTerminal, Stages
  <2>2. CASE EmitFailure(r)
    <3>1. Terminal(FailureEvent(r))
      BY DEF FailureEvent, Terminal
    <3> QED
      BY <2>2, <3>1, EventTypes DEF EmitFailure, Stages
  <2>3. CASE EmitAssertions(r)
    <3>1. ~Terminal(AssertionEvent(r))
      BY DEF AssertionEvent, Terminal
    <3> QED
      BY <2>3, <3>1, EventTypes DEF EmitAssertions, Stages
  <2> QED
    BY <2>1, <2>2, <2>3 DEF Emits
<1>2. CASE q # r
  <2>1. events'[q] = events[q] /\ pc'[q] = pc[q]
    BY <1>1, <1>2 DEF Emit, Goto
  <2> QED
    BY <2>1 DEF EmissionOf, Terminal
<1>3. CASE q = r
  <2>1. pc'[q] = stage /\ events'[q] = Append(events[q], event)
    BY <1>1, <1>3 DEF Emit, Goto
  <2>2. events[q] \in Seq(Event)
    OBVIOUS
  <2>3. Len(events'[q]) = Len(events[q]) + 1
    BY <2>1, <2>2
  <2>4. \A i \in DOMAIN events'[q] :
          events'[q][i] = IF i = Len(events[q]) + 1 THEN event ELSE events[q][i]
    BY <2>1, <2>2
  <2>5. \/ /\ Len(events[q]) = 0
           /\ Terminal(event)
           /\ stage \in {"assert", "raised"}
        \/ /\ Len(events[q]) = 1
           /\ ~Terminal(event)
           /\ stage \in {"returned", "raised"}
    BY <1>1, <1>3 DEF EmissionOf, Ended
  <2>6. \A i \in DOMAIN events'[q] : Terminal(events'[q][i]) <=> i = 1
    BY <2>1, <2>2, <2>3, <2>4, <2>5 DEF EmissionOf
  <2> QED
    BY <2>1, <2>2, <2>3, <2>5, <2>6 DEF EmissionOf, Terminal, Ended
<1> QED
  BY <1>2, <1>3

LEMMA EmissionInductive == TypeOK /\ EmissionInv /\ [Next]_vars => EmissionInv'
<1> SUFFICES ASSUME TypeOK, EmissionInv, [Next]_vars, NEW q \in Runs
             PROVE  EmissionOf(q)'
  BY DEF EmissionInv, EmissionOf, Terminal
<1>1. EmissionOf(q)
  BY DEF EmissionInv, EmissionOf
<1>2. CASE UNCHANGED <<pc, events>>
  BY <1>1, <1>2 DEF EmissionOf, Terminal
<1>3. ASSUME NEW r \in Runs, Parse(r) \/ Step(r) \/ Dies(r) \/ Edit(r)
      PROVE  EmissionOf(q)'
  BY <1>1, <1>3, QuietSteps, QuietEmission, EmitsEmission
<1>4. ASSUME NEW a \in Apps, App(a)
      PROVE  UNCHANGED <<pc, events>>
  BY <1>4 DEF App, AppShips, AppPublishes, AppLeaves, runVars
<1> QED
  BY <1>2, <1>3, <1>4 DEF Next, Resting, vars, runVars

LEMMA EmissionInit == Init => EmissionInv
BY DEF Init, ExecutorInit, EmissionInv, Ended

LEMMA EmissionAlways == Spec => []EmissionInv
<1>1. TypeOK /\ EmissionInv /\ [Next]_vars => EmissionInv'
  BY EmissionInductive
<1> QED
  BY <1>1, EmissionInit, TypeCorrect, PTL DEF Spec

\* run.py:41, "exactly one terminal event per run": whatever fails, whoever
\* dies and however runs interleave, no run emits two, and a run that comes
\* back to its caller, by returning or by raising, has emitted one.
THEOREM ReportsOnce == Spec => []OneTerminalEvent
<1>1. TypeOK /\ EmissionInv => OneTerminalEvent
  <2> SUFFICES ASSUME TypeOK, EmissionInv, NEW r \in Runs
               PROVE  /\ \A i, j \in TerminalsOf(r) : i = j
                      /\ pc[r] \in {"returned", "raised"} => TerminalsOf(r) # {}
    BY DEF OneTerminalEvent
  <2>1. \A i \in TerminalsOf(r) : i = 1
    BY DEF EmissionInv, TerminalsOf
  <2>2. Len(events[r]) >= 1 => 1 \in TerminalsOf(r)
    BY DEF EmissionInv, TerminalsOf, TypeOK, ExecutorTypeOK
  <2> QED
    BY <2>1, <2>2 DEF EmissionInv
<1> QED
  BY <1>1, TypeCorrect, EmissionAlways, PTL

-----------------------------------------------------------------------------

-----------------------------------------------------------------------------
(* What a run's step does to the other runs: nothing *)

LEMMA OthersStay ==
  ASSUME TypeOK, NEW r \in Runs, Parse(r) \/ Step(r) \/ Dies(r) \/ Edit(r),
         NEW q \in Runs \ {r}
  PROVE  pc'[q] = pc[q] /\ job'[q] = job[q]
<1> USE DEF TypeOK, ExecutorTypeOK, Goto
<1> DEFINE Stays == pc'[q] = pc[q] /\ job'[q] = job[q]
<1>1. ASSUME NEW e, Raise(r, e) PROVE Stays
  BY <1>1 DEF Raise
<1>2. ASSUME Escape(r) PROVE Stays
  BY <1>2 DEF Escape
<1>3. ASSUME NEW stage, Advance(r, stage) PROVE pc'[q] = pc[q]
  BY <1>3 DEF Advance
<1>4. CASE Parse(r) \/ Edit(r) \/ PublishTable(r) \/ Register(r) \/ Emits(r)
  BY <1>4 DEF Parse, Edit, PublishTable, Register, Emits, EmitTerminal, EmitFailure,
     EmitAssertions
<1>5. CASE Dies(r) \/ Refused(r)
  BY <1>2, <1>5 DEF Dies, Refused
<1>6. CASE Resolve(r) \/ RunSteps(r) \/ ResolvePolicy(r) \/ ValidateFrame(r) \/ Prepare(r)
  BY <1>1, <1>2, <1>3, <1>6 DEF Resolve, RunSteps, ResolvePolicy, ValidateFrame, Prepare
<1>7. CASE Read(r)
  <2>1. CASE ReadFrame(r)
    BY <1>1, <1>3, <2>1 DEF ReadFrame
  <2> QED
    BY <1>1, <1>2, <1>7, <2>1 DEF Read, ReadGlueTable, ReadDmsLanding
<1>8. CASE WriteFiles(r) \/ Registering(r)
  BY <1>1, <1>2, <1>8 DEF WriteFiles, Registering, runVars
<1>9. CASE Clears(r)
  BY <1>2, <1>9, ClearingMoves, ClearingKeeps
<1> QED
  BY <1>4, <1>5, <1>6, <1>7, <1>8, <1>9 DEF Step, Emits, Clears

LEMMA OthersSaySame ==
  ASSUME TypeOK, NEW r \in Runs, Parse(r) \/ Step(r) \/ Dies(r) \/ Edit(r),
         NEW q \in Runs \ {r}
  PROVE  events'[q] = events[q]
<1>1. CASE Emits(r)
  BY <1>1 DEF Emits, EmitTerminal, EmitFailure, EmitAssertions, Emit, TypeOK, ExecutorTypeOK
<1>2. CASE Quiet(r)
  BY <1>2 DEF Quiet
<1> QED
  BY <1>1, <1>2, QuietSteps
=============================================================================
