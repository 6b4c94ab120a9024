--------------------------- MODULE ReleaseProofs ----------------------------
(***************************************************************************)
(* What a run may rely on about the releases of the applications it reads: *)
(* a version stays as published, the shape a run works from is its pin's,  *)
(* and its events claim the release on record and give a table the name    *)
(* everybody's events give it.                                             *)
(***************************************************************************)
EXTENDS RuntimeProofs

-----------------------------------------------------------------------------
(* What a run's step does to the catalog, and to its job *)

LEMMA RunCatalogSteps ==
  ASSUME NEW r \in Runs, Parse(r) \/ Step(r) \/ Dies(r) \/ Edit(r)
  PROVE  \/ UNCHANGED catalogVars
         \/ UNCHANGED <<tables, versions, lf_tags, data>> /\ session' \in {None, session}
         \/ CreateTable(Table(r), [columns |-> job[r].frame, by |-> r])
         \/ BeginRegister(r, Table(r), AsRegistered(job[r].frame), DescriptorOf[r].lf_tags)
         \/ InsertColumn(r) \/ DeleteTags(r) \/ InsertTag(r) \/ EndRegister(r)
<1>1. ASSUME NEW e, Raise(r, e) PROVE UNCHANGED catalogVars
  BY <1>1 DEF Raise
<1>2. ASSUME Escape(r)
      PROVE  UNCHANGED <<tables, versions, lf_tags, data>> /\ session' \in {None, session}
  BY <1>2 DEF Escape
<1>3. ASSUME NEW stage, Advance(r, stage) PROVE UNCHANGED catalogVars
  BY <1>3 DEF Advance
<1>4. CASE Parse(r) \/ Edit(r) \/ Emits(r)
  BY <1>4 DEF Parse, Edit, Emits, EmitTerminal, EmitFailure, EmitAssertions
<1>5. CASE Dies(r) \/ Refused(r) \/ Clears(r)
  BY <1>2, <1>5, ClearingMoves DEF Dies, Refused
<1>6. CASE Resolve(r) \/ RunSteps(r) \/ ResolvePolicy(r) \/ ValidateFrame(r) \/ Prepare(r)
  BY <1>1, <1>2, <1>3, <1>6 DEF Resolve, RunSteps, ResolvePolicy, ValidateFrame, Prepare
<1>7. CASE Read(r)
  BY <1>1, <1>2, <1>3, <1>7 DEF Read, ReadGlueTable, ReadDmsLanding, ReadFrame
<1>8. CASE WriteFiles(r)
  BY <1>1, <1>8 DEF WriteFiles
<1>9. CASE PublishTable(r) \/ Register(r)
  BY <1>9 DEF PublishTable, Register
<1>10. CASE Registering(r)
  BY <1>2, <1>10 DEF Registering
<1> QED
  BY <1>4, <1>5, <1>6, <1>7, <1>8, <1>9, <1>10 DEF Step, Emits, Clears

LEMMA SessionInductive == TypeOK /\ SessionInv /\ [Next]_vars => SessionInv'
<1> SUFFICES ASSUME TypeOK, SessionInv, [Next]_vars PROVE SessionInv'
  OBVIOUS
<1>1. CASE UNCHANGED session \/ session' = None
  BY <1>1 DEF SessionInv
<1>2. ASSUME NEW a \in Apps, App(a) PROVE SessionInv'
  <2>1. CASE AppShips(a)
    BY <2>1, CatalogAssumption, RuntimeAssumption DEF AppShips, Ship, SessionInv
  <2>2. CASE AppPublishes(a) \/ AppLeaves(a)
    BY <1>1, <2>2 DEF AppPublishes, AppLeaves, Publish, Disconnect
  <2> QED
    BY <1>2, <2>1, <2>2 DEF App
<1>3. ASSUME NEW r \in Runs, Parse(r) \/ Step(r) \/ Dies(r) \/ Edit(r) PROVE SessionInv'
  <2>1. CASE BeginRegister(r, Table(r), AsRegistered(job[r].frame), DescriptorOf[r].lf_tags)
    BY <2>1, TargetsAssumption DEF BeginRegister, Table, SessionInv
  <2>2. CASE InsertColumn(r) \/ DeleteTags(r) \/ InsertTag(r)
    <3>1. session \in Session /\ session.stage # "release"
      BY <2>2 DEF InsertColumn, DeleteTags, InsertTag, Holds, TypeOK, CatalogTypeOK
    <3>2. session' # None => /\ session'.holder = session.holder
                             /\ session'.table = session.table
                             /\ session'.stage # "release"
      BY <2>2, <3>1 DEF InsertColumn, DeleteTags, InsertTag, Session
    <3> QED
      BY <2>2, <3>1, <3>2 DEF SessionInv, InsertColumn, DeleteTags, InsertTag, Holds
  <2> QED
    BY <1>1, <1>3, <2>1, <2>2, RunCatalogSteps DEF catalogVars, CreateTable, EndRegister
<1>4. CASE UNCHANGED vars
  BY <1>1, <1>4 DEF vars, catalogVars
<1> QED
  BY <1>2, <1>3, <1>4 DEF Next, Resting

LEMMA SessionAlways == Spec => []SessionInv
<1>1. Init => SessionInv
  BY DEF Init, CatalogInit, SessionInv
<1>2. TypeOK /\ SessionInv /\ [Next]_vars => SessionInv'
  BY SessionInductive
<1> QED
  BY <1>1, <1>2, TypeCorrect, PTL DEF Spec

-----------------------------------------------------------------------------
(* Versions stand *)

\* One step: what is on record for an application's table stays, and nobody is
\* ever recorded as the producer of a pipeline's own table.
VersionsStand ==
  /\ \A t \in AppTables : \A v \in Recorded(t) :
       tables'[t][v] = tables[t][v] /\ versions'[t][v] = versions[t][v]
  /\ \A t \in Tables \ AppTables : versions'[t] = versions[t]

LEMMA NextVersionsStand == TypeOK /\ SessionInv /\ [Next]_vars => VersionsStand
<1> SUFFICES ASSUME TypeOK, SessionInv, [Next]_vars PROVE VersionsStand
  OBVIOUS
<1>1. CASE UNCHANGED <<tables, versions>>
  BY <1>1 DEF VersionsStand
<1>2. ASSUME NEW a \in Apps, App(a) PROVE VersionsStand
  <2>1. CASE AppShips(a) \/ AppLeaves(a)
    BY <1>1, <2>1 DEF AppShips, Ship, AppLeaves, Disconnect
  <2>2. ASSUME NEW v \in Versions, Publish(a, v) PROVE VersionsStand
    <3>1. session \in Session /\ session.holder = a
      BY <2>2 DEF Publish, TypeOK, CatalogTypeOK
    <3>2. session.table \in AppTables
      BY <3>1, CatalogAssumption, <2>2 DEF SessionInv, Publish
    <3>3. v \notin Recorded(session.table)
      BY <2>2 DEF Publish, Versions
    <3>4. \A t \in Tables, w \in Versions : t # session.table \/ w # v =>
            tables'[t][w] = tables[t][w] /\ versions'[t][w] = versions[t][w]
      BY <2>2 DEF Publish, TypeOK, CatalogTypeOK
    <3>5. \A t \in Tables : t # session.table => versions'[t] = versions[t]
      BY <2>2 DEF Publish, TypeOK, CatalogTypeOK
    <3> QED
      BY <3>2, <3>3, <3>4, <3>5, CatalogAssumption DEF VersionsStand, Recorded
  <2> QED
    BY <1>2, <2>1, <2>2 DEF App, AppPublishes
<1>3. ASSUME NEW r \in Runs, Parse(r) \/ Step(r) \/ Dies(r) \/ Edit(r) PROVE VersionsStand
  <2>1. CASE BeginRegister(r, Table(r), AsRegistered(job[r].frame), DescriptorOf[r].lf_tags)
    <3>1. Table(r) \notin AppTables
      BY TargetsAssumption DEF Table
    <3> QED
      BY <2>1, <3>1, CatalogAssumption DEF BeginRegister, VersionsStand, TypeOK, CatalogTypeOK
  <2>2. CASE InsertColumn(r)
    <3>1. session # None /\ session.stage # "release"
      BY <2>2 DEF InsertColumn, Holds
    <3>2. session.table \notin AppTables
      BY <3>1 DEF SessionInv
    <3> QED
      BY <2>2, <3>2, CatalogAssumption DEF InsertColumn, VersionsStand, TypeOK, CatalogTypeOK
  <2> QED
    BY <1>1, <1>3, <2>1, <2>2, RunCatalogSteps
    DEF catalogVars, CreateTable, DeleteTags, InsertTag, EndRegister
<1>4. CASE UNCHANGED vars
  BY <1>1, <1>4 DEF vars, catalogVars
<1> QED
  BY <1>2, <1>3, <1>4 DEF Next, Resting

\* catalog.py:392-393, "An existing version is never rewritten": of the versions
\* applications publish, with whom they are attributed to.
THEOREM PublishedVersionsNeverRewritten == Spec => PublishedVersionsStand
<1>1. TypeOK /\ SessionInv /\ [Next]_vars =>
        [\A t \in AppTables : \A v \in Recorded(t) :
           /\ tables'[t][v] = tables[t][v]
           /\ versions'[t][v] = versions[t][v]]_vars
  BY NextVersionsStand DEF VersionsStand
<1> QED
  BY <1>1, TypeCorrect, SessionAlways, PTL DEF Spec, PublishedVersionsStand

-----------------------------------------------------------------------------
(* What a run resolved *)

SameClaim(q) ==
  job'[q].schema = job[q].schema /\ job'[q].publication = job[q].publication

LEMMA JobSteps ==
  ASSUME TypeOK, NEW r \in Runs, Parse(r) \/ Step(r) \/ Dies(r) \/ Edit(r),
         NEW q \in Runs
  PROVE  SameClaim(q) \/ (q = r /\ Resolve(r))
<1> USE DEF TypeOK, ExecutorTypeOK
<1>0. job[q] \in Job
  OBVIOUS
<1>1. ASSUME NEW e, Raise(r, e) PROVE SameClaim(q)
  BY <1>0, <1>1 DEF Raise, SameClaim, Job
<1>2. CASE UNCHANGED job
  BY <1>2 DEF SameClaim
<1>3. CASE Parse(r)
  BY <1>0, <1>3 DEF Parse, SameClaim, Job
<1>4. CASE Dies(r) \/ Edit(r) \/ Refused(r)
  BY <1>2, <1>4 DEF Dies, Edit, Refused, Escape
<1>5. CASE PublishTable(r) \/ Register(r) \/ Registering(r) \/ Emits(r)
  BY <1>2, <1>5 DEF PublishTable, Register, Registering, Escape, runVars,
     Emits, EmitTerminal, EmitFailure, EmitAssertions
<1>6. CASE Resolve(r)
  <2>1. q # r => job'[q] = job[q]
    BY <1>6 DEF Resolve, Raise
  <2> QED
    BY <1>6, <2>1 DEF SameClaim
<1>7. CASE Read(r)
  <2>1. CASE ReadFrame(r)
    BY <1>0, <1>1, <2>1 DEF ReadFrame, SameClaim, Job
  <2> QED
    BY <1>1, <1>2, <1>7, <2>1 DEF Read, ReadGlueTable, ReadDmsLanding, Escape
<1>8. CASE RunSteps(r)
  BY <1>0, <1>1, <1>2, <1>8 DEF RunSteps, Escape, SameClaim, Job
<1>9. CASE ResolvePolicy(r)
  BY <1>1, <1>2, <1>9 DEF ResolvePolicy, Escape
<1>10. CASE ValidateFrame(r)
  BY <1>0, <1>2, <1>10 DEF ValidateFrame, Escape, SameClaim, Job
<1>11. CASE Prepare(r)
  BY <1>0, <1>1, <1>11 DEF Prepare, SameClaim, Job
<1>12. CASE WriteFiles(r)
  BY <1>1, <1>2, <1>12 DEF WriteFiles
<1>13. CASE Clears(r)
  BY <1>13, ClearingKeeps DEF SameClaim
<1> QED
  BY <1>3, <1>4, <1>5, <1>6, <1>7, <1>8, <1>9, <1>10, <1>11, <1>12, <1>13
  DEF Step, Emits, Clears

\* The pin part of the invariant, for one run.
PinOf(q) ==
  LET d == DescriptorOf[q] IN
  /\ job[q].schema = {} => job[q].publication = None
  /\ job[q].schema # {} =>
       /\ job[q].publication = versions[d.source][d.schema_version]
       /\ d.source \in AppTables =>
            job[q].schema = tables[d.source][d.schema_version]

LEMMA SameClaimKeepsPin ==
  ASSUME VersionsStand, NEW q \in Runs, PinOf(q), SameClaim(q)
  PROVE  PinOf(q)'
<1> DEFINE source == DescriptorOf[q].source
           pin    == DescriptorOf[q].schema_version
<1>1. source \in Tables /\ pin \in Versions
  BY DescriptorFields
<1>2. CASE job[q].schema = {}
  BY <1>2 DEF PinOf, SameClaim
<1>3. CASE job[q].schema # {} /\ source \in AppTables
  <2>1. pin \in Recorded(source)
    BY <1>1, <1>3 DEF PinOf, Recorded
  <2> QED
    BY <1>3, <2>1 DEF PinOf, SameClaim, VersionsStand
<1>4. CASE job[q].schema # {} /\ source \notin AppTables
  BY <1>1, <1>4 DEF PinOf, SameClaim, VersionsStand
<1> QED
  BY <1>2, <1>3, <1>4

LEMMA ResolveKeepsPin ==
  ASSUME TypeOK, NEW r \in Runs, PinOf(r), Resolve(r)
  PROVE  PinOf(r)'
<1> DEFINE source == DescriptorOf[r].source
           pin    == DescriptorOf[r].schema_version
<1>1. job[r] \in Job
  BY DEF TypeOK, ExecutorTypeOK
<1>2. UNCHANGED <<tables, versions>>
  BY DEF Resolve, Advance, Raise, catalogVars
<1>3. CASE AtPin(source, pin)
  <2>1. tables[source][pin] # {}
    BY <1>3 DEF AtPin, Recorded
  <2>2. /\ job'[r].schema = tables[source][pin]
        /\ job'[r].publication = versions[source][pin]
    BY <1>1, <1>3 DEF Resolve, TypeOK, ExecutorTypeOK, Job
  <2> QED
    BY <1>2, <2>1, <2>2 DEF PinOf
<1>4. CASE ~AtPin(source, pin)
  <2>1. SameClaim(r)
    BY <1>1, <1>4 DEF Resolve, Raise, SameClaim, TypeOK, ExecutorTypeOK, Job
  <2> QED
    BY <1>2, <2>1 DEF PinOf, SameClaim
<1> QED
  BY <1>3, <1>4

LEMMA PinInductive == TypeOK /\ SessionInv /\ PinInv /\ [Next]_vars => PinInv'
<1> SUFFICES ASSUME TypeOK, SessionInv, PinInv, [Next]_vars, NEW q \in Runs
             PROVE  PinOf(q)'
  BY DEF PinInv, PinOf
<1>1. PinOf(q) /\ VersionsStand
  BY NextVersionsStand DEF PinInv, PinOf
<1>2. ASSUME NEW r \in Runs, Parse(r) \/ Step(r) \/ Dies(r) \/ Edit(r)
      PROVE  PinOf(q)'
  BY <1>1, <1>2, JobSteps, SameClaimKeepsPin, ResolveKeepsPin
<1>3. CASE UNCHANGED job
  BY <1>1, <1>3, SameClaimKeepsPin DEF SameClaim
<1> QED
  BY <1>2, <1>3 DEF Next, Resting, App, AppShips, AppPublishes, AppLeaves, vars, runVars

LEMMA PinAlways == Spec => []PinInv
<1>1. Init => PinInv
  BY DEF Init, ExecutorInit, NoJob, PinInv
<1>2. TypeOK /\ SessionInv /\ PinInv /\ [Next]_vars => PinInv'
  BY PinInductive
<1> QED
  BY <1>1, <1>2, TypeCorrect, SessionAlways, PTL DEF Spec

\* catalog.py:392-393, "a pin on it is a claim about its shape": from the check
\* of its pin on, what a run enforces on the rows of an application's table is
\* the shape on record for the pinned version, releases or no releases.
THEOREM PinsHold == Spec => []WorksFromThePin
<1>1. PinInv => WorksFromThePin
  BY DEF PinInv, WorksFromThePin
<1> QED
  BY <1>1, PinAlways, PTL

-----------------------------------------------------------------------------
(* What a run claims *)

ClaimOf(q) ==
  \A i \in TerminalsOf(q) : events[q][i].release = job[q].publication

LEMMA ClaimInductive == TypeOK /\ EmissionInv /\ ClaimInv /\ [Next]_vars => ClaimInv'
<1> SUFFICES ASSUME TypeOK, EmissionInv, ClaimInv, [Next]_vars, NEW q \in Runs
             PROVE  ClaimOf(q)'
  BY DEF ClaimInv, ClaimOf, TerminalsOf, Terminal
<1> USE DEF TypeOK, ExecutorTypeOK
<1>1. ClaimOf(q)
  BY DEF ClaimInv, ClaimOf
<1>2. ASSUME UNCHANGED events, SameClaim(q) PROVE ClaimOf(q)'
  BY <1>1, <1>2 DEF ClaimOf, TerminalsOf, Terminal, SameClaim
<1>3. ASSUME NEW r \in Runs, Parse(r) \/ Step(r) \/ Dies(r) \/ Edit(r)
      PROVE  ClaimOf(q)'
  <2>1. CASE q = r /\ Resolve(r)
    <3>1. Len(events[q]) = 0 /\ UNCHANGED events
      BY <2>1 DEF Resolve, Advance, Raise, EmissionInv, Ended
    <3> QED
      BY <3>1 DEF ClaimOf, TerminalsOf
  <2>2. CASE SameClaim(q) /\ Quiet(r)
    BY <1>2, <2>2 DEF Quiet
  <2>3. CASE SameClaim(q) /\ Emits(r) /\ q # r
    <3>1. events'[q] = events[q]
      BY <2>3 DEF Emits, EmitTerminal, EmitFailure, EmitAssertions, Emit
    <3> QED
      BY <1>1, <2>3, <3>1 DEF ClaimOf, TerminalsOf, Terminal, SameClaim
  <2>4. CASE SameClaim(q) /\ Emits(r) /\ q = r
    <3>1. PICK event \in Event :
            /\ Emit(r, event)
            /\ Terminal(event) => event.release = job[r].publication
      <4>1. TerminalEvent(r).release = job[r].publication
        BY DEF TerminalEvent, Reported
      <4>2. FailureEvent(r).release = job[r].publication
        BY DEF FailureEvent
      <4>3. ~Terminal(AssertionEvent(r))
        BY DEF AssertionEvent, Terminal
      <4> QED
        BY <2>4, <4>1, <4>2, <4>3, EventTypes
        DEF Emits, EmitTerminal, EmitFailure, EmitAssertions
    <3>2. /\ events[q] \in Seq(Event)
          /\ events'[q] = Append(events[q], event)
      BY <2>4, <3>1 DEF Emit
    <3>3. \A i \in DOMAIN events'[q] :
            \/ events'[q][i] = event
            \/ i \in DOMAIN events[q] /\ events'[q][i] = events[q][i]
      BY <3>2
    <3> QED
      BY <1>1, <2>4, <3>1, <3>3 DEF ClaimOf, TerminalsOf, SameClaim, Terminal
  <2> QED
    BY <1>3, <2>1, <2>2, <2>3, <2>4, JobSteps, QuietSteps
<1>4. CASE UNCHANGED <<job, events>>
  BY <1>2, <1>4 DEF SameClaim
<1> QED
  BY <1>3, <1>4 DEF Next, Resting, App, AppShips, AppPublishes, AppLeaves, vars, runVars

LEMMA ClaimAlways == Spec => []ClaimInv
<1>1. Init => ClaimInv
  BY DEF Init, ExecutorInit, ClaimInv, TerminalsOf
<1>2. TypeOK /\ EmissionInv /\ ClaimInv /\ [Next]_vars => ClaimInv'
  BY ClaimInductive
<1> QED
  BY <1>1, <1>2, TypeCorrect, EmissionAlways, PTL DEF Spec

\* run.py:50-54.  No event claims a release unless its run resolved its pin,
\* and the release claimed is, then and for ever after, the one the catalog has
\* on record for the version pinned.
THEOREM ClaimsStayOnRecord == Spec => []ClaimsAreOnRecord
<1>1. PinInv /\ ClaimInv => ClaimsAreOnRecord
  BY DEF PinInv, ClaimInv, ClaimsAreOnRecord, ReleaseClaimed
<1> QED
  BY <1>1, PinAlways, ClaimAlways, PTL

-----------------------------------------------------------------------------
(* What is listed and stored *)

\* The stages at which what is listed and stored changes.
LEMMA CatalogSteps ==
  ASSUME NEW r \in Runs, Parse(r) \/ Step(r) \/ Dies(r) \/ Edit(r)
  PROVE  UNCHANGED <<tables, lf_tags, data>> \/ PublishTable(r) \/ Register(r)
           \/ InsertColumn(r) \/ DeleteTags(r) \/ InsertTag(r)
<1> DEFINE Same3 == UNCHANGED <<tables, lf_tags, data>>
<1>1. ASSUME NEW e, Raise(r, e) PROVE Same3
  BY <1>1 DEF Raise, catalogVars
<1>2. ASSUME Escape(r) PROVE Same3
  BY <1>2 DEF Escape
<1>3. ASSUME NEW stage, Advance(r, stage) PROVE Same3
  BY <1>3 DEF Advance, catalogVars
<1>4. CASE Parse(r) \/ Edit(r) \/ Emits(r)
  BY <1>4 DEF Parse, Edit, Emits, EmitTerminal, EmitFailure, EmitAssertions, catalogVars
<1>5. CASE Dies(r) \/ Refused(r) \/ Clears(r)
  BY <1>2, <1>5, ClearingMoves DEF Dies, Refused, catalogVars
<1>6. CASE Resolve(r) \/ RunSteps(r) \/ ResolvePolicy(r) \/ ValidateFrame(r) \/ Prepare(r)
  BY <1>1, <1>2, <1>3, <1>6 DEF Resolve, RunSteps, ResolvePolicy, ValidateFrame, Prepare
<1>7. CASE Read(r)
  BY <1>1, <1>2, <1>3, <1>7 DEF Read, ReadGlueTable, ReadDmsLanding, ReadFrame
<1>8. CASE WriteFiles(r)
  BY <1>1, <1>8 DEF WriteFiles, catalogVars
<1>9. CASE Registering(r)
  BY <1>2, <1>9 DEF Registering, EndRegister
<1> QED
  BY <1>4, <1>5, <1>6, <1>7, <1>8, <1>9 DEF Step, Emits, Clears

\* To a table no application publishes, an application does nothing, nor to a run.
LEMMA AppStays ==
  ASSUME TypeOK, SessionInv, NEW a \in Apps, App(a), NEW t \in Tables \ AppTables
  PROVE  UNCHANGED <<data[t], tables[t], lf_tags[t], runVars>>
<1>1. UNCHANGED runVars
  BY DEF App, AppShips, AppPublishes, AppLeaves
<1>2. CASE AppShips(a)
  <2>1. PICK u \in AppTables, shape \in Shapes, release \in Releases : Ship(a, u, shape, release)
    BY <1>2, RuntimeAssumption DEF AppShips
  <2> QED
    BY <1>1, <2>1 DEF Ship, TypeOK, CatalogTypeOK
<1>3. ASSUME NEW v \in Versions, Publish(a, v)
      PROVE  UNCHANGED <<data[t], tables[t], lf_tags[t]>>
  <2>1. session.table \in AppTables
    BY <1>3, CatalogAssumption DEF Publish, SessionInv
  <2> QED
    BY <1>3, <2>1 DEF Publish, TypeOK, CatalogTypeOK
<1>4. CASE AppLeaves(a)
  BY <1>1, <1>4 DEF AppLeaves, Disconnect
<1> QED
  BY <1>1, <1>2, <1>3, <1>4 DEF App, AppPublishes

-----------------------------------------------------------------------------
(* One name per dataset *)

\* The stages at which it is decided where a run's rows go.
Bound == {"clear", "unlink", "write", "create", "register", "registering", "emit"}

\* Governance's tag of an application's table stays as it was seeded.
LabelInv == \A t \in AppTables : lf_tags[t] = {[key |-> "domain", value |-> OwnerOf[t]]}

\* What a run may call a dataset: its source by that tag, what it writes by its
\* own domain.
NamedBy(q, set) ==
  \/ set.name = DescriptorOf[q].source /\ set.namespace = OwnerOf[DescriptorOf[q].source]
  \/ set.name \in WrittenBy(q) /\ set.namespace = DescriptorOf[q].domain

OwnerInv(q) == pc[q] \in Bound => job[q].owner = OwnerOf[DescriptorOf[q].source]

NamingOf(q) ==
  /\ OwnerInv(q)
  /\ \A i \in DOMAIN events[q] :
       \A set \in events[q][i].inputs \cup events[q][i].outputs : NamedBy(q, set)

LEMMA LabelInductive == TypeOK /\ SessionInv /\ LabelInv /\ [Next]_vars => LabelInv'
<1> SUFFICES ASSUME TypeOK, SessionInv, LabelInv, [Next]_vars PROVE LabelInv'
  OBVIOUS
<1>1. CASE UNCHANGED lf_tags
  BY <1>1 DEF LabelInv
<1>2. ASSUME NEW r \in Runs, DeleteTags(r) \/ InsertTag(r) PROVE LabelInv'
  <2>1. session.table \notin AppTables
    BY <1>2, CatalogAssumption DEF DeleteTags, InsertTag, Holds, SessionInv
  <2>2. \A t \in AppTables : lf_tags'[t] = lf_tags[t]
    BY <1>2, <2>1, CatalogAssumption DEF DeleteTags, InsertTag, TypeOK, CatalogTypeOK
  <2> QED
    BY <2>2 DEF LabelInv
<1>3. ASSUME NEW r \in Runs, Parse(r) \/ Step(r) \/ Dies(r) \/ Edit(r) PROVE LabelInv'
  BY <1>1, <1>2, <1>3, CatalogSteps
  DEF PublishTable, CreateTable, Register, BeginRegister, InsertColumn
<1>4. ASSUME NEW a \in Apps, App(a) PROVE LabelInv'
  BY <1>1, <1>4 DEF App, AppShips, AppPublishes, AppLeaves, Ship, Publish, Disconnect
<1> QED
  BY <1>1, <1>3, <1>4 DEF Next, Resting, vars, catalogVars

LEMMA LabelAlways == Spec => []LabelInv
<1>1. Init => LabelInv
  BY CatalogAssumption DEF Init, CatalogInit, LabelInv
<1> QED
  BY <1>1, LabelInductive, TypeCorrect, SessionAlways, PTL DEF Spec

LEMMA OwnerOfLabelled ==
  ASSUME LabelInv, NEW t \in AppTables, NEW reader
  PROVE  Owner(t, reader) = OwnerOf[t]
<1> DEFINE tag == [key |-> "domain", value |-> OwnerOf[t]]
<1>1. lf_tags[t] = {tag} /\ tag.key = "domain" /\ tag.value = OwnerOf[t]
  BY DEF LabelInv
<1> HIDE DEF tag
<1>2. (CHOOSE g \in lf_tags[t] : g.key = "domain") = tag
  BY <1>1
<1> QED
  BY <1>1, <1>2 DEF Owner

\* The owner of its source, which a run reads in Prepare and keeps from then on.
LEMMA OwnerAsRead ==
  ASSUME TypeOK, NEW q \in Runs, Prepare(q), pc'[q] \in Bound
  PROVE  job'[q].owner = Owner(DescriptorOf[q].source, DescriptorOf[q].domain)
<1> USE DEF TypeOK, ExecutorTypeOK, Goto
<1> DEFINE owner == Owner(DescriptorOf[q].source, DescriptorOf[q].domain)
           tags  == lf_tags[DescriptorOf[q].source]
           aside == job[q].result = "failed" /\ DescriptorOf[q].on_failure = "quarantine"
<1>1. \A e : ~Raise(q, e)
  BY DEF Raise, Bound
<1>2. job' = [job EXCEPT ![q].owner = owner, ![q].source_tags = tags, ![q].side = aside]
  BY <1>1 DEF Prepare
<1> HIDE DEF owner, tags, aside
<1>3. job[q] \in Job
  OBVIOUS
<1>4. job'[q].owner = owner
  BY <1>2, <1>3 DEF Job
<1> QED
  BY <1>4 DEF owner

LEMMA OwnerKept ==
  ASSUME TypeOK, NEW q \in Runs, Parse(q) \/ Step(q) \/ Dies(q) \/ Edit(q),
         pc'[q] \in Bound, ~Prepare(q)
  PROVE  pc[q] \in Bound /\ job'[q].owner = job[q].owner
<1> USE DEF TypeOK, ExecutorTypeOK, Goto
<1>0. CASE Clears(q)
  BY <1>0, ClearingMoves, ClearingKeeps DEF Escape, Bound
<1>1. CASE WriteFiles(q) \/ PublishTable(q) \/ Register(q)
  BY <1>1 DEF WriteFiles, PublishTable, Register, Raise, Bound
<1>2. CASE Registering(q)
  BY <1>2 DEF Registering, Escape, runVars, Bound
<1>3. CASE Edit(q)
  BY <1>3 DEF Edit
<1>4. ~(\/ Parse(q) \/ Dies(q) \/ Refused(q) \/ Resolve(q) \/ Read(q) \/ RunSteps(q)
        \/ ResolvePolicy(q) \/ ValidateFrame(q) \/ Emits(q))
  BY DEF Parse, Dies, Refused, Resolve, Read, ReadGlueTable, ReadDmsLanding, ReadFrame, RunSteps,
     ResolvePolicy, ValidateFrame, Emits, EmitTerminal, EmitFailure, EmitAssertions, Raise,
     Escape, Advance, Bound
<1> QED
  BY <1>0, <1>1, <1>2, <1>3, <1>4 DEF Step, Emits, Clears

\* What an emission names: the source, by the owner read, when it reports an
\* output; what the run writes, by its own domain.
EmitsSource(q, set) ==
  /\ pc[q] = "emit"
  /\ set.name = DescriptorOf[q].source
  /\ set.namespace = job[q].owner

EmitsOutput(q, set) ==
  /\ pc[q] \in {"emit", "assert"}
  /\ set.name = Table(q)
  /\ set.namespace = DescriptorOf[q].domain

LEMMA EmittedDatasets ==
  ASSUME TypeOK, NEW q \in Runs, Emits(q)
  PROVE  \E event :
           /\ \A i \in DOMAIN events'[q] :
                \/ events'[q][i] = event
                \/ i \in DOMAIN events[q] /\ events'[q][i] = events[q][i]
           /\ \A set \in event.inputs \cup event.outputs :
                EmitsSource(q, set) \/ EmitsOutput(q, set)
<1>1. ASSUME NEW event, Emit(q, event)
      PROVE  \A i \in DOMAIN events'[q] :
               \/ events'[q][i] = event
               \/ i \in DOMAIN events[q] /\ events'[q][i] = events[q][i]
  <2>1. events[q] \in Seq(Event) /\ events'[q] = Append(events[q], event)
    BY <1>1 DEF Emit, TypeOK, ExecutorTypeOK
  <2>2. /\ DOMAIN events'[q] = 1 .. Len(events[q]) + 1
        /\ DOMAIN events[q] = 1 .. Len(events[q])
        /\ Len(events[q]) \in Nat
        /\ \A i \in 1 .. Len(events[q]) + 1 :
             events'[q][i] = IF i = Len(events[q]) + 1 THEN event ELSE events[q][i]
    BY <2>1
  <2> QED
    BY <2>2
<1>2. Output(q).name = Table(q) /\ Output(q).namespace = DescriptorOf[q].domain
  BY DEF Output
<1>3. CASE EmitTerminal(q)
  <2> DEFINE event == TerminalEvent(q)
             source == [namespace |-> job[q].owner, name |-> DescriptorOf[q].source,
                        tags |-> job[q].source_tags]
  <2>1. event.inputs = {source} /\ event.outputs = {Output(q)}
    BY DEF TerminalEvent, Reported
  <2>2. EmitsSource(q, source) /\ EmitsOutput(q, Output(q))
    BY <1>2, <1>3 DEF EmitTerminal, EmitsSource, EmitsOutput
  <2> HIDE DEF event, source
  <2>3. Emit(q, event)
    BY <1>3 DEF EmitTerminal, event
  <2> QED
    BY <1>1, <2>1, <2>2, <2>3
<1>4. CASE EmitFailure(q)
  <2> DEFINE event == FailureEvent(q)
  <2>1. event.inputs = {} /\ event.outputs = {}
    BY DEF FailureEvent
  <2> HIDE DEF event
  <2>2. Emit(q, event)
    BY <1>4 DEF EmitFailure, event
  <2> QED
    BY <1>1, <2>1, <2>2
<1>5. CASE EmitAssertions(q)
  <2> DEFINE event == AssertionEvent(q)
             tested == [Output(q) EXCEPT !.tags = IF Blocked(q) THEN {} ELSE @]
  <2>1. event.inputs = {tested} /\ event.outputs = {}
    BY DEF AssertionEvent
  <2>2. tested.name = Output(q).name /\ tested.namespace = Output(q).namespace
    BY DEF Output
  <2>3. EmitsOutput(q, tested)
    BY <1>2, <1>5, <2>2 DEF EmitAssertions, EmitsOutput
  <2> HIDE DEF event, tested
  <2>4. Emit(q, event)
    BY <1>5 DEF EmitAssertions, event
  <2> QED
    BY <1>1, <2>1, <2>3, <2>4
<1> QED
  BY <1>3, <1>4, <1>5 DEF Emits

LEMMA OwnNaming ==
  ASSUME TypeOK, LabelInv, NEW q \in Runs, DescriptorOf[q].source \in AppTables,
         Parse(q) \/ Step(q) \/ Dies(q) \/ Edit(q), NamingOf(q)
  PROVE  NamingOf(q)'
<1>1. OwnerInv(q)'
  BY OwnerAsRead, OwnerKept, OwnerOfLabelled DEF NamingOf, OwnerInv
<1>2. CASE Quiet(q)
  BY <1>1, <1>2 DEF Quiet, NamingOf, NamedBy, WrittenBy
<1>3. CASE Emits(q)
  <2>1. PICK event :
          /\ \A i \in DOMAIN events'[q] :
               \/ events'[q][i] = event
               \/ i \in DOMAIN events[q] /\ events'[q][i] = events[q][i]
          /\ \A set \in event.inputs \cup event.outputs :
               EmitsSource(q, set) \/ EmitsOutput(q, set)
    BY <1>3, EmittedDatasets
  <2>2. \A set \in event.inputs \cup event.outputs : NamedBy(q, set)
    BY <2>1 DEF EmitsSource, EmitsOutput, NamingOf, OwnerInv, Bound, NamedBy, Table, WrittenBy
  <2>3. \A i \in DOMAIN events'[q] :
          \A set \in events'[q][i].inputs \cup events'[q][i].outputs : NamedBy(q, set)
    BY <2>1, <2>2 DEF NamingOf
  <2> QED
    BY <1>1, <2>3 DEF NamingOf, NamedBy, WrittenBy
<1> QED
  BY <1>2, <1>3, QuietSteps

LEMMA NamingInductive ==
  ASSUME TypeOK, LabelInv, NEW q \in Runs, DescriptorOf[q].source \in AppTables,
         NamingOf(q), [Next]_vars
  PROVE  NamingOf(q)'
<1>1. ASSUME pc'[q] = pc[q], job'[q] = job[q], events'[q] = events[q]
      PROVE  NamingOf(q)'
  BY <1>1 DEF NamingOf, OwnerInv, NamedBy, WrittenBy
<1>2. ASSUME NEW r \in Runs, Parse(r) \/ Step(r) \/ Dies(r) \/ Edit(r)
      PROVE  NamingOf(q)'
  BY <1>1, <1>2, OwnNaming, OthersStay, OthersSaySame
<1>3. ASSUME NEW a \in Apps, App(a)
      PROVE  NamingOf(q)'
  BY <1>1, <1>3 DEF App, AppShips, AppPublishes, AppLeaves, runVars
<1> QED
  BY <1>1, <1>2, <1>3 DEF Next, Resting, vars, runVars

\* emit.py:462-466.  Where every source is an application's table, and runs that
\* write one table have one domain, whatever the runs and the releases do in the
\* meantime: two events that name one table give it one namespace.
THEOREM OneNamespaceAlways ==
  ASSUME \A q \in Runs : DescriptorOf[q].source \in AppTables,
         \A q, r \in Runs :
           WrittenBy(q) \cap WrittenBy(r) # {} => DescriptorOf[q].domain = DescriptorOf[r].domain
  PROVE  Spec => []OneDatasetOneNamespace
<1> DEFINE N == \A q \in Runs : NamingOf(q)
<1>1. Init => N
  BY DEF Init, ExecutorInit, NamingOf, OwnerInv, Bound
<1>2. TypeOK /\ LabelInv /\ N /\ [Next]_vars => N'
  BY NamingInductive
<1>3. N => OneDatasetOneNamespace
  <2> SUFFICES ASSUME N, NEW q \in Runs, NEW r \in Runs,
                      NEW c \in DatasetsOf(q), NEW d \in DatasetsOf(r), c.name = d.name
               PROVE  c.namespace = d.namespace
    BY DEF OneDatasetOneNamespace
  <2>1. NamedBy(q, c) /\ NamedBy(r, d)
    BY DEF DatasetsOf, NamingOf
  <2>2. \A s \in Runs : WrittenBy(s) \cap AppTables = {}
    BY TargetsAssumption DEF WrittenBy
  <2> QED
    BY <2>1, <2>2 DEF NamedBy
<1> HIDE DEF N
<1> QED
  BY <1>1, <1>2, <1>3, TypeCorrect, LabelAlways, PTL DEF Spec
=============================================================================
