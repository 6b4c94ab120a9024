-------------------------- MODULE PlacementProofs ---------------------------
(***************************************************************************)
(* Where a run's rows may be found, by how it ended: one that reports an   *)
(* error has left none, in any table or under any location; one that       *)
(* reports an output has left all of it there, and what is listed of a     *)
(* product is what its rows are.  The last two are of runs kept apart.     *)
(***************************************************************************)
EXTENDS ReleaseProofs, FiniteSetTheorems

\* The stages of a run that wrote, and those of one that met no error so far.
Placed == {"create", "register", "registering", "emit", "assert", "returned", "escaped"}

Clean  == Stages \ ({"fail", "assert"} \cup Ended)

OwnRows(q)  == \E t \in Tables : data[t] # None /\ data[t].by = q
OwnFiles(q) == \E l \in Locations : q \in files[l]

\* Rows are a run's own only from its write on, and then it has no error: nor
\* does any run that is still on its way.
PlacementOf(q) ==
  /\ OwnRows(q) \/ OwnFiles(q) => pc[q] \in Placed /\ job[q].error = None
  /\ pc[q] \in Clean => job[q].error = None

-----------------------------------------------------------------------------
(* What a run's step does *)

\* To its own stage and error.
Moves(r) ==
  \/ pc'[r] = "fail" /\ pc[r] \in Clean \ Placed
  \/ /\ job'[r].error = job[r].error
     /\ \/ pc'[r] = pc[r]
        \/ pc'[r] = "escaped"
        \/ pc[r] \in Clean \ Placed /\ pc'[r] \in Clean
        \/ pc[r] \in Clean \cap Placed /\ pc'[r] \in Placed
        \/ pc[r] = "fail" /\ pc'[r] \in {"assert", "raised"}
        \/ pc[r] = "assert" /\ pc'[r] = (IF Blocked(r) THEN "raised" ELSE "returned")

LEMMA StepMoves ==
  ASSUME TypeOK, NEW r \in Runs, Parse(r) \/ Step(r) \/ Dies(r) \/ Edit(r)
  PROVE  Moves(r)
<1> USE DEF TypeOK, ExecutorTypeOK, Goto
<1>0. job[r] \in Job
  OBVIOUS
<1>1. ASSUME NEW e, Raise(r, e), pc[r] \in Clean \ Placed PROVE Moves(r)
  BY <1>1 DEF Raise, Moves
<1>2. ASSUME Escape(r) PROVE Moves(r)
  BY <1>2 DEF Escape, Moves
<1>3. ASSUME NEW stage \in Clean, Advance(r, stage), pc[r] \in Clean \ Placed,
             job'[r].error = job[r].error
      PROVE  Moves(r)
  BY <1>3 DEF Advance, Moves
<1>4. CASE Parse(r)
  BY <1>0, <1>4 DEF Parse, Moves, Job, Clean, Placed, Stages, Ended
<1>5. CASE Dies(r) \/ Refused(r)
  BY <1>2, <1>5 DEF Dies, Refused
<1>6. CASE Edit(r)
  BY <1>6 DEF Edit, Moves
<1>7. CASE Resolve(r)
  <2>1. pc[r] \in Clean \ Placed
    BY <1>7 DEF Resolve, Clean, Placed, Stages, Ended
  <2>2. CASE Raise(r, "SchemaDrift")
    BY <1>1, <2>1, <2>2
  <2>3. CASE Advance(r, "read") /\ job'[r].error = job[r].error
    BY <1>3, <2>1, <2>3 DEF Clean, Stages, Ended
  <2>4. CASE Advance(r, "read") /\ ~(job'[r].error = job[r].error)
    BY <1>0, <1>7, <2>4 DEF Resolve, Raise, Advance, Job
  <2> QED
    BY <1>7, <2>2, <2>3, <2>4 DEF Resolve
<1>8. CASE Read(r)
  <2>1. CASE ReadFrame(r)
    <3>1. pc[r] \in Clean \ Placed
      BY <1>8 DEF Read, Clean, Placed, Stages, Ended
    <3>2. CASE Raise(r, "SchemaDrift")
      BY <1>1, <3>1, <3>2
    <3>3. CASE ~Raise(r, "SchemaDrift")
      <4>1. Advance(r, "steps") /\ job'[r].error = job[r].error
        BY <1>0, <2>1, <3>3 DEF ReadFrame, Job
      <4> QED
        BY <1>3, <3>1, <4>1 DEF Clean, Stages, Ended
    <3> QED
      BY <3>2, <3>3
  <2> QED
    BY <1>1, <1>2, <1>8, <2>1 DEF Read, ReadGlueTable, ReadDmsLanding, Clean, Placed, Stages, Ended
<1>9. CASE RunSteps(r) \/ ResolvePolicy(r)
  BY <1>0, <1>1, <1>2, <1>3, <1>9 DEF RunSteps, ResolvePolicy, Job, Clean, Placed, Stages, Ended
<1>10. CASE ValidateFrame(r)
  <2>1. pc[r] \in Clean \ Placed
    BY <1>10 DEF ValidateFrame, Clean, Placed, Stages, Ended
  <2>2. CASE ~Escape(r)
    <3>1. Advance(r, "prepare") /\ job'[r].error = job[r].error
      BY <1>0, <1>10, <2>2 DEF ValidateFrame, Job
    <3> QED
      BY <1>3, <2>1, <3>1 DEF Clean, Stages, Ended
  <2> QED
    BY <1>2, <2>2
<1>11. CASE Prepare(r)
  <2>1. pc[r] \in Clean \ Placed
    BY <1>11 DEF Prepare, Clean, Placed, Stages, Ended
  <2>2. CASE Raise(r, "UnknownKind") \/ Raise(r, "PublishBlocked")
    BY <1>1, <2>1, <2>2
  <2>3. CASE ~(Raise(r, "UnknownKind") \/ Raise(r, "PublishBlocked"))
    <3>1. Advance(r, "clear") /\ job'[r].error = job[r].error
      BY <1>0, <1>11, <2>3 DEF Prepare, Job
    <3> QED
      BY <1>3, <2>1, <3>1 DEF Clean, Stages, Ended
  <2> QED
    BY <2>2, <2>3
<1>12. CASE WriteFiles(r)
  BY <1>1, <1>12 DEF WriteFiles, Moves, Clean, Placed, Stages, Ended
<1>13. CASE PublishTable(r) \/ Register(r)
  BY <1>13 DEF PublishTable, Register, Moves, Clean, Placed, Stages, Ended
<1>14. CASE Registering(r)
  BY <1>2, <1>14 DEF Registering, runVars, Moves, Clean, Placed, Stages, Ended
<1>15. CASE Emits(r)
  BY <1>15 DEF Emits, EmitTerminal, EmitFailure, EmitAssertions, Moves, Clean, Placed, Stages, Ended
<1>16. CASE Clears(r)
  BY <1>2, <1>16, ClearingMoves, ClearingKeeps DEF Moves, Clean, Placed, Stages, Ended
<1> QED
  BY <1>4, <1>5, <1>6, <1>7, <1>8, <1>9, <1>10, <1>11, <1>12, <1>13, <1>14, <1>15, <1>16
  DEF Step, Emits, Clears

\* The stages at which files change.
LEMMA FileSteps ==
  ASSUME NEW r \in Runs, Parse(r) \/ Step(r) \/ Dies(r) \/ Edit(r)
  PROVE  UNCHANGED files \/ Clears(r) \/ WriteFiles(r)
<1>1. ASSUME NEW e, Raise(r, e) PROVE UNCHANGED files
  BY <1>1 DEF Raise
<1>2. ASSUME Escape(r) PROVE UNCHANGED files
  BY <1>2 DEF Escape
<1>3. ASSUME NEW stage, Advance(r, stage) PROVE UNCHANGED files
  BY <1>3 DEF Advance
<1>4. CASE Parse(r) \/ Edit(r) \/ PublishTable(r) \/ Register(r) \/ Emits(r)
  BY <1>4 DEF Parse, Edit, PublishTable, Register, Emits, EmitTerminal, EmitFailure, EmitAssertions
<1>5. CASE Dies(r) \/ Refused(r)
  BY <1>2, <1>5 DEF Dies, Refused
<1>6. CASE Resolve(r) \/ RunSteps(r) \/ ResolvePolicy(r) \/ ValidateFrame(r) \/ Prepare(r)
  BY <1>1, <1>2, <1>3, <1>6 DEF Resolve, RunSteps, ResolvePolicy, ValidateFrame, Prepare
<1>7. CASE Read(r)
  BY <1>1, <1>2, <1>3, <1>7 DEF Read, ReadGlueTable, ReadDmsLanding, ReadFrame
<1>8. CASE Registering(r)
  BY <1>2, <1>8 DEF Registering, runVars
<1> QED
  BY <1>4, <1>5, <1>6, <1>7, <1>8 DEF Step, Emits, Clears

\* To the warehouse: rows and files it adds are its own, from the stage before
\* them on.
LEMMA StepPlaces ==
  ASSUME TypeOK, NEW r \in Runs, Parse(r) \/ Step(r) \/ Dies(r) \/ Edit(r),
         NEW q \in Runs
  PROVE  /\ OwnRows(q)' => OwnRows(q) \/ (q = r /\ PublishTable(r))
         /\ OwnFiles(q)' => OwnFiles(q) \/ (q = r /\ WriteFiles(r) /\ pc'[r] = "create")
<1>1. OwnRows(q)' => OwnRows(q) \/ (q = r /\ PublishTable(r))
  <2>1. CASE UNCHANGED data
    BY <2>1 DEF OwnRows
  <2>2. CASE PublishTable(r)
    <3> SUFFICES ASSUME NEW t \in Tables, data'[t] # None, data'[t].by = q, q # r
                 PROVE  OwnRows(q)
      BY <2>2 DEF OwnRows
    <3>1. data'[t] = data[t]
      BY <2>2 DEF PublishTable, CreateTable, TypeOK, CatalogTypeOK
    <3> QED
      BY <3>1 DEF OwnRows
  <2>3. UNCHANGED data \/ PublishTable(r)
    <3>1. ASSUME NEW e, Raise(r, e) PROVE UNCHANGED data
      BY <3>1 DEF Raise, catalogVars
    <3>2. ASSUME Escape(r) PROVE UNCHANGED data
      BY <3>2 DEF Escape
    <3>3. ASSUME NEW stage, Advance(r, stage) PROVE UNCHANGED data
      BY <3>3 DEF Advance, catalogVars
    <3>4. CASE Parse(r) \/ Edit(r) \/ Emits(r)
      BY <3>4 DEF Parse, Edit, Emits, EmitTerminal, EmitFailure, EmitAssertions,
         catalogVars
    <3>5. CASE Dies(r) \/ Refused(r) \/ Clears(r)
      BY <3>2, <3>5, ClearingMoves DEF Dies, Refused, catalogVars
    <3>6. CASE Resolve(r) \/ RunSteps(r) \/ ResolvePolicy(r) \/ ValidateFrame(r) \/ Prepare(r)
      BY <3>1, <3>2, <3>3, <3>6 DEF Resolve, RunSteps, ResolvePolicy, ValidateFrame, Prepare
    <3>7. CASE Read(r)
      BY <3>1, <3>2, <3>3, <3>7 DEF Read, ReadGlueTable, ReadDmsLanding, ReadFrame
    <3>8. CASE WriteFiles(r) \/ Register(r)
      BY <3>1, <3>8 DEF WriteFiles, Register, BeginRegister, catalogVars
    <3>9. CASE Registering(r)
      BY <3>2, <3>9 DEF Registering, InsertColumn, DeleteTags, InsertTag, EndRegister
    <3> QED
      BY <3>4, <3>5, <3>6, <3>7, <3>8, <3>9 DEF Step, Emits, Clears
  <2> QED
    BY <2>1, <2>2, <2>3
<1>2. OwnFiles(q)' => OwnFiles(q) \/ (q = r /\ WriteFiles(r) /\ pc'[r] = "create")
  <2>1. CASE UNCHANGED files
    BY <2>1 DEF OwnFiles
  <2>2. CASE Clears(r)
    BY <2>2, ClearingKeeps DEF OwnFiles
  <2>3. CASE WriteFiles(r) /\ ~UNCHANGED files
    <3>1. pc'[r] = "create"
      BY <2>3 DEF WriteFiles, Raise, Goto, TypeOK, ExecutorTypeOK
    <3>2. PICK kept \in SUBSET files[Location(r)] :
            files' = [files EXCEPT ![Location(r)] = kept \cup {r}]
      BY <2>3 DEF WriteFiles, Raise
    <3>3. ASSUME NEW l \in Locations, q \in files'[l], q # r PROVE q \in files[l]
      BY <3>2, <3>3, TargetType DEF TypeOK, ExecutorTypeOK
    <3> QED
      BY <2>3, <3>1, <3>3 DEF OwnFiles
  <2> QED
    BY <2>1, <2>2, <2>3, FileSteps
<1> QED
  BY <1>1, <1>2

LEMMA AppPlaces ==
  ASSUME TypeOK, NEW a \in Apps, App(a), NEW q \in Runs, OwnRows(q)'
  PROVE  OwnRows(q)
<1>1. CASE UNCHANGED data
  BY <1>1 DEF OwnRows
<1>2. CASE AppShips(a)
  <2>1. PICK t \in Tables, shape \in Shapes, release \in Releases : Ship(a, t, shape, release)
    BY <1>2, RuntimeAssumption, CatalogAssumption DEF AppShips
  <2>2. PICK u \in Tables : data'[u] # None /\ data'[u].by = q
    BY DEF OwnRows
  <2>3. q # release
    BY CatalogAssumption
  <2>4. data'[u] = data[u]
    BY <2>1, <2>2, <2>3 DEF Ship, TypeOK, CatalogTypeOK
  <2> QED
    BY <2>2, <2>4 DEF OwnRows
<1> QED
  BY <1>1, <1>2 DEF App, AppPublishes, AppLeaves, Publish, Disconnect

-----------------------------------------------------------------------------
(* Failed runs leave nothing *)

LEMMA PlacementInductive ==
  ASSUME TypeOK, NEW q \in Runs, PlacementOf(q), [Next]_vars
  PROVE  PlacementOf(q)'
<1>1. ASSUME pc'[q] = pc[q], job'[q] = job[q],
             OwnRows(q)' => OwnRows(q), OwnFiles(q)' => OwnFiles(q)
      PROVE  PlacementOf(q)'
  BY <1>1 DEF PlacementOf
<1>2. ASSUME NEW r \in Runs, Parse(r) \/ Step(r) \/ Dies(r) \/ Edit(r)
      PROVE  PlacementOf(q)'
  <2>1. CASE q # r
    BY <1>1, <1>2, <2>1, OthersStay, StepPlaces
  <2>2. CASE q = r
    <3>1. Moves(q)
      BY <1>2, <2>2, StepMoves
    <3>2. pc'[q] \in Stages
      BY <1>2, NextType DEF TypeOK, ExecutorTypeOK
    <3>3. pc'[q] \in Clean => job'[q].error = None
      BY <3>1, <3>2 DEF Moves, PlacementOf, Clean, Placed, Stages, Ended
    <3>4. ASSUME OwnRows(q) \/ OwnFiles(q)
          PROVE  pc'[q] \in Placed /\ job'[q].error = None
      <4>1. pc[q] \in Placed /\ job[q].error = None /\ ~Blocked(q)
        BY <3>4, ExecutorAssumption DEF PlacementOf, Blocked, Errors
      <4> QED
        BY <3>1, <4>1 DEF Moves, Clean, Placed, Stages, Ended
    <3>5. ASSUME (PublishTable(q) \/ (WriteFiles(q) /\ pc'[q] = "create"))
          PROVE  pc'[q] \in Placed /\ job'[q].error = None
      BY <3>5 DEF PublishTable, WriteFiles, Raise, Goto, PlacementOf, Clean, Placed, Stages, Ended,
         TypeOK, ExecutorTypeOK
    <3> QED
      BY <1>2, <2>2, <3>3, <3>4, <3>5, StepPlaces DEF PlacementOf
  <2> QED
    BY <2>1, <2>2
<1>3. ASSUME NEW a \in Apps, App(a)
      PROVE  PlacementOf(q)'
  BY <1>1, <1>3, AppPlaces DEF App, AppShips, AppPublishes, AppLeaves, runVars, OwnFiles
<1>4. CASE UNCHANGED vars
  BY <1>1, <1>4 DEF vars, catalogVars, runVars, OwnRows, OwnFiles
<1> QED
  BY <1>2, <1>3, <1>4 DEF Next, Resting

LEMMA PlacementAlways == Spec => [](\A q \in Runs : PlacementOf(q))
<1>1. Init => \A q \in Runs : PlacementOf(q)
  BY CatalogAssumption, ExecutorAssumption
  DEF Init, CatalogInit, ExecutorInit, NoJob, PlacementOf, OwnRows, OwnFiles, Clean, Ended
<1>2. TypeOK /\ (\A q \in Runs : PlacementOf(q)) /\ [Next]_vars =>
        (\A q \in Runs : PlacementOf(q))'
  BY PlacementInductive
<1> QED
  BY <1>1, <1>2, TypeCorrect, PTL DEF Spec

\* emit.py:462.  A run that reports an error, and so no output, has left no row
\* of its own in a table and no file under a location, whichever step failed and
\* whoever ran beside it.
THEOREM FailuresLeaveNothing == Spec => []FailedRunsLeaveNothing
<1>1. (\A q \in Runs : PlacementOf(q)) => FailedRunsLeaveNothing
  BY DEF PlacementOf, OwnRows, OwnFiles, Placed, FailedRunsLeaveNothing
<1> QED
  BY <1>1, PlacementAlways, PTL

-----------------------------------------------------------------------------
(* Whose session it is *)

\* A run holds the catalog for the registration of its own table.
HeldOf(q) ==
  session # None /\ session.holder = q => pc[q] = "registering" /\ session.table = Table(q)

LEMMA SessionSteps ==
  ASSUME NEW r \in Runs, Parse(r) \/ Step(r) \/ Dies(r) \/ Edit(r)
  PROVE  UNCHANGED session \/ Escape(r) \/ Register(r) \/ Registering(r)
<1>1. ASSUME NEW e, Raise(r, e) PROVE UNCHANGED session
  BY <1>1 DEF Raise, catalogVars
<1>2. ASSUME NEW stage, Advance(r, stage) PROVE UNCHANGED session
  BY <1>2 DEF Advance, catalogVars
<1>3. CASE Parse(r) \/ Edit(r) \/ Emits(r) \/ PublishTable(r)
  BY <1>3 DEF Parse, Edit, Emits, EmitTerminal, EmitFailure, EmitAssertions,
     PublishTable, CreateTable, catalogVars
<1>4. CASE Dies(r) \/ Refused(r) \/ Clears(r)
  BY <1>4, ClearingMoves DEF Dies, Refused, catalogVars
<1>5. CASE Resolve(r) \/ RunSteps(r) \/ ResolvePolicy(r) \/ ValidateFrame(r) \/ Prepare(r)
  BY <1>1, <1>2, <1>5 DEF Resolve, RunSteps, ResolvePolicy, ValidateFrame, Prepare
<1>6. CASE Read(r)
  BY <1>1, <1>2, <1>6 DEF Read, ReadGlueTable, ReadDmsLanding, ReadFrame
<1>7. CASE WriteFiles(r)
  BY <1>1, <1>7 DEF WriteFiles, catalogVars
<1> QED
  BY <1>3, <1>4, <1>5, <1>6, <1>7 DEF Step, Emits, Clears

LEMMA HeldInductive ==
  ASSUME TypeOK, NEW q \in Runs, HeldOf(q), [Next]_vars
  PROVE  HeldOf(q)'
<1>1. ASSUME pc'[q] = pc[q], job'[q] = job[q], session' \in {None, session}
      PROVE  HeldOf(q)'
  BY <1>1 DEF HeldOf, Table
<1>2. ASSUME session' # None => session'.holder # q PROVE HeldOf(q)'
  BY <1>2 DEF HeldOf
<1>3. ASSUME NEW r \in Runs, InsertColumn(r) \/ DeleteTags(r) \/ InsertTag(r)
      PROVE  session'.holder = session.holder /\ session'.table = session.table /\ session # None
  <2>1. session \in Session
    BY <1>3 DEF InsertColumn, DeleteTags, InsertTag, Holds, TypeOK, CatalogTypeOK
  <2> QED
    BY <1>3, <2>1 DEF InsertColumn, DeleteTags, InsertTag, Holds, Session
<1>4. ASSUME NEW r \in Runs, Parse(r) \/ Step(r) \/ Dies(r) \/ Edit(r), q # r
      PROVE  HeldOf(q)'
  <2>1. pc'[q] = pc[q] /\ job'[q] = job[q]
    BY <1>4, OthersStay
  <2>2. CASE Register(r)
    BY <1>2, <1>4, <2>2 DEF Register, BeginRegister
  <2>3. CASE Registering(r) /\ ~Escape(r)
    <3>1. CASE InsertColumn(r) \/ DeleteTags(r) \/ InsertTag(r)
      BY <1>2, <1>3, <1>4, <3>1 DEF InsertColumn, DeleteTags, InsertTag, Holds
    <3> QED
      BY <1>2, <2>3, <3>1 DEF Registering, EndRegister
  <2>4. CASE UNCHANGED session \/ Escape(r)
    BY <1>1, <2>1, <2>4 DEF Escape
  <2> QED
    BY <1>4, <2>2, <2>3, <2>4, SessionSteps
<1>5. ASSUME Parse(q) \/ Step(q) \/ Dies(q) \/ Edit(q)
      PROVE  HeldOf(q)'
  <2>1. CASE Escape(q)
    BY <1>2, <2>1 DEF Escape
  <2>2. CASE Register(q)
    BY <2>2 DEF Register, BeginRegister, Goto, HeldOf, Table, TypeOK, ExecutorTypeOK
  <2>3. CASE Registering(q) /\ ~Escape(q)
    BY <1>1, <1>3, <2>3 DEF Registering, EndRegister, runVars, HeldOf, Table
  <2>4. CASE Edit(q)
    BY <1>1, <2>4 DEF Edit, catalogVars
  <2>5. CASE UNCHANGED session /\ pc[q] # "registering"
    BY <2>5, <1>2 DEF HeldOf
  <2>6. CASE pc[q] = "registering" /\ ~Escape(q) /\ ~Edit(q) /\ ~Registering(q)
    BY <1>5, <2>6 DEF Step, Dies, Parse, Resolve, Read, RunSteps, ResolvePolicy, ValidateFrame,
       Prepare, ListStale, UnlinkStale, WriteFiles, PublishTable, Register, EmitTerminal, EmitFailure,
       EmitAssertions, Refused
  <2> QED
    BY <1>5, <2>1, <2>2, <2>3, <2>4, <2>5, <2>6, SessionSteps
<1>6. ASSUME NEW a \in Apps, App(a)
      PROVE  HeldOf(q)'
  <2>1. CASE AppShips(a)
    BY <1>2, <2>1, CatalogAssumption DEF AppShips, Ship
  <2>2. CASE AppPublishes(a) \/ AppLeaves(a)
    BY <1>2, <2>2 DEF AppPublishes, AppLeaves, Publish, Disconnect
  <2> QED
    BY <1>6, <2>1, <2>2 DEF App
<1> QED
  BY <1>1, <1>4, <1>5, <1>6 DEF Next, Resting, vars, catalogVars, runVars

LEMMA HeldAlways == Spec => [](\A q \in Runs : HeldOf(q))
<1>1. Init => \A q \in Runs : HeldOf(q)
  BY DEF Init, CatalogInit, HeldOf
<1>2. TypeOK /\ (\A q \in Runs : HeldOf(q)) /\ [Next]_vars => (\A q \in Runs : HeldOf(q))'
  BY HeldInductive
<1> QED
  BY <1>1, <1>2, TypeCorrect, PTL DEF Spec

-----------------------------------------------------------------------------
(* Whole outputs *)

\* How far a run has got with its output.
BuildOf(r) ==
  /\ pc[r] = "unlink" => \A q \in files[Location(r)] : <<Location(r), q>> \in job[r].stale
  /\ pc[r] = "write" => files[Location(r)] = {}
  /\ pc[r] \in {"create", "register", "registering", "emit"} => files[Location(r)] = {r}
  /\ pc[r] \in {"register", "registering", "emit"} =>
       data[Table(r)] = [columns |-> job[r].frame, by |-> r]
  /\ pc[r] = "registering" =>
       /\ session # None /\ session.holder = r /\ session.table = Table(r)
       /\ \/ /\ session.stage = "columns"
             /\ tables[Table(r)][1] \cup session.columns = AsRegistered(job[r].frame)
             /\ session.tags = DescriptorOf[r].lf_tags
          \/ /\ session.stage = "tags"
             /\ tables[Table(r)][1] = AsRegistered(job[r].frame)
             /\ lf_tags[Table(r)] \cup session.tags = DescriptorOf[r].lf_tags
  /\ pc[r] = "emit" => Whole(r)
  /\ pc[r] = "assert" /\ events[r][1].outputs # {} =>
       Whole(r) /\ events[r][1].outputs = {Output(r)}

\* The stages of the invariant.
Building == {"unlink", "write", "create", "register", "registering", "emit", "assert"}

LEMMA NotBuilding ==
  ASSUME NEW r \in Runs, pc[r] \notin Building
  PROVE  BuildOf(r)
BY DEF BuildOf, Building

LEMMA ActiveSteps ==
  ASSUME TypeOK, NEW r \in Runs, Step(r) \/ Dies(r) \/ Edit(r)
  PROVE  r \in Active
BY DEF Step, Dies, Edit, Active, Ended, Resolve, Read, RunSteps, ResolvePolicy, ValidateFrame,
   Prepare, ListStale, UnlinkStale, WriteFiles, PublishTable, Register, Registering, EmitTerminal,
   EmitFailure, EmitAssertions, Refused, Querying, Publishing

\* A run's own steps.
LEMMA OwnBuild ==
  ASSUME TypeOK, NEW r \in Runs, EmissionOf(r), BuildOf(r),
         Parse(r) \/ Step(r) \/ Dies(r) \/ Edit(r)
  PROVE  BuildOf(r)'
<1> USE DEF TypeOK, ExecutorTypeOK, Goto
<1>0. job[r] \in Job /\ Table(r) \in Tables /\ Location(r) \in Locations
  BY TargetType
<1>1. ASSUME pc'[r] \notin Building PROVE BuildOf(r)'
  BY <1>1 DEF BuildOf, Building
<1>2. CASE ~Emits(r) /\ pc[r] \notin {"clear", "unlink", "write", "create", "register", "registering"}
      /\ ~Edit(r)
  <2>1. CASE Escape(r)
    BY <1>1, <2>1 DEF Escape, Building
  <2>2. ASSUME NEW e, Raise(r, e) PROVE BuildOf(r)'
    BY <1>1, <2>2 DEF Raise, Building
  <2>3. ASSUME NEW stage \in {"read", "steps", "policy", "validate", "prepare", "clear"},
               Advance(r, stage)
        PROVE  BuildOf(r)'
    BY <1>1, <2>3 DEF Advance, Building
  <2>4. CASE Parse(r)
    BY <1>1, <2>4 DEF Parse, Building
  <2>5. CASE Dies(r) \/ Refused(r)
    BY <2>1, <2>5 DEF Dies, Refused
  <2>6. CASE Resolve(r) \/ RunSteps(r) \/ ResolvePolicy(r) \/ ValidateFrame(r) \/ Prepare(r)
    BY <2>1, <2>2, <2>3, <2>6 DEF Resolve, RunSteps, ResolvePolicy, ValidateFrame, Prepare
  <2>7. CASE Read(r)
    BY <2>1, <2>2, <2>3, <2>7 DEF Read, ReadGlueTable, ReadDmsLanding, ReadFrame
  <2> QED
    BY <1>2, <2>4, <2>5, <2>6, <2>7
    DEF Step, Emits, ListStale, UnlinkStale, WriteFiles, PublishTable, Register, Registering
<1>3. CASE Edit(r)
  BY <1>3 DEF Edit, catalogVars, BuildOf, Whole, Table, Location, Output
<1>4. CASE Escape(r)
  BY <1>1, <1>4 DEF Escape, Building
<1>5. CASE Clears(r) /\ ~Escape(r)
  <2> DEFINE l == Location(r)
  <2>1. l' = l
    BY <1>5, ClearingKeeps DEF Location
  <2>2. CASE ListStale(r)
    <3>1. job'[r].stale = {f \in Under[l] \X Writers : f[2] \in files[f[1]]}
      BY <1>0, <2>2 DEF ListStale, Job
    <3>2. \A q \in files[l] : <<l, q>> \in job'[r].stale
      BY <1>0, <3>1, ExecutorAssumption
    <3> QED
      BY <2>1, <2>2, <3>2 DEF ListStale, Advance, BuildOf
  <2>3. CASE Advance(r, "write") /\ UNCHANGED job /\ job[r].stale = {} /\ pc[r] = "unlink"
    BY <1>0, <2>1, <2>3 DEF Advance, BuildOf
  <2>4. ASSUME NEW f \in job[r].stale, pc[r] = "unlink",
               files' = [files EXCEPT ![f[1]] = @ \ {q \in files[f[1]] : SameName(q, f[2])}],
               job' = [job EXCEPT ![r].stale = @ \ {f}], UNCHANGED pc
        PROVE  BuildOf(r)'
    <3>1. f \in Locations \X Writers
      BY <1>0 DEF Job
    <3>2. job'[r].stale = job[r].stale \ {f}
      BY <1>0, <2>4 DEF Job
    <3>3. ASSUME NEW q \in files'[l] PROVE q \in files[l] /\ <<l, q>> # f
      BY <1>0, <2>4, <3>1, <3>3 DEF SameName
    <3> QED
      BY <2>1, <2>4, <3>2, <3>3 DEF BuildOf
  <2> QED
    BY <1>5, <2>2, <2>3, <2>4 DEF Clears, UnlinkStale
<1>6. CASE WriteFiles(r)
  <2>1. CASE Raise(r, "PipelineError")
    BY <1>1, <2>1 DEF Raise, Building
  <2>2. CASE ~Raise(r, "PipelineError")
    <3>1. files[Location(r)] = {}
      BY <1>6 DEF WriteFiles, BuildOf
    <3>2. Location(r)' = Location(r) /\ pc'[r] = "create"
      BY <1>6, <2>2 DEF WriteFiles, Location
    <3>3. files'[Location(r)] = {r}
      BY <1>0, <1>6, <2>2, <3>1 DEF WriteFiles
    <3> QED
      BY <3>2, <3>3 DEF BuildOf
  <2> QED
    BY <2>1, <2>2
<1>7. CASE PublishTable(r)
  <2>1. Location(r)' = Location(r) /\ Table(r)' = Table(r) /\ pc'[r] = "register"
    BY <1>7 DEF PublishTable, Location, Table
  <2>2. data'[Table(r)] = [columns |-> job[r].frame, by |-> r]
    BY <1>0, <1>7 DEF PublishTable, CreateTable, CatalogTypeOK
  <2> QED
    BY <1>7, <2>1, <2>2 DEF PublishTable, BuildOf
<1>8. CASE Register(r)
  <2> DEFINE columns == AsRegistered(job[r].frame)
  <2>1. /\ Location(r)' = Location(r) /\ Table(r)' = Table(r) /\ pc'[r] = "registering"
        /\ UNCHANGED <<job, files, data>>
    BY <1>8 DEF Register, BeginRegister, Location, Table
  <2>2. tables'[Table(r)][1] = {}
    BY <1>0, <1>8, OneIsAVersion DEF Register, BeginRegister, CatalogTypeOK
  <2>3. /\ session'.holder = r /\ session'.table = Table(r) /\ session'.stage = "columns"
        /\ session'.columns = columns /\ session'.tags = DescriptorOf[r].lf_tags
    BY <1>8 DEF Register, BeginRegister
  <2>4. session' # None
    <3>1. columns \in SUBSET Column
      BY <1>0, AsRegisteredType DEF Job
    <3>2. session' \in Session
      BY <1>0, <1>8, <3>1, DescriptorFields DEF Register, BeginRegister, Session
    <3> QED
      BY <3>2, CatalogAssumption
  <2> QED
    BY <1>8, <2>1, <2>2, <2>3, <2>4 DEF Register, BuildOf
<1>9. CASE Registering(r) /\ ~Escape(r)
  <2> DEFINE t == Table(r)
  <2>1. /\ session \in Session /\ session.holder = r /\ session.table = t
        /\ files[Location(r)] = {r}
        /\ data[t] = [columns |-> job[r].frame, by |-> r]
    BY <1>9 DEF Registering, BuildOf, CatalogTypeOK
  <2>2. UNCHANGED <<job, files, events, data>> /\ t' = t /\ Location(r)' = Location(r)
    BY <1>9 DEF Registering, runVars, InsertColumn, DeleteTags, InsertTag, EndRegister,
       Table, Location
  <2>3. CASE InsertColumn(r)
    <3>1. PICK c \in session.columns :
            /\ tables' = [tables EXCEPT ![t][1] = @ \cup {c}]
            /\ session' = [session EXCEPT !.columns = @ \ {c}]
      BY <2>1, <2>3 DEF InsertColumn
    <3>2. tables'[t][1] = tables[t][1] \cup {c}
      BY <1>0, <3>1, OneIsAVersion DEF CatalogTypeOK
    <3>3. /\ session' \in Session /\ session'.columns = session.columns \ {c}
          /\ session'.holder = r /\ session'.table = t
          /\ session'.stage = session.stage /\ session'.tags = session.tags
      BY <2>1, <3>1 DEF Session
    <3>4. pc'[r] = pc[r] /\ pc[r] = "registering" /\ session.stage = "columns"
      BY <1>9, <2>3 DEF Registering, InsertColumn, Holds, EndRegister, runVars
    <3> QED
      BY <2>1, <2>2, <3>2, <3>3, <3>4, CatalogAssumption DEF BuildOf
  <2>4. CASE DeleteTags(r)
    <3>1. lf_tags'[t] = {} /\ tables' = tables
      BY <1>0, <2>1, <2>4 DEF DeleteTags, CatalogTypeOK
    <3>2. /\ session' \in Session /\ session'.columns = {}
          /\ session'.holder = r /\ session'.table = t
          /\ session'.stage = "tags" /\ session'.tags = session.tags
      BY <2>1, <2>4 DEF DeleteTags, Session
    <3>3. pc'[r] = pc[r] /\ pc[r] = "registering" /\ session.stage = "columns" /\ session.columns = {}
      BY <1>9, <2>4 DEF Registering, DeleteTags, Holds, EndRegister, runVars
    <3> QED
      BY <2>1, <2>2, <3>1, <3>2, <3>3, CatalogAssumption DEF BuildOf
  <2>5. CASE InsertTag(r)
    <3>1. PICK g \in session.tags :
            /\ lf_tags' = [lf_tags EXCEPT ![t] = @ \cup {g}]
            /\ session' = [session EXCEPT !.tags = @ \ {g}]
      BY <2>1, <2>5 DEF InsertTag
    <3>2. lf_tags'[t] = lf_tags[t] \cup {g} /\ tables' = tables
      BY <1>0, <2>5, <3>1 DEF InsertTag, CatalogTypeOK
    <3>3. /\ session' \in Session /\ session'.tags = session.tags \ {g}
          /\ session'.holder = r /\ session'.table = t /\ session'.stage = session.stage
      BY <2>1, <3>1 DEF Session
    <3>4. pc'[r] = pc[r] /\ pc[r] = "registering" /\ session.stage = "tags"
      BY <1>9, <2>5 DEF Registering, InsertTag, Holds, EndRegister, runVars
    <3> QED
      BY <2>1, <2>2, <3>2, <3>3, <3>4, CatalogAssumption DEF BuildOf
  <2>6. CASE EndRegister(r) /\ pc'[r] = "emit"
    <3>1. session.stage = "tags" /\ session.tags = {} /\ UNCHANGED <<tables, lf_tags>>
      BY <2>6 DEF EndRegister, Holds
    <3>2. tables[t][1] = AsRegistered(job[r].frame) /\ lf_tags[t] = DescriptorOf[r].lf_tags
      BY <1>9, <3>1 DEF Registering, BuildOf
    <3> QED
      BY <2>1, <2>2, <2>6, <3>1, <3>2 DEF BuildOf, Whole
  <2> QED
    BY <1>9, <2>3, <2>4, <2>5, <2>6 DEF Registering
<1>10. CASE EmitTerminal(r)
  <2> DEFINE event == TerminalEvent(r)
  <2>1. event.outputs = {Output(r)}
    BY DEF TerminalEvent, Reported
  <2> HIDE DEF event
  <2>2. events'[r] = Append(events[r], event) /\ Len(events[r]) = 0 /\ pc[r] = "emit" /\ pc'[r] = "assert"
    BY <1>10 DEF EmitTerminal, Emit, EmissionOf, Ended, event
  <2>3. events'[r][1] = event
    BY <2>2
  <2>4. Whole(r)' = Whole(r) /\ Output(r)' = Output(r)
    BY <1>10 DEF EmitTerminal, catalogVars, Whole, Output, Table, Location
  <2>5. Whole(r)
    BY <2>2 DEF BuildOf
  <2> QED
    BY <2>1, <2>2, <2>3, <2>4, <2>5 DEF BuildOf
<1>11. CASE EmitFailure(r) \/ EmitAssertions(r)
  <2>1. CASE pc'[r] = "assert"
    <3> DEFINE event == FailureEvent(r)
    <3>1. EmitFailure(r) /\ event.outputs = {}
      BY <1>11, <2>1 DEF EmitAssertions, FailureEvent
    <3> HIDE DEF event
    <3>2. events'[r] = Append(events[r], event) /\ Len(events[r]) = 0
      BY <3>1 DEF EmitFailure, Emit, EmissionOf, Ended, event
    <3>3. events'[r][1] = event
      BY <3>2
    <3> QED
      BY <2>1, <3>1, <3>3 DEF BuildOf
  <2>2. CASE pc'[r] # "assert"
    BY <1>1, <1>11, <2>2 DEF EmitFailure, EmitAssertions, Building
  <2> QED
    BY <2>1, <2>2
<1>12. CASE (Dies(r) \/ Refused(r)) 
  BY <1>4, <1>12 DEF Dies, Refused
<1> QED
  BY <1>2, <1>3, <1>5, <1>6, <1>7, <1>8, <1>4, <1>9, <1>10, <1>11, <1>12
  DEF Step, Emits, Clears, Parse, Resolve, Read, RunSteps, ResolvePolicy, ValidateFrame, Prepare

\* An application's steps leave a pipeline's table alone.
LEMMA AppBuild ==
  ASSUME TypeOK, SessionInv, NEW a \in Apps, App(a), NEW r \in Runs, BuildOf(r)
  PROVE  BuildOf(r)'
<1> DEFINE t == Table(r)
<1>1. UNCHANGED <<pc, job, files, events>>
  BY DEF App, AppShips, AppPublishes, AppLeaves, runVars
<1>2. t \in Tables \ AppTables
  BY TargetType, TargetsAssumption DEF Table
<1>3. pc[r] # "registering"
  <2>1. CASE session = None
    BY <2>1 DEF BuildOf
  <2>2. CASE session # None /\ session.holder = a
    BY <2>2, CatalogAssumption DEF BuildOf
  <2> QED
    BY <2>1, <2>2 DEF App, AppShips, AppPublishes, AppLeaves, Ship, Publish, Disconnect
<1>4. t' = t /\ Location(r)' = Location(r)
  BY <1>1 DEF Table, Location
<1>5. UNCHANGED <<data[t], tables[t], lf_tags[t]>>
  BY <1>2, <1>4, AppStays
<1> HIDE DEF t
<1>6. Whole(r)' = Whole(r) /\ Output(r)' = Output(r)
  BY <1>1, <1>4, <1>5 DEF Whole, Output, t
<1> QED
  BY <1>1, <1>3, <1>4, <1>5, <1>6 DEF BuildOf, t

LEMMA DisjointTargets ==
  ASSUME NEW q \in Runs, NEW r \in Runs, Disjoint(q, r)
  PROVE  Table(q) # Table(r) /\ Location(q) \notin Under[Location(r)]
BY DEF Disjoint, WrittenBy, PrefixesOf, Table, Location

\* Runs under way together write to tables and under prefixes of their own.
KeptApart == \A q, r \in Active : q = r \/ Disjoint(q, r)

LEMMA KeptApartInductive ==
  ASSUME TypeOK, KeptApart, [NextApart]_vars
  PROVE  KeptApart'
<1>1. CASE UNCHANGED pc
  BY <1>1 DEF KeptApart, Active
<1>2. ASSUME NEW r \in Runs, ParseApart(r) PROVE KeptApart'
  <2>1. Active' \subseteq Active \cup {r}
    BY <1>2, OthersStay DEF ParseApart, Active
  <2>2. \A q \in Active : Disjoint(q, r) /\ Disjoint(r, q)
    BY <1>2 DEF ParseApart, Disjoint
  <2> QED
    BY <2>1, <2>2 DEF KeptApart
<1>3. ASSUME NEW r \in Runs, Step(r) \/ Dies(r) \/ Edit(r) PROVE KeptApart'
  <2>1. Active' \subseteq Active
    BY <1>3, ActiveSteps, OthersStay DEF Active
  <2> QED
    BY <2>1 DEF KeptApart
<1>4. ASSUME NEW a \in Apps, App(a) PROVE UNCHANGED pc
  BY <1>4 DEF App, AppShips, AppPublishes, AppLeaves, runVars
<1> QED
  BY <1>1, <1>2, <1>3, <1>4 DEF NextApart, Resting, vars, runVars

\* A run deletes below its own target only.
StaleOf(r) ==
  pc[r] = "unlink" => \A f \in job[r].stale : f[1] \in Under[Location(r)]

LEMMA StaleInductive ==
  ASSUME TypeOK, NEW q \in Runs, StaleOf(q), [Next]_vars
  PROVE  StaleOf(q)'
<1> USE DEF TypeOK, ExecutorTypeOK, Goto
<1>0. job[q] \in Job
  OBVIOUS
<1>1. CASE UNCHANGED <<pc, job>>
  BY <1>1 DEF StaleOf, Location
<1>2. CASE pc'[q] # "unlink"
  BY <1>2 DEF StaleOf
<1>3. CASE Clears(q)
  <2>1. Location(q)' = Location(q)
    BY <1>3, ClearingKeeps DEF Location
  <2>2. CASE ListStale(q)
    <3>1. job'[q].stale = {f \in Under[Location(q)] \X Writers : f[2] \in files[f[1]]}
      BY <1>0, <2>2 DEF ListStale, Job
    <3> QED
      BY <2>1, <3>1 DEF StaleOf
  <2>3. ASSUME NEW f, job' = [job EXCEPT ![q].stale = @ \ {f}], pc[q] = "unlink"
        PROVE  StaleOf(q)'
    <3>1. job'[q].stale = job[q].stale \ {f}
      BY <1>0, <2>3 DEF Job
    <3> QED
      BY <2>1, <2>3, <3>1 DEF StaleOf
  <2>4. CASE Advance(q, "write") \/ Escape(q)
    BY <1>2, <2>4 DEF Advance, Escape
  <2> QED
    BY <1>3, <2>2, <2>3, <2>4 DEF Clears, UnlinkStale
<1>4. ASSUME NEW r \in Runs, Parse(r) \/ Step(r) \/ Dies(r) \/ Edit(r), q # r
      PROVE  StaleOf(q)'
  BY <1>4, OthersStay DEF StaleOf, Location
<1>5. ASSUME Parse(q) \/ Step(q) \/ Dies(q) \/ Edit(q), ~Clears(q), pc'[q] = "unlink"
      PROVE  UNCHANGED <<pc, job>>
  BY <1>5 DEF Step, Clears, Parse, Dies, Edit, Refused, Escape, Raise, Advance, Resolve, Read,
     ReadGlueTable, ReadDmsLanding, ReadFrame, RunSteps, ResolvePolicy, ValidateFrame, Prepare,
     WriteFiles, PublishTable, Register, Registering, runVars, EmitTerminal, EmitFailure,
     EmitAssertions
<1>6. ASSUME NEW a \in Apps, App(a) PROVE UNCHANGED <<pc, job>>
  BY <1>6 DEF App, AppShips, AppPublishes, AppLeaves, runVars
<1> QED
  BY <1>1, <1>2, <1>3, <1>4, <1>5, <1>6 DEF Next, Resting, vars, runVars

LEMMA StaleAlways == Spec => [](\A q \in Runs : StaleOf(q))
<1>1. Init => \A q \in Runs : StaleOf(q)
  BY DEF Init, ExecutorInit, StaleOf
<1>2. TypeOK /\ (\A q \in Runs : StaleOf(q)) /\ [Next]_vars => (\A q \in Runs : StaleOf(q))'
  BY StaleInductive
<1> QED
  BY <1>1, <1>2, TypeCorrect, PTL DEF Spec

\* What another run's step leaves alone, where the two are kept apart.
LEMMA OthersLeave ==
  ASSUME TypeOK, NEW q \in Runs, NEW r \in Runs, Disjoint(q, r), HeldOf(r), StaleOf(r),
         Step(r) \/ Dies(r) \/ Edit(r)
  PROVE  /\ files'[Location(q)] = files[Location(q)]
         /\ data'[Table(q)] = data[Table(q)]
         /\ tables'[Table(q)] = tables[Table(q)]
         /\ lf_tags'[Table(q)] = lf_tags[Table(q)]
<1> USE DEF TypeOK, CatalogTypeOK, ExecutorTypeOK
<1>1. /\ Table(q) \in Tables /\ Table(r) \in Tables /\ Table(q) # Table(r)
      /\ Location(q) \in Locations /\ Location(r) \in Locations
      /\ Location(q) \notin Under[Location(r)] /\ Location(q) # Location(r)
  BY TargetType, DisjointTargets, ExecutorAssumption
<1>2. files'[Location(q)] = files[Location(q)]
  <2>1. CASE Clears(r)
    BY <1>1, <2>1 DEF Clears, ListStale, UnlinkStale, Advance, Escape, StaleOf
  <2>2. CASE WriteFiles(r)
    BY <1>1, <2>2 DEF WriteFiles, Raise
  <2> QED
    BY <2>1, <2>2, FileSteps
<1>3. /\ data'[Table(q)] = data[Table(q)]
      /\ tables'[Table(q)] = tables[Table(q)]
      /\ lf_tags'[Table(q)] = lf_tags[Table(q)]
  <2>1. CASE PublishTable(r)
    BY <1>1, <2>1 DEF PublishTable, CreateTable
  <2>2. CASE Register(r)
    BY <1>1, <2>2 DEF Register, BeginRegister
  <2>3. CASE InsertColumn(r) \/ DeleteTags(r) \/ InsertTag(r)
    <3>1. session.table = Table(r)
      BY <2>3 DEF InsertColumn, DeleteTags, InsertTag, Holds, HeldOf
    <3> QED
      BY <1>1, <2>3, <3>1 DEF InsertColumn, DeleteTags, InsertTag
  <2> QED
    BY <2>1, <2>2, <2>3, CatalogSteps
<1> QED
  BY <1>2, <1>3

\* A session outlasts what another run does.
LEMMA SessionOutlasts ==
  ASSUME NEW q \in Runs, NEW r \in Runs \ {q}, session # None, session.holder = q,
         Parse(r) \/ Step(r) \/ Dies(r) \/ Edit(r)
  PROVE  UNCHANGED session
<1>1. CASE Escape(r)
  BY <1>1 DEF Escape
<1>2. ~Register(r)
  BY DEF Register, BeginRegister
<1>3. Registering(r) => Escape(r)
  BY DEF Registering, InsertColumn, DeleteTags, InsertTag, EndRegister, Holds
<1> QED
  BY <1>1, <1>2, <1>3, SessionSteps

LEMMA OthersBuild ==
  ASSUME TypeOK, KeptApart, NEW q \in Runs, BuildOf(q), NEW r \in Runs \ {q}, HeldOf(r),
         StaleOf(r), Parse(r) \/ Step(r) \/ Dies(r) \/ Edit(r)
  PROVE  BuildOf(q)'
<1>1. pc'[q] = pc[q] /\ job'[q] = job[q] /\ events'[q] = events[q]
  BY OthersStay, OthersSaySame
<1>2. CASE pc[q] \notin Building
  BY <1>1, <1>2 DEF BuildOf, Building
<1>3. CASE pc[q] \in Building
  <2>1. Table(q)' = Table(q) /\ Location(q)' = Location(q) /\ Output(q)' = Output(q)
    BY <1>1 DEF Table, Location, Output
  <2>2. /\ files'[Location(q)] = files[Location(q)]
        /\ data'[Table(q)] = data[Table(q)]
        /\ tables'[Table(q)] = tables[Table(q)]
        /\ lf_tags'[Table(q)] = lf_tags[Table(q)]
    <3>1. CASE Parse(r)
      BY <2>1, <3>1 DEF Parse, catalogVars
    <3>2. CASE Step(r) \/ Dies(r) \/ Edit(r)
      <4>1. q \in Active /\ r \in Active
        BY <1>3, <3>2, ActiveSteps DEF Building, Active, Ended
      <4>2. Disjoint(q, r)
        BY <4>1 DEF KeptApart
      <4> QED
        BY <3>2, <4>2, OthersLeave
    <3> QED
      BY <3>1, <3>2
  <2>3. pc[q] = "registering" => session' = session
    BY SessionOutlasts DEF BuildOf
  <2>4. Whole(q)' = Whole(q)
    BY <1>1, <2>1, <2>2 DEF Whole
  <2> QED
    BY <1>1, <2>1, <2>2, <2>3, <2>4 DEF BuildOf
<1> QED
  BY <1>2, <1>3

LEMMA BuildInductive ==
  ASSUME TypeOK, SessionInv, KeptApart, \A r \in Runs : HeldOf(r) /\ StaleOf(r), [Next]_vars,
         NEW q \in Runs, EmissionOf(q), BuildOf(q)
  PROVE  BuildOf(q)'
<1>1. CASE UNCHANGED vars
  BY <1>1 DEF vars, catalogVars, runVars, BuildOf, Whole, Output, Table, Location
<1> QED
  BY <1>1, OwnBuild, OthersBuild, AppBuild DEF Next, Resting

LEMMA Orchestration == Orchestrated => Spec
<1>1. [NextApart]_vars => [Next]_vars
  BY DEF NextApart, ParseApart, Next
<1> QED
  BY <1>1, PTL DEF Orchestrated, Spec

\* Kept apart, every run is all its own by the time it reports.
LEMMA BuildAlways == Orchestrated => [](\A q \in Runs : BuildOf(q))
<1> DEFINE B == \A q \in Runs : BuildOf(q)
           H == \A q \in Runs : HeldOf(q) /\ StaleOf(q)
<1>1. Init => B /\ KeptApart
  BY DEF Init, ExecutorInit, BuildOf, KeptApart, Active
<1>2. EmissionInv => \A q \in Runs : EmissionOf(q)
  BY DEF EmissionInv, EmissionOf
<1>3. TypeOK /\ SessionInv /\ EmissionInv /\ H /\ B /\ KeptApart /\ [NextApart]_vars
      => (B /\ KeptApart)'
  <2>1. [NextApart]_vars => [Next]_vars
    BY DEF NextApart, ParseApart, Next
  <2> QED
    BY <1>2, <2>1, BuildInductive, KeptApartInductive
<1> HIDE DEF B, H
<1>4. Spec => []H
  <2> DEFINE Held  == \A q \in Runs : HeldOf(q)
             Stale == \A q \in Runs : StaleOf(q)
  <2>1. Held /\ Stale => H
    BY DEF H
  <2>2. Spec => []Held
    BY HeldAlways
  <2>3. Spec => []Stale
    BY StaleAlways
  <2> HIDE DEF Held, Stale
  <2> QED
    BY <2>1, <2>2, <2>3, PTL
<1>5. Orchestrated => []B
  BY <1>1, <1>3, <1>4, Orchestration, TypeCorrect, SessionAlways, EmissionAlways, PTL
  DEF Orchestrated
<1> QED
  BY <1>5 DEF B

\* run.py:154-171, local.py:98-161.  Where runs under way together have targets of
\* their own, and releases come in anywhere, whatever an earlier run left where it
\* died: the moment a run has reported an output, its files are alone under the
\* location, and the rows, the shape and the tags of the table it named are its own.
THEOREM OutputsAreAlwaysWhole == Orchestrated => []OutputsAreWhole
<1> DEFINE B == \A q \in Runs : BuildOf(q)
<1>1. B => OutputsAreWhole
  <2> SUFFICES ASSUME NEW r \in Runs, BuildOf(r), pc[r] = "assert", events[r][1].outputs # {},
                      NEW d \in events[r][1].outputs
               PROVE  Whole(r) /\ d.name = Table(r) /\ d.tags = lf_tags[Table(r)]
    BY DEF OutputsAreWhole
  <2>1. Whole(r) /\ d = Output(r)
    BY DEF BuildOf
  <2> QED
    BY <2>1 DEF Whole, Output
<1>2. Orchestrated => []B
  BY BuildAlways
<1> HIDE DEF B
<1> QED
  BY <1>1, <1>2, PTL

-----------------------------------------------------------------------------
(* One run at a time *)

Alone == \A q, r \in Active : q = r

LEMMA FirstAlone ==
  ASSUME IsFiniteSet(Runs), MaxActive = 1, NEW r \in Runs, Parse(r)
  PROVE  Active = {}
<1>1. IsFiniteSet(Active) /\ Cardinality(Active) \in Nat
  BY FS_Subset, FS_CardinalityType DEF Active
<1>2. Cardinality(Active) = 0
  BY <1>1 DEF Parse
<1> QED
  BY <1>1, <1>2, FS_EmptySet

LEMMA AloneInductive ==
  ASSUME IsFiniteSet(Runs), MaxActive = 1, TypeOK, Alone, [Next]_vars
  PROVE  Alone'
<1>1. CASE UNCHANGED pc
  BY <1>1 DEF Alone, Active
<1>2. ASSUME NEW r \in Runs, Parse(r) PROVE Alone'
  BY <1>2, FirstAlone, OthersStay DEF Alone, Active
<1>3. ASSUME NEW r \in Runs, Step(r) \/ Dies(r) \/ Edit(r) PROVE Alone'
  BY <1>3, ActiveSteps, OthersStay DEF Alone, Active
<1>4. ASSUME NEW a \in Apps, App(a) PROVE UNCHANGED pc
  BY <1>4 DEF App, AppShips, AppPublishes, AppLeaves, runVars
<1> QED
  BY <1>1, <1>2, <1>3, <1>4 DEF Next, Resting, vars, runVars

LEMMA AloneAlways ==
  ASSUME IsFiniteSet(Runs), MaxActive = 1
  PROVE  Spec => []Alone
<1>1. Init => Alone
  BY DEF Init, ExecutorInit, Alone, Active
<1>2. TypeOK /\ Alone /\ [Next]_vars => Alone'
  BY AloneInductive
<1> QED
  BY <1>1, <1>2, TypeCorrect, PTL DEF Spec

\* Whoever starts a run only when none is under way keeps them apart.
THEOREM OneAtATimeIsOrchestrated ==
  ASSUME IsFiniteSet(Runs), MaxActive = 1
  PROVE  Spec => Orchestrated
<1>1. [Next]_vars => [NextApart]_vars
  <2>1. ASSUME NEW r \in Runs, Parse(r) PROVE ParseApart(r)
    BY <2>1, FirstAlone DEF ParseApart
  <2> QED
    BY <2>1 DEF Next, NextApart
<1> QED
  BY <1>1, PTL DEF Spec, Orchestrated

-----------------------------------------------------------------------------
(* Products as listed *)

\* What is listed of a product that nobody is publishing is what its rows are.
ListedOf(t) ==
  ~Unsettled(t) =>
    tables[t][1] = IF data[t] = None THEN {} ELSE AsRegistered(data[t].columns)

LEMMA SettlesWhole ==
  ASSUME TypeOK, NEW r \in Runs, BuildOf(r)', Parse(r) \/ Step(r) \/ Dies(r) \/ Edit(r),
         NEW t \in Tables, Table(r) = t,
         pc[r] \in {"register", "registering", "escaped"},
         Table(r)' # t \/ pc'[r] \notin {"register", "registering", "escaped"}
  PROVE  tables'[t][1] = IF data'[t] = None THEN {} ELSE AsRegistered(data'[t].columns)
<1> USE DEF TypeOK, ExecutorTypeOK, Goto
<1>1. pc[r] # "escaped"
  BY ActiveSteps DEF Parse, Active, Ended
<1>2. ~Escape(r)
  BY DEF Escape, Table
<1>3. ~Edit(r) /\ ~Parse(r) /\ ~Dies(r) /\ ~Refused(r)
  BY <1>2 DEF Edit, Parse, Dies, Refused, Table
<1>4. Register(r) \/ Registering(r)
  BY <1>1, <1>3
  DEF Step, Resolve, Read, RunSteps, ResolvePolicy, ValidateFrame, Prepare, ListStale, UnlinkStale,
      WriteFiles, PublishTable, EmitTerminal, EmitFailure, EmitAssertions
<1>5. pc'[r] = "emit" /\ Table(r)' = t
  BY <1>2, <1>4 DEF Register, Registering, runVars, Table
<1>6. /\ data'[t] = [columns |-> job'[r].frame, by |-> r]
      /\ tables'[t][1] = AsRegistered(job'[r].frame)
  BY <1>5 DEF BuildOf, Whole
<1>7. job'[r].frame \in SUBSET Column
  BY <1>4 DEF Register, Registering, Escape, runVars, Job
<1>8. data'[t] # None /\ data'[t].columns = job'[r].frame
  BY <1>6, <1>7, CatalogAssumption DEF Content
<1> QED
  BY <1>6, <1>8

LEMMA RunListed ==
  ASSUME TypeOK, NEW r \in Runs, BuildOf(r), BuildOf(r)', HeldOf(r),
         Parse(r) \/ Step(r) \/ Dies(r) \/ Edit(r),
         NEW t \in Tables, ListedOf(t)
  PROVE  ListedOf(t)'
<1> USE DEF TypeOK, ExecutorTypeOK, CatalogTypeOK, Goto
<1>0. Table(r) \in Tables
  BY TargetType
<1> DEFINE Busy == pc[r] \in {"register", "registering", "escaped"}
<1>1. CASE Table(r) = t /\ Busy
  <2>1. CASE Table(r)' = t /\ Busy'
    BY <2>1 DEF ListedOf, Unsettled
  <2>2. CASE ~(Table(r)' = t /\ Busy')
    BY <1>1, <2>2, SettlesWhole DEF ListedOf
  <2> QED
    BY <2>1, <2>2
<1>2. CASE ~(Table(r) = t /\ Busy) /\ UNCHANGED <<tables[t], data[t]>>
  <2>1. CASE ~Unsettled(t)
    BY <1>2, <2>1 DEF ListedOf
  <2>2. ASSUME NEW q \in Runs, q # r, Table(q) = t,
               pc[q] \in {"register", "registering", "escaped"}
        PROVE  ListedOf(t)'
    <3>1. pc'[q] = pc[q] /\ job'[q] = job[q]
      BY <2>2, OthersStay
    <3>2. Unsettled(t)'
      BY <2>2, <3>1 DEF Unsettled, Table
    <3> QED
      BY <3>2 DEF ListedOf
  <2> QED
    BY <1>2, <2>1, <2>2 DEF Unsettled
<1>3. CASE ~(Table(r) = t /\ Busy) /\ ~UNCHANGED <<tables[t], data[t]>>
  <2>1. CASE PublishTable(r)
    <3>1. CASE Table(r) = t
      <4>1. pc'[r] = "register" /\ Table(r)' = t
        BY <2>1, <3>1 DEF PublishTable, Table
      <4> QED
        BY <4>1 DEF ListedOf, Unsettled
    <3>2. CASE Table(r) # t
      BY <1>0, <1>3, <2>1, <3>2 DEF PublishTable, CreateTable
    <3> QED
      BY <3>1, <3>2
  <2>2. CASE Register(r)
    BY <1>0, <1>3, <2>2 DEF Register, BeginRegister
  <2>3. CASE InsertColumn(r)
    <3>1. session.table = Table(r) /\ pc[r] = "registering"
      BY <2>3 DEF InsertColumn, Holds, HeldOf
    <3> QED
      BY <1>0, <1>3, <2>3, <3>1 DEF InsertColumn
  <2>4. CASE DeleteTags(r) \/ InsertTag(r)
    BY <1>3, <2>4 DEF DeleteTags, InsertTag
  <2> QED
    BY <1>3, <2>1, <2>2, <2>3, <2>4, CatalogSteps
<1> QED
  BY <1>1, <1>2, <1>3

\* catalog.py:455 and local.py:135-161.  Where runs under way together have targets
\* of their own, whoever died before and whatever it left: unless a run is between
\* storing a product's rows and the end of its registration, or was cut short there,
\* what is listed of the product is what its rows are, and an unwritten product is
\* not listed.
THEOREM ProductsAreAlwaysListed == Orchestrated => []ProductsAreAsListed
<1> DEFINE L == \A t \in Tables \ AppTables : ListedOf(t)
           B == \A q \in Runs : BuildOf(q)
           H == \A q \in Runs : HeldOf(q)
<1>1. Init => L
  BY OneIsAVersion DEF Init, CatalogInit, ListedOf
<1>2. TypeOK /\ SessionInv /\ H /\ B /\ B' /\ L /\ [Next]_vars => L'
  <2> SUFFICES ASSUME TypeOK, SessionInv, H, B, B', L, [Next]_vars,
                      NEW t \in Tables \ AppTables
               PROVE  ListedOf(t)'
    OBVIOUS
  <2>1. ASSUME UNCHANGED <<data[t], tables[t], runVars>> PROVE ListedOf(t)'
    <3>1. Unsettled(t)' = Unsettled(t)
      BY <2>1 DEF Unsettled, Table, runVars
    <3> QED
      BY <2>1, <3>1 DEF ListedOf
  <2>2. ASSUME NEW r \in Runs, Parse(r) \/ Step(r) \/ Dies(r) \/ Edit(r) PROVE ListedOf(t)'
    BY <2>2, RunListed
  <2>3. ASSUME NEW a \in Apps, App(a) PROVE ListedOf(t)'
    BY <2>1, <2>3, AppStays
  <2> QED
    BY <2>1, <2>2, <2>3 DEF Next, Resting, vars, catalogVars
<1>3. L <=> ProductsAreAsListed
  BY DEF ListedOf, ProductsAreAsListed
<1> HIDE DEF L, B, H
<1>4. Orchestrated => []B /\ []H
  <2>1. Orchestrated => []B
    BY BuildAlways DEF B
  <2>2. Spec => []H
    BY HeldAlways DEF H
  <2> QED
    BY <2>1, <2>2, Orchestration, PTL
<1> QED
  BY <1>1, <1>2, <1>3, <1>4, Orchestration, TypeCorrect, SessionAlways, PTL DEF Spec
=============================================================================
