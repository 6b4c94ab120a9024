------------------------------ MODULE Runtime -------------------------------
(***************************************************************************)
(* The deployment: the runs an orchestrator starts, each a process, and    *)
(* the release pipelines of the applications, over one catalog and one     *)
(* warehouse.                                                              *)
(***************************************************************************)
EXTENDS Executor

CONSTANTS
  Produces,    \* the tables each application publishes
  ReleasesOf   \* the releases each application has yet to ship

ASSUME RuntimeAssumption ==
  /\ Produces \in [Apps -> SUBSET (AppTables \ Landed)]
  /\ ReleasesOf \in [Apps -> SUBSET Releases]
  /\ \A a \in Apps : InitialRelease \notin ReleasesOf[a]

\* An application's table is no pipeline's target, nor its quarantine.
ASSUME TargetsAssumption ==
  \A r \in Runs : /\ DescriptorOf[r].target \notin AppTables
                  /\ QuarantineTable[DescriptorOf[r].target] \notin AppTables

\* A quarantine is nobody's target, and no target lies under another.
ASSUME WarehouseAssumption ==
  \A q, r \in Runs :
    LET place == DescriptorOf[r].location IN
    /\ QuarantineTable[DescriptorOf[q].target] # DescriptorOf[r].target
    /\ place \notin Under[QuarantineLocation[DescriptorOf[q].location]]
    /\ place \in Under[DescriptorOf[q].location] => DescriptorOf[q].target = DescriptorOf[r].target

Init == CatalogInit /\ ExecutorInit

\* The application replaces its rows; the catalog still shows the last version.
AppShips(a) ==
  /\ \E t \in Produces[a], shape \in Shapes, release \in ReleasesOf[a] :
        /\ \A v \in Versions : versions[t][v] # release
        /\ Ship(a, t, shape, release)
  /\ UNCHANGED runVars

AppPublishes(a) ==
  /\ \E v \in Versions : Publish(a, v)
  /\ UNCHANGED runVars

\* publish raised, or was never called.
AppLeaves(a) == Disconnect(a) /\ UNCHANGED runVars

App(a) == AppShips(a) \/ AppPublishes(a) \/ AppLeaves(a)

\* Nothing has to be under way.
Resting == Active = {} /\ UNCHANGED vars

Next ==
  \/ \E r \in Runs : Parse(r) \/ Step(r) \/ Dies(r) \/ Edit(r)
  \/ \E a \in Apps : App(a)
  \/ Resting

\* A process that is running goes on running.  Nothing obliges an orchestrator
\* to start a run, nor an application to release.
Spec == Init /\ [][Next]_vars /\ \A r \in Runs : WF_vars(Step(r))

(***************************************************************************)
(* Nothing in the runtime keeps runs apart.  An orchestrator can, by what  *)
(* descriptors declare: it starts no run while another is under way that   *)
(* may write to the same table, or under the same prefix.                  *)
(***************************************************************************)
WrittenBy(r) == {DescriptorOf[r].target, QuarantineTable[DescriptorOf[r].target]}

PrefixesOf(r) == {DescriptorOf[r].location, QuarantineLocation[DescriptorOf[r].location]}

Disjoint(q, r) ==
  /\ WrittenBy(q) \cap WrittenBy(r) = {}
  /\ \A k \in PrefixesOf(q), l \in PrefixesOf(r) : k \notin Under[l] /\ l \notin Under[k]

ParseApart(r) ==
  /\ \A q \in Active : Disjoint(q, r)
  /\ Parse(r)

NextApart ==
  \/ \E r \in Runs : ParseApart(r) \/ Step(r) \/ Dies(r) \/ Edit(r)
  \/ \E a \in Apps : App(a)
  \/ Resting

Orchestrated == Init /\ [][NextApart]_vars /\ \A r \in Runs : WF_vars(Step(r))

-----------------------------------------------------------------------------
(* Invariants *)

TypeOK == CatalogTypeOK /\ ExecutorTypeOK

Terminal(event) == event.type # "OTHER"

TerminalsOf(r) == {i \in DOMAIN events[r] : Terminal(events[r][i])}

\* run.py:41.  No run, however it fails and whoever interferes, emits two
\* terminal events; one that ends where its caller can see has emitted one.
OneTerminalEvent ==
  \A r \in Runs :
    /\ \A i, j \in TerminalsOf(r) : i = j
    /\ pc[r] \in {"returned", "raised"} => TerminalsOf(r) # {}

Whole(r) ==
  /\ files[Location(r)] = {r}
  /\ data[Table(r)] = [columns |-> job[r].frame, by |-> r]
  /\ tables[Table(r)][1] = AsRegistered(job[r].frame)
  /\ lf_tags[Table(r)] = DescriptorOf[r].lf_tags

\* The moment a run has told the world it wrote a table, the table it names is
\* there: files, rows, shape and tags, all the run's own, whatever an earlier
\* run left when it died.  (Where runs are kept apart.)
OutputsAreWhole ==
  \A r \in Runs :
    pc[r] = "assert" /\ events[r][1].outputs # {} =>
      /\ Whole(r)
      /\ \A d \in events[r][1].outputs :
           d.name = Table(r) /\ d.tags = lf_tags[Table(r)]

\* run.py:50-54.  Until it resolved its pin a run claims no release; from then
\* on it claims the one the catalog still has on record for that version.
ReleaseClaimed(r) ==
  IF job[r].schema = {} THEN None
  ELSE versions[DescriptorOf[r].source][DescriptorOf[r].schema_version]

ClaimsAreOnRecord ==
  \A r \in Runs : \A i \in TerminalsOf(r) :
    events[r][i].release = ReleaseClaimed(r)

\* catalog.py:392.  The shape a run works from is the shape its pin names, even
\* if the application has shipped since.
WorksFromThePin ==
  \A r \in Runs :
    LET d == DescriptorOf[r] IN
    d.source \in AppTables /\ job[r].schema # {} =>
      job[r].schema = tables[d.source][d.schema_version]

\* emit.py:462.  A run that reports an error and no output has left none of its
\* rows behind, in any table or under any location, whichever step failed.
FailedRunsLeaveNothing ==
  \A r \in Runs :
    pc[r] = "raised" =>
      /\ \A t \in Tables : data[t] # None => data[t].by # r
      /\ \A l \in Locations : r \notin files[l]

DatasetsOf(r) ==
  UNION {events[r][i].inputs \cup events[r][i].outputs : i \in DOMAIN events[r]}

\* emit.py:462-466.  A table two domains read or write is one dataset.
OneDatasetOneNamespace ==
  \A q, r \in Runs : \A c \in DatasetsOf(q), d \in DatasetsOf(r) :
    c.name = d.name => c.namespace = d.namespace

\* catalog.py:455 and local.py:161.  register rewrites version 1 of a product
\* under whoever pins it; still, when nobody is publishing the product and nobody
\* was cut short at it, what is listed is what its rows are, so that a pin
\* resolves to what will be read.
Unsettled(t) ==
  \E r \in Runs : Table(r) = t /\ pc[r] \in {"register", "registering", "escaped"}

ProductsAreAsListed ==
  \A t \in Tables \ AppTables :
    ~Unsettled(t) =>
      tables[t][1] = IF data[t] = None THEN {} ELSE AsRegistered(data[t].columns)

\* catalog.py:392 and local.py:47.  The pin is checked on one connection and the
\* rows are read on the next: a run that has its pin finds rows there, whoever
\* rewrites the table between the two, or died when it had half done so.
PinsLeadToRows ==
  \A r \in Runs : pc[r] = "read" => data[DescriptorOf[r].source] # None

\* emit.py:462-466 and catalog.py:475.  Whoever reads a product names it by a
\* domain that writes it, although register deletes the tags before it inserts
\* them and a reader without a tag to go by uses its own domain: only a death
\* among the writers splits the lineage.
ProductsKeepTheirOwner ==
  \A r \in Runs : \A d \in DatasetsOf(r) :
    LET writers == {q \in Runs : Table(q) = d.name} IN
    d.name \notin AppTables =>
      \E q \in writers : DescriptorOf[q].domain = d.namespace \/ pc[q] = "escaped"

-----------------------------------------------------------------------------
(* What makes the invariants above inductive: RuntimeProofs and              *)
(* ReleaseProofs prove each of these kept by every step.                     *)

\* A run's first event is its terminal one, and the stage says how many it
\* has emitted.
EmissionInv ==
  \A r \in Runs :
    /\ Len(events[r]) <= 2
    /\ \A i \in DOMAIN events[r] : Terminal(events[r][i]) <=> i = 1
    /\ pc[r] \notin Ended \cup {"assert"} => Len(events[r]) = 0
    /\ pc[r] = "assert" => Len(events[r]) = 1
    /\ pc[r] \in {"returned", "raised"} => Len(events[r]) >= 1

\* An application's session is for its own release, a run's for an output.
SessionInv ==
  session # None =>
    \/ /\ session.stage = "release"
       /\ session.holder \in Apps
       /\ session.table \in AppTables
       /\ session.columns # {}
    \/ /\ session.stage # "release"
       /\ session.holder \in Runs
       /\ session.table \notin AppTables

\* A pin that was resolved stays on record, with the release it named.
PinInv ==
  \A r \in Runs :
    LET d == DescriptorOf[r] IN
    /\ job[r].schema = {} => job[r].publication = None
    /\ job[r].schema # {} =>
         /\ job[r].publication = versions[d.source][d.schema_version]
         /\ d.source \in AppTables =>
              job[r].schema = tables[d.source][d.schema_version]

\* A terminal event claims what the run resolved.
ClaimInv ==
  \A r \in Runs : \A i \in TerminalsOf(r) :
    events[r][i].release = job[r].publication

-----------------------------------------------------------------------------
(* What no step does *)

Publishable(r) ==
  job[r].result = "passed" \/ DescriptorOf[r].on_failure = "warn"

\* A declared target (its files, rows, shape or tags) changes only while a run
\* whose suite let it publish is in progress: blocked and quarantined batches
\* reach no consumer.
TargetsAreGuarded ==
  [][\A r \in Runs :
       LET t == DescriptorOf[r].target
           l == DescriptorOf[r].location IN
       \/ UNCHANGED <<data[t], tables[t], lf_tags[t], files[l]>>
       \/ \E q \in Active : DescriptorOf[q].target = t /\ Publishable(q)]_vars

\* catalog.py:392-393, of the versions applications publish.
PublishedVersionsStand ==
  [][\A t \in AppTables : \A v \in Recorded(t) :
       /\ tables'[t][v] = tables[t][v]
       /\ versions'[t][v] = versions[t][v]]_vars

-----------------------------------------------------------------------------
(* What must happen *)

\* A run that was started comes to an end, whoever holds the catalog.
EveryRunEnds == \A r \in Runs : pc[r] = "resolve" ~> pc[r] \in Ended

\* The run as RunContract sees it.
Standing(r) ==
  CASE events[r] # <<>> ->
         (IF events[r][1].type = "COMPLETE" THEN "completed"
          ELSE IF events[r][1].outputs # {} THEN "quarantined" ELSE "failed")
    [] events[r] = <<>> /\ pc[r] = "idle"    -> "waiting"
    [] events[r] = <<>> /\ pc[r] = "escaped" -> "lost"
    [] events[r] = <<>> /\ pc[r] \in {"create", "register", "registering", "emit"} ->
         IF job[r].side THEN "set aside" ELSE "in place"
    [] OTHER -> "working"

Told(r) == IF Len(events[r]) = 2 THEN events[r][2].result ELSE None

Contract == INSTANCE RunContract WITH
  Run      <- Runs,
  Lenient  <- {r \in Runs : DescriptorOf[r].on_failure = "warn"},
  Nothing  <- None,
  standing <- [r \in Runs |-> Standing(r)],
  told     <- [r \in Runs |-> Told(r)]

\* The executor implements the contract.
KeepsTheContract == Contract!Spec
=============================================================================
