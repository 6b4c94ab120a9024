------------------------------ MODULE Catalog -------------------------------
(***************************************************************************)
(* The metastore of catalog.py: the tables _catalog.tables,                *)
(* _catalog.versions and _catalog.lf_tags, beside the DuckDB tables they   *)
(* describe, all in one database file, and the operations on them.         *)
(*                                                                         *)
(* Who may see what, when:                                                 *)
(*   - DuckDB lets one process hold the file for writing, and then no      *)
(*     other process can open it, for reading or writing.  `session' is    *)
(*     that exclusive connection.  A connection opened, used and closed    *)
(*     within one statement is one action and needs no entry there.        *)
(*   - register runs in autocommit: each DELETE, and each row of an        *)
(*     executemany, is durable on its own.  publish is one transaction.    *)
(*   - A process that dies loses its connection; what it had committed     *)
(*     stays.                                                              *)
(***************************************************************************)
EXTENDS Schema, Integers, FiniteSets

CONSTANTS
  Tables,         \* every table a descriptor or a producer can name
  AppTables,      \* the tables applications publish (fraud_raw, policy_raw)
  Landed,         \* those whose rows arrive as DMS batches, not in the database
  MaxVersion,     \* bound: the highest version a producer publishes
  Shapes,         \* the column sets a producer may give its table
  InitialShape,   \* the shape every application table is seeded with
  Releases,       \* <<producer, release>> pairs, one value each
  InitialRelease, \* the release that published the seeded version
  Runs,           \* executions of a descriptor, each a process
  Apps,           \* release pipelines of applications, each a process
  TagKeys, TagValues,
  OwnerOf,        \* the governance plane's domain for each application table
  None

Versions == 1 .. MaxVersion
Tag      == [key : TagKeys, value : TagValues]
Content  == [columns : SUBSET Column, by : Releases \cup Runs]
Session  ==
  [holder  : Runs \cup Apps,
   stage   : {"release", "columns", "tags"},
   table   : Tables,
   columns : SUBSET Column,
   tags    : SUBSET Tag,
   release : Releases \cup {None}]

ASSUME CatalogAssumption ==
  /\ AppTables \subseteq Tables
  /\ Landed \subseteq AppTables
  /\ MaxVersion \in Nat \ {0}
  /\ Shapes \subseteq SUBSET Column
  /\ InitialShape \in Shapes
  /\ InitialRelease \in Releases
  /\ \A s \in Shapes : s # {}
  /\ "domain" \in TagKeys
  /\ OwnerOf \in [AppTables -> TagValues]
  /\ Runs \cap Apps = {}
  /\ Runs \cap Releases = {}
  /\ None \notin Releases
  /\ None \notin Content
  /\ None \notin Session

VARIABLES
  tables,    \* _catalog.tables: the columns of each version of each table
  versions,  \* _catalog.versions: who published a version, or None
  lf_tags,   \* _catalog.lf_tags
  data,      \* the rows: what shape they have, and who put them there
  session    \* the read-write connection that holds the file, or None

catalogVars == <<tables, versions, lf_tags, data, session>>

CatalogTypeOK ==
  /\ tables   \in [Tables -> [Versions -> SUBSET Column]]
  /\ versions \in [Tables -> [Versions -> Releases \cup {None}]]
  /\ lf_tags  \in [Tables -> SUBSET Tag]
  /\ data     \in [Tables -> Content \cup {None}]
  /\ session  \in Session \cup {None}

(***************************************************************************)
(* The seeded catalog: every application table published once, attributed, *)
(* and tagged with the domain that owns it.                                *)
(***************************************************************************)
CatalogInit ==
  /\ tables   = [t \in Tables |-> [v \in Versions |->
                   IF t \in AppTables /\ v = 1 THEN InitialShape ELSE {}]]
  /\ versions = [t \in Tables |-> [v \in Versions |->
                   IF t \in AppTables /\ v = 1 THEN InitialRelease ELSE None]]
  /\ lf_tags  = [t \in Tables |->
                   IF t \in AppTables
                   THEN {[key |-> "domain", value |-> OwnerOf[t]]} ELSE {}]
  /\ data     = [t \in Tables |->
                   IF t \in AppTables
                   THEN [columns |-> InitialShape, by |-> InitialRelease]
                   ELSE None]
  /\ session  = None

-----------------------------------------------------------------------------
(* Queries *)

Recorded(t) == {v \in Versions : tables[t][v] # {}}

\* catalog.resolve: the pin is the version the catalog is at, max(version).
AtPin(t, pin) == pin \in Recorded(t) /\ \A v \in Recorded(t) : v <= pin

\* Mutant: the input is named by the domain reading it, as it was before #7.
OwnerIsReader(t, reader) == reader

\* The domain that owns a table, as the catalog records it, or the reader's.
Owner(t, reader) ==
  IF \E g \in lf_tags[t] : g.key = "domain"
  THEN (CHOOSE g \in lf_tags[t] : g.key = "domain").value
  ELSE reader

-----------------------------------------------------------------------------
(* A producer's release: the new rows, then catalog.publish, through one   *)
(* connection, in the order seed.py plays the application.                 *)

Ship(a, t, shape, release) ==
  /\ session = None
  /\ data' = [data EXCEPT ![t] = [columns |-> shape, by |-> release]]
  /\ session' = [holder |-> a, stage |-> "release", table |-> t,
                 columns |-> shape, tags |-> {}, release |-> release]
  /\ UNCHANGED <<tables, versions, lf_tags>>

\* Mutant: the latest version may be published again.
PublishAgain(a, v) ==
  /\ session # None
  /\ session.holder = a
  /\ \A w \in Recorded(session.table) : w <= v
  /\ tables'   = [tables EXCEPT ![session.table][v] = session.columns]
  /\ versions' = [versions EXCEPT ![session.table][v] = session.release]
  /\ session'  = None
  /\ UNCHANGED <<lf_tags, data>>

\* A version at or below the latest raises ValueError and changes nothing;
\* the insert into both tables is one transaction.
Publish(a, v) ==
  /\ session # None
  /\ session.holder = a
  /\ \A w \in Recorded(session.table) : w < v
  /\ tables'   = [tables EXCEPT ![session.table][v] = session.columns]
  /\ versions' = [versions EXCEPT ![session.table][v] = session.release]
  /\ session'  = None
  /\ UNCHANGED <<lf_tags, data>>

-----------------------------------------------------------------------------
(* A pipeline's publication of its own output. *)

\* The first connection of _publish: CREATE OR REPLACE TABLE ... AS SELECT.
CreateTable(t, content) ==
  /\ session = None
  /\ data' = [data EXCEPT ![t] = content]
  /\ UNCHANGED <<tables, versions, lf_tags, session>>

\* Mutant: the DELETE asks for version 1 and for no table.
BeginRegisterAll(r, t, columns, tags) ==
  /\ session = None
  /\ tables'  = [u \in Tables |-> [tables[u] EXCEPT ![1] = {}]]
  /\ session' = [holder |-> r, stage |-> "columns", table |-> t,
                 columns |-> columns, tags |-> tags, release |-> None]
  /\ UNCHANGED <<versions, lf_tags, data>>

\* register, through a connection of its own: version 1 of the table is
\* deleted and inserted again, then the tags are.
BeginRegister(r, t, columns, tags) ==
  /\ session = None
  /\ tables'  = [tables EXCEPT ![t][1] = {}]
  /\ session' = [holder |-> r, stage |-> "columns", table |-> t,
                 columns |-> columns, tags |-> tags, release |-> None]
  /\ UNCHANGED <<versions, lf_tags, data>>

Holds(c, stage) == session # None /\ session.holder = c /\ session.stage = stage

InsertColumn(r) ==
  /\ Holds(r, "columns")
  /\ \E c \in session.columns :
        /\ tables'  = [tables EXCEPT ![session.table][1] = @ \cup {c}]
        /\ session' = [session EXCEPT !.columns = @ \ {c}]
  /\ UNCHANGED <<versions, lf_tags, data>>

DeleteTags(r) ==
  /\ Holds(r, "columns")
  /\ session.columns = {}
  /\ lf_tags' = [lf_tags EXCEPT ![session.table] = {}]
  /\ session' = [session EXCEPT !.stage = "tags"]
  /\ UNCHANGED <<tables, versions, data>>

InsertTag(r) ==
  /\ Holds(r, "tags")
  /\ \E g \in session.tags :
        /\ lf_tags' = [lf_tags EXCEPT ![session.table] = @ \cup {g}]
        /\ session' = [session EXCEPT !.tags = @ \ {g}]
  /\ UNCHANGED <<tables, versions, data>>

EndRegister(r) ==
  /\ Holds(r, "tags")
  /\ session.tags = {}
  /\ session' = None
  /\ UNCHANGED <<tables, versions, lf_tags, data>>

\* The process holding the file goes away: a publish that raised or was
\* never reached, or a death.
Disconnect(c) ==
  /\ session # None
  /\ session.holder = c
  /\ session' = None
  /\ UNCHANGED <<tables, versions, lf_tags, data>>
=============================================================================
