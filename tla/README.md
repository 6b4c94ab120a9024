# A specification of pipeline-runtime

TLA+ modules for the pipeline runtime in `src/pipeline_runtime`, the TLC
configurations that check them on small instances, and proofs that TLAPS checks
for every instance. Line references such as `run.py:41` are to files under
`src/pipeline_runtime/` of the repository, `glue_probe.py` to the one under `tools/`.

Contents: the system and its hazards, the modules, how they correspond to the
code, the runs, the theorems, where code and text disagree, what is left out, and
what is planned.

## The system

One *run* executes one *descriptor*: a declared source with a pinned version, the
domain's steps, an expectation suite, a target, and what to do when the suite
fails. Everything else exists so that a run can be trusted by people who did not
see it happen.

| Part | Its state | Its operations | Talks to |
|---|---|---|---|
| executor (`run.py`, `errors.py`) | where the run is, and what `execute` has filled in on `Result` and `Lineage` so far | `run`, `execute`, `_dispatch` | every part below, in a fixed order |
| catalog (`catalog.py`) | `_catalog.tables`, `_catalog.versions`, `_catalog.lf_tags`, and the rows, in one DuckDB file | `connect`, `resolve`, `current_version`, `publish`, `register`, `tags_for`, `changes`, `Schema.enforce` | executor, local backend, consumers check, releases |
| local backend (`backends/local.py`) | parquet files under the warehouse | `read_glue_table`, `read_dms_landing`, `collapse_cdc`, `_write`, `_publish`, `run_sql`, `run_python_module` | catalog, the filesystem |
| events (`emit.py`) | what has been emitted | `emit`, `dataset`, the facets | an OpenLineage transport |
| expectations (`expectations.py`) | none | `load_suite`, `validate`, `_build` | Great Expectations |
| descriptor (`descriptor.py`, `descriptor_v2.py`, `pins.py`) | a YAML file | `parse`, `as_v1`, `quarantined`, `readers` | executor, consumers check |
| policy (`policy.py`) | an ontology file, which governance rewrites, and a one-entry cache of it per process | `ontology_path`, `ontology`, `_load`, `resolve` | executor |
| consumers check (`consumers.py`) | none of its own | `judge`, `report`, `main` | catalog, descriptors |
| git provenance (`emit.py`) | none; it reads the repository, which people change meanwhile | `_git_provenance`, `_work_tree`, `_descriptor_location`, `source_code_location`, `_normalize_remote` | git, four subprocesses per event |
| seed (`seed.py`) | the catalog before any run, an application's releases, a landing prefix | `seed`, `own`, `publish`, `forget` | catalog, the filesystem |
| command line, demo (`__main__.py`, `demo.py`) | the directory a demo starts over | `main`, `demo`, `unexpected` | seed, executor |
| glue probe (`tools/glue_probe.py`) | a database, a table, a role, a crawler and a bucket in a real account | `main`, its three modes, `cleanup` | Glue, IAM, S3, other people's probes |
| other tools | none | | files, standard output |

How they interact. Runs are processes: an orchestrator starts any number of them,
in any order, some at the same time. They share three things, the catalog file,
the warehouse and the descriptors, and none of them belongs to a run:

* Applications publish new versions of the tables runs read, without asking.
* DuckDB lets one process have the file open for writing and refuses everybody
  else meanwhile. A run opens the file five times, and closes it in between.
* `register` is not a transaction; `publish` is.
* Owners rewrite descriptors whenever they like.
* A run can be killed, and can die of an exception nobody foresaw; `run` catches
  `PipelineError` and nothing else.
* What an event says of the descriptor is collected when the run is over, by four
  git calls and a read of the file. Each call may fail, and people edit, commit and
  check out between them. Several machines report one descriptor.
* Governance replaces the ontology between any two reads of it.
* The seed and the demo delete and make what runs use, one statement at a time, and
  may be stopped after any of them.
* Two people may probe one account at once, under the same names.

What makes each part correct:

* **executor**: one terminal event per run; what it says is what happened; a run
  that was started ends.
* **catalog**: a published version is never rewritten; a pin is a claim about a
  shape and stays true; a table has one owner, whoever reads it.
* **local backend**: a declared target changes only for a batch its suite let
  through; an output that was reported is there, whole; a change log reads as the
  table it is the log of.
* **events**: the release named is the one on record; one dataset has one name.
* **consumers check**: a release it let out breaks no reader it was there to
  protect.
* **policy**: an edited ontology is in force from the next run on, cache or not.
* **git provenance**: a signature is of the commit named with it; what machines say of
  one descriptor agrees; the commit named holds the bytes hashed, while nobody edits the
  file between the two.
* **seed, demo**: what is left does not depend on what went before.
* **glue probe**: it deletes all it made and nothing another probe made.

The hazards behind these are listed, each at its line, in `PROJECT.json`.

## The modules

```
Schema ── Catalog ──┐
                    ├── Executor ── Runtime ── Claims ── MCRuntime
   Expectations ────┘                 │  └ implements RunContract
Schema ── Consumers ── MCConsumers    └── the proofs
Cdc ── MCCdc
Policy ── Provenance ── MCProvenance
Fixture, Probe ── Scripts ── MCScripts
```

| Module | What it is |
|---|---|
| `Schema` | columns; what `Schema.enforce` accepts and makes of a frame; what is registered of a table |
| `Catalog` | the metastore and the rows beside it; the file lock; release and registration step by step |
| `Expectations` | what a suite can answer, by the kind of its rules |
| `Executor` | a run: one action per access to what others can see, every error path, every event |
| `Runtime` | runs and releases together: `Init`, `Next`, fairness, properties, the refinement mapping |
| `RunContract` | the abstract specification: what a run promises whoever watches it from outside |
| `Claims` | what the repository's text says and the code does not do |
| `Consumers` | the producer-side check, the builds that run it and the owners of descriptors |
| `Cdc` | a DMS change log, how it lands, and what `collapse_cdc` makes of it |
| `Policy` | which ontology file, when it was changed, and the cache of it |
| `Provenance` | a run from its vocabulary to its event, call by call, with people at the repository |
| `Fixture` | the seed, the demo and the command line, statement by statement, over one directory |
| `Probe` | `glue_probe.py`: any number of scripts in one account |
| `Scripts` | `Fixture` or `Probe`, which share nothing |
| `MCRuntime`, `MCConsumers`, `MCCdc`, `MCProvenance`, `MCScripts` | instances for TLC |
| `RuntimeProofs`, `ReleaseProofs`, `PlacementProofs`, `ContractProofs`, `ConsumersProofs`, `CdcProofs`, `ProvenanceProofs`, `ScriptsProofs` | theorems |

Definitions headed `Mutant` are plausible mistakes in the definition below them.
Nothing uses them: each is there to be put in the place of that definition, and
one of the properties then fails. They show that the properties are about the code.

## How the modules correspond to the code

### Catalog and Schema

`tables[t][v]` is the set of columns of version `v` of table `t` in
`_catalog.tables`, `{}` if it has none; `versions[t][v]` the release
`_catalog.versions` attributes it to; `lf_tags[t]` the tags; `data[t]` what shape
the rows of the DuckDB table have and who put them there. A release is one value,
its producer included.

`session` is the connection that holds the file while more than one statement is
run on it, with what remains to be done: a release, the columns still to insert,
the tags still to insert. A connection that is opened, used and closed around one
statement is one action. While `session` is not `None` nobody else can connect.
`Refused` is the exception `duckdb.connect` raises then, and the one it raises
because of a momentary connection of another process: two reads go together, a
read and a write do not.

| Action or operator | Code |
|---|---|
| `AtPin` | `resolve`: the pin is `max(version)`, and has columns |
| `Ship`, `Publish` | an application's new rows, then `publish`, on one connection; a version that is not ahead raises and changes nothing |
| `CreateTable` | the first connection of `_publish` |
| `BeginRegister`, `InsertColumn`, `DeleteTags`, `InsertTag`, `EndRegister` | `register` in autocommit: each statement, and each row of an `executemany`, is durable on its own |
| `Owner` | the domain `emit` names an input by: the table's `domain` tag, or the reader's domain |
| `Satisfies`, `Enforced` | the three tests of `Schema.enforce` and the projection and cast after them |
| `AsRegistered` | what `_publish` reads back: a created table has nullable columns and no key |

### Executor

`pc[r]` is the next thing run `r` does; `job[r]` holds what `execute` has worked
out; `files[l]` says whose parquet files are under location `l`; `events[r]` is
what has been emitted; `revision[r]` is a number for the bytes of the descriptor
file, which may be rewritten under a run (`Edit`).

The stages follow `execute` from top to bottom:

| `pc` | Action | Code |
|---|---|---|
| `idle` | `Parse` | `pins.parse`, outside `run`'s `try` |
| `resolve` | `Resolve` | the pin against the catalog; `Result` gets schema and publication, or `SchemaDrift` |
| `read` | `Read` | the reader's kind; rows through `Schema.enforce`; no batches, no key, a missing table; batches pandas cannot collapse escape |
| `steps` | `RunSteps` | the declared output, a failed step, an unknown kind; what a Python step raises escapes |
| `policy` | `ResolvePolicy` | `UnknownTag` for what the ontology lacks; an ontology that is missing or is not JSON escapes |
| `validate` | `ValidateFrame` | a verdict, or an exception out of `load_suite` or `_build` |
| `prepare` | `Prepare` | the writer's kind, the source's owner and tags, and what a failed suite means |
| `clear`, `unlink` | `ListStale`, `UnlinkStale` | `_write`: the files under the prefix, then their deletion one by one; one that somebody deleted meanwhile escapes |
| `write` | `WriteFiles` | `_write`: the partition keys, then the files |
| `create`, `register`, `registering` | `PublishTable`, `Register`, `Registering` | `_publish` and `register` |
| `emit`, `fail` | `EmitTerminal`, `EmitFailure` | the terminal event, by either way |
| `assert` | `EmitAssertions` | the `OTHER` event of a suite's result |

A run ends `returned`, `raised` (a `PipelineError` reported and raised again) or
`escaped` (anything else, death included). `Raise`, `Escape` and `Advance` are the
three ways on. `Dies` may come at any stage of a run in `Mortal`: a kill, a full
disk, a transport that raises.

Abstracted: a frame is its columns and its writer; a verdict is `passed` or
`failed`; the steps are their kinds and their declared output; an event keeps its
type, datasets, release, sha, error and result. The files one run has under a location
are listed, deleted and written together, and `rglob` lists at once. `SameName` says
whose files have one name: unpartitioned runs write `part-0.parquet`, and replace each
other's; a partitioned write makes up names of its own. `Earlier` are runs that
are over, whose files the warehouse begins with. `QuarantineTable` and
`QuarantineLocation` are `quarantined()`, as functions.

### Consumers

`published[v]` is the table's versions, `file[r]` a descriptor naming the table
(whether it parses, its pin, and the version its steps were written against),
`build[b]` a build of the application: the proposal, the version its report named
and the descriptors as it saw them.

`Changes` is `catalog.changes`, `Judge` is `judge`, `Report` the verdicts and exit
status, `Check` all of `main`, `Publish` the `catalog.publish` that a passing
build goes on to. `Bump` is the one thing an owner has to do after a release: move
the pin to the version the catalog is at. The other actions are what else owners
do to a file. `Steady` readers exist from the start and are only ever bumped: their
steps are never rewritten, and it is they whom the check is for.

### Cdc

`table[n]` is the application's table after `n` changes, `log` the rows DMS makes
of them, `landed` those in some file. `Land` adds a file of any rows of the log: old
ones, new ones, ones landed before. `collapse_cdc` is the operator of that name,
`LatestOf` its sort and `drop_duplicates`, `Alive` its filter. A file is a set of
rows, since the files are concatenated and all but one row of a key dropped. Rows
of the full load have no `Op` and the lowest sequence number, as `seed.py`'s have;
a row without a number would be sorted last by pandas, and nothing in the code says
whether DMS ever writes one.

### Policy and Provenance

`ontologies[p]` is the file at a candidate path, or `None`; its `mtime` is the
number of the change that wrote it, `now` counting the changes people make to any
file. `cache` is the `lru_cache(maxsize=1)` of `_load`, keyed by path and time.
`Choose`, `Stamp` and `Load` are the three steps of `ontology`: which file, its
`stat`, the file or the entry. `Govern` is somebody's write or removal, between any
two of them.

`history` is the repository's commits, `head[p]` what the clone at place `p` has
checked out, `bytes[p]` what the descriptor's file holds there. `report` is the event
being put together, `reports` those emitted.

| Action | Code |
|---|---|
| `Start`, `Vocabulary`, `Resolved` | a run resolves its tags; a vocabulary that is gone escapes |
| `GitLog` | `_git_provenance`: `git log -1` on the file, commit and signature in one call |
| `Locate` | `_descriptor_location`: the work tree, never under `site-packages`; a name relative to it, or to `domains/`, or the bare name |
| `Hash` | `provenance_facet`'s `read_bytes`, which raises when the file is gone |
| `Root`, `Remote` | `source_code_location`: the work tree again, then origin's URL |
| `Edit`, `Commit`, `Checkout` | people |

Each git call may come back with nothing, which is what a failure, a timeout and a
missing `git` are to `_git`. A shallow clone's history begins at its head. History is
linear; the descriptor is one file; remotes are their scheme, their port and whether they
carry a token. `_normalize_remote` makes https of ssh and of scp's short form, takes
away what stands before the host, and keeps the port unless it is 443 or the URL is
plain http. `clean` and `heard` are history variables the properties refer to.

### Fixture

A command is the sequence of its statements (`todo`); `Effect` is what a statement
leaves on disk, `Step` the next one, `Fail` a `PipelineError` that ends the command
with status 1, `Die` an end between two statements. Statements are those the
database commits by themselves: `forget` is two, `own` is two, `publish` is one
transaction. A run is one statement here; `Executor` has its inside. `Readable` is
what `Executor` makes of the run's pin and landing prefix. `Demo` refuses where
`unexpected` found somebody's files.
`Fresh` is what a seed leaves in an empty directory, in closed form; that the
statements get there from anywhere is `SeedsConverge`. `FixtureAssumption` has 1 among
`Scales`, since that is what `--scale` is unless given (`seed.py:253`) and what a demo seeds
with.

### Probe

`at[p]` is the next call of script `p`, `owner` who made what is in the account under
each of the fixed names, `buckets` whose bucket is there (its name is unique), `busy`
whether the crawler runs. `Check`, `make_bucket` and `create_database` come before
the `try`; what follows leads to `Finally`, which is the first deletion or, with
`--keep`, the end. `Cleanup` is the order of the deletions. `Raise` is a refusal at any call,
`LoseAnswer` a database made whose answer never arrived, `Kill` a kill, `Timeout` the
fifteen minutes of a wait, `CrawlEnds` the account's side, `ClearAway` a person who
deletes a dead script's database. `why[p]` records, for the property, what kept a
script from deleting something.

### RunContract

A run has a standing: it waits, works, has placed rows `in place` or `set aside`, and
reports `completed`, `quarantined` or `failed`, or is `lost`. It reports what
follows from where its rows went, once; a run that reports failure has placed
none; what it tells of its suite afterwards agrees with its report: no completion
beside a failed suite unless the descriptor is lenient. Whoever begins concludes.
`Runtime!Standing` and `Told` are the mapping: they read the standing off the
events a run has emitted and, before there are any, off its stage.

## The runs

Six runs pass. The constants are in the `.cfg` files and, with their comments, in
the MC modules; each instance is the least that has the actors the question needs.

| Run | Checks | On |
|---|---|---|
| `concurrent` | `TypeOK`, `OneTerminalEvent`, `OneDatasetOneNamespace`, `ClaimsAreOnRecord`, `WorksFromThePin`, `TargetsAreGuarded`, `PublishedVersionsStand`, `EveryRunEnds`, `KeepsTheContract` | any two, at once, of three runs over one table: two domains', and a second one on the first one's target, quarantining, blocking and lenient, one with a Python step; an earlier run's files under every prefix, so that two runs meet at their deletion; the table's application with one release, which it may withdraw and ship again; one run may die anywhere |
| `succession` | `OutputsAreWhole`, `FailedRunsLeaveNothing`, `ProductsAreAsListed`, `ProductsKeepTheirOwner`, `PinsLeadToRows` | any three, in every order, of fifteen descriptors: a run that may die anywhere, its replacement with other columns, tags and files, whose file is rewritten once, a reader of the product, another domain's run on the reader's target, one over landed batches, and ten with one fault each; one after another on one target, two at a time on different ones |
| `consumers` | `TypeOK`, `SteadyReadersWork`, `ReleasesServeWhoTheySaw`, `ReleasesAreOnRecord` | two builds, five shapes, three versions, one steady reader and one whose owner does anything |
| `cdc` | `KeysAreAsLastLanded`, `CaughtUpIsTheTable` | two keys, two values, three changes, every subset of the log landed in every order |
| `provenance` | `TypeOK`, `VocabularyIsCurrent`, `VerdictsAreAboutACommit`, `CommitHoldsTheBytes`, `MachinesAgreeOnTheName`, `ClonesAgreeOnTheRepository` | a laptop's clone over ssh, a CI job's shallow clone with a token and a port, 443, a wheel in a project's environment and a loose copy; two changes by people, two commits, two events |
| `scripts` | `TypeOK`, `SeedsConverge`, `ResolvableVersionsAreAttributed`, `DemoReportsThreeRuns`, `NothingIsLeftForNothing`, `LiveProbesAreLeftAlone`, `ProbesEnd` | every sequence of seeds, demos and runs, of two scales, drifted or not, clean or not, stopped anywhere; and two probes at once, in any two modes |

What they show:

* `OneTerminalEvent`: never two, whatever fails between the two `emit` calls; and
  one whenever the caller gets control back.
* `OneDatasetOneNamespace`: two domains that read one table, and write their own,
  give every table one namespace.
* `ClaimsAreOnRecord`: an event claims a release only if the run resolved its pin,
  and it is still the one on record, also if the application shipped since.
* `WorksFromThePin`, `PublishedVersionsStand`: releases do not pull a shape from
  under a run.
* `EveryRunEnds`: in particular a run that meets a locked catalog.
* `KeepsTheContract`: the executor, with its file locks, half-written tables and
  error paths, implements `RunContract`, liveness included.
* `TargetsAreGuarded`: every step that changes the files, rows, shape or tags of a
  declared target happens while some run whose suite let it publish is in
  progress. Blocked and quarantined batches leave it alone.
* `OutputsAreWhole`: when a run has reported, its files are alone under their
  location and rows, shape and tags are its own, whatever a dead run left behind and,
  where runs are kept apart, whoever writes elsewhere meanwhile.
* `FailedRunsLeaveNothing`: whichever fault a descriptor has, a run that raised has
  no row in a table and no file.
* `SteadyReadersWork`: through every sequence of checks, releases and bumps, every
  published version serves the steps of a steady reader, although each check
  compares with the pin of the day and never with what the steps were written for.
* `ReleasesServeWhoTheySaw`: no release was compared with nothing. Unreadable
  descriptors and unknown pins stop it, and so does everything that could break a
  reader as it then was.
* `ReleasesAreOnRecord`: two builds that passed side by side do not release the
  same version.
* `KeysAreAsLastLanded`, `CaughtUpIsTheTable`: no resurrected, stale or duplicate
  row from any landing order.
* `ProductsAreAsListed`: `register` rewrites version 1 of a product under whoever pins
  it; still, where nobody is publishing it and nobody was cut short at it, the pin
  resolves to what will be read.
* `ProductsKeepTheirOwner`: a product's readers name it by a domain that writes it,
  although its tags are deleted before they are inserted; only a death among the
  writers splits the lineage.
* `PinsLeadToRows`: a run that has its pin finds rows in that table on the next
  connection, whoever rewrites the table between the two, failed at it, or died
  with the table stored and not listed.
* `VocabularyIsCurrent`: what a run resolves its tags against is what the chosen file
  said at some moment of that call; the cache serves no edit late.
* `VerdictsAreAboutACommit`: a signature is the one of the commit named, though heads
  move between the calls.
* `CommitHoldsTheBytes`: where the file was as committed when git was asked, and its own
  bytes stayed until they were hashed, the commit named has the bytes hashed, whatever
  else was committed or checked out in that clone meanwhile. An edit of the file in that
  window gives an event whose commit and sha are not of one text; nothing in the code
  prevents that, and the property leaves it out.
* `MachinesAgreeOnTheName`, `ClonesAgreeOnTheRepository`: lineage from a laptop, a CI
  job and a wheel joins, the URLs if the clones are reached as is `Usual`: not over plain
  http, and at no port but 443.
* `SeedsConverge`, `ResolvableVersionsAreAttributed`, `DemoReportsThreeRuns`: a seed
  that ends leaves what it leaves in an empty directory, whatever half of another
  command it found; wherever it stops, no version is without its release; a demo
  that ends well is three runs, and not an earlier one's.
* `LiveProbesAreLeftAlone`: the database is a lock. A script that does not get it
  touches nothing under the shared names.
* `NothingIsLeftForNothing`: what a script leaves behind it leaves for one of three
  reasons, which the next section but one lists.
* `ProbesEnd`: retries and waits have an end.

The bounds. `MaxVersion` is the seeded version and one or two releases: a property
over versions relates a version to the next. It is 1 in `succession`, which has no
application: releases beside its runs are what the theorems add. `MaxActive` is 2, since nothing a run does looks at more than one other.
`MaxStarts` is how many runs are started in all: 2, and 3 in `succession`, a death, a
recovery and a reader or somebody beside them. `Mortal` are the runs that may die,
`Edited` those whose file may be rewritten while they last. `MaxEdits` is 1 where any
is: rewritten, or not. `MaxSeq` is 3, an insert, an update and a delete of one key, or two of these and a change of another. Three
shapes in `MCRuntime` (as pinned, a column added, a column dropped) and five in
`MCConsumers` give every difference `changes` distinguishes. `MaxMoves` is 2: a change
between the first and the second of two readings, and one after. `MaxCommits` is 2, the
commit an event names and another; `MaxReports` is 2, the events that have to agree.
`Attempts` is 2 where the code has 12, since only the last differs from the others.
`MaxEvents` is 1: a demo must not find the log empty. Two scales tell a seed's rows
and batches from an earlier one's.

Symmetry is used in `provenance` only, over contents and vocabularies, of which no
definition names one. `CHECK_DEADLOCK` is off only in `scripts`, where every probe may
have ended and no person has to start another; `Runtime` has `Resting`, a stutter
allowed when no run is under way.

Runs apart. `Spec` starts runs in any order and as many at once as `MaxActive` says,
since nothing in the runtime keeps two from one target. Two that share one delete each
other's files, and no outcome is promised: `OutputsAreWhole` and `ProductsAreAsListed` are
false then. `Orchestrated` is `Spec` under somebody who reads descriptors before he
starts anything. `ParseApart`: no run starts while one is under way that may write to
the same table, or under the same prefix, quarantines included. It says nothing of what
runs read, so a reader may come upon a product at any moment of its publication, and
everybody still meets at the catalog's file. `succession` is a run of `Orchestrated`; runs
that do not overlap at all are a case of it (`OneAtATimeIsOrchestrated`). The other
runs are of `Spec`, and so are all theorems but the two that say otherwise.

Fairness. `WF_vars(Step(r))` for each run: a process that is running goes on
running. `Step` leaves out `Parse`, `Dies` and `Edit`: nobody has to start a run, kill it or
edit its file. Applications have no fairness, so one may keep the catalog open for
ever; runs end nevertheless, because `connect` raises where it could have waited.
`Scripts` has `WF` of each probe's own calls: a process that is alive goes on. A crawl
need not end, nor a role ever become visible: `Timeout` (`glue_probe.py:351`) and the
count of attempts (`glue_probe.py:323-343`) are what makes `ProbesEnd` true. The other
specifications have safety properties only.

## What is proved

For all constants that satisfy the named assumptions (`CastableAssumption`,
`CatalogAssumption`, `ExecutorAssumption`, `RuntimeAssumption`, `TargetsAssumption`,
`WarehouseAssumption`, `ConsumersAssumption`, `CdcAssumption`, `PolicyAssumption`,
`ProvenanceAssumption`, `FixtureAssumption`, `ProbeAssumption`); TLC evaluates each of these in the runs.
They say that constants have their types and that process and release names are
distinct, and two things more. `TargetsAssumption`: no pipeline's target, nor its
quarantine, is a table an application publishes. `WarehouseAssumption`: no quarantine
is somebody's target, and no target's location lies under another target's, or under a
quarantine. Nothing in the runtime checks either; both are how a warehouse is laid
out. `quarantined()` itself makes a sibling, by the suffix it adds to table and prefix.

| Theorem | Says | By |
|---|---|---|
| `RuntimeProofs!TypeCorrect` | `TypeOK` always | one lemma per action, those of the catalog first |
| `RuntimeProofs!ReportsOnce` | `OneTerminalEvent` always | `EmissionInv` |
| `ReleaseProofs!PublishedVersionsNeverRewritten` | `PublishedVersionsStand` | `SessionInv` |
| `ReleaseProofs!PinsHold` | `WorksFromThePin` always | `PinInv` |
| `ReleaseProofs!ClaimsStayOnRecord` | `ClaimsAreOnRecord` always | `PinInv`, `ClaimInv` |
| `ReleaseProofs!OneNamespaceAlways` | `OneDatasetOneNamespace` always, if every source is an application's table and runs that write one table share a domain | `LabelInv`, `NamingOf` |
| `PlacementProofs!FailuresLeaveNothing` | `FailedRunsLeaveNothing` always | `PlacementOf`, for each run |
| `PlacementProofs!OutputsAreAlwaysWhole` | `OutputsAreWhole` always, in `Orchestrated` | `BuildOf`, `KeptApart`, `HeldOf` |
| `PlacementProofs!ProductsAreAlwaysListed` | `ProductsAreAsListed` always, in `Orchestrated` | `ListedOf`, `BuildOf`, `HeldOf` |
| `PlacementProofs!OneAtATimeIsOrchestrated` | `Spec` implies `Orchestrated`, if runs are finite in number and `MaxActive` is 1 | the number of runs under way |
| `ContractProofs!ImplementsTheContract` | each step is one of `RunContract`, or a stutter: the safety half of `KeepsTheContract` | `DecisionOf` |
| `ContractProofs!TargetsAreAlwaysGuarded` | `TargetsAreGuarded` | `DecisionOf`, `HeldOf` |
| `ContractProofs!PinsAlwaysLeadToRows` | `PinsLeadToRows` always | `RowsOf`, `StoredInv`, `LedOf` |
| `ContractProofs!AloneNobodyIsRefused` | no step is ever `Refused`, if runs are finite in number, `MaxActive` is 1 and there are no applications | `HeldOf` |
| `ContractProofs!ProductsAlwaysKeepTheirOwner` | `ProductsKeepTheirOwner` always, if contracts are `Labelled` | `TaggingOf`, `TagsOf`, `VouchedOf` |
| `ConsumersProofs!TypeCorrect` | `TypeOK` of `Consumers` | directly |
| `ConsumersProofs!CheckedReleasesBreakNobody` | `SteadyReadersWork` always | `SteadyInv` |
| `ConsumersProofs!ReleasesStayOnRecord` | `ReleasesAreOnRecord` always | `RecordInv` |
| `ConsumersProofs!ReleasesServe` | `ReleasesServeWhoTheySaw` always | `WrittenInv`, `SeenInv` |
| `CdcProofs!EveryKeyReadsAsLastLanded` | `KeysAreAsLastLanded` always | `LogInv` |
| `CdcProofs!CompleteLogIsTheTable` | `CaughtUpIsTheTable` always | `LogInv`, `LastInv` |
| `ProvenanceProofs!TypesHold` | `TypeOK` of `Provenance` | one lemma per part |
| `ProvenanceProofs!VocabularyIsAlwaysCurrent` | `VocabularyIsCurrent` always | `CacheIsOfItsTime` |
| `ProvenanceProofs!VerdictsAreAlwaysAboutACommit` | `VerdictsAreAboutACommit` always | history only grows |
| `ProvenanceProofs!CommitAlwaysHoldsTheBytes` | `CommitHoldsTheBytes` always | what `last` means |
| `ProvenanceProofs!MachinesAlwaysAgreeOnTheName` | `MachinesAgreeOnTheName` always | `heard` |
| `ProvenanceProofs!ClonesAlwaysAgreeOnTheRepository` | `ClonesAgreeOnTheRepository` always, over any places and remotes | a location's URL is its clone's |
| `ScriptsProofs!ProbesKeepTypes` | `ProbeTypeOK` always | one lemma per action |
| `ScriptsProofs!NothingIsEverLeftForNothing` | `NothingIsLeftForNothing` always | `Locked`, `Ordered`, `Accounted` |
| `ScriptsProofs!LiveProbesAreAlwaysLeftAlone` | `LiveProbesAreLeftAlone` | `Locked` |
| `ScriptsProofs!FixtureKeepsTypes` | `FixtureTypeOK` always | `FixtureInv` |
| `ScriptsProofs!ResolvableVersionsAreAlwaysAttributed` | `ResolvableVersionsAreAttributed` always | `Follows`, `CatalogBy` |
| `ScriptsProofs!SeedsAlwaysConverge` | `SeedsConverge` always | `Follows`, `DoneBy` |
| `ScriptsProofs!DemosAlwaysReportThreeRuns` | `DemoReportsThreeRuns` always | `Follows`, `DoneBy` |
| `ScriptsProofs!ScriptsKeepTypes` | `TypeOK` of `Scripts` | the two before |

The arguments:

* *One terminal event.* A bound on the number of events is not inductive: nothing
  in it says that a run about to emit has emitted nothing. `EmissionInv` ties the
  number of events, and which of them is terminal, to the stage. The steps then are
  of two kinds, quiet ones, which stay before emission or leave the program, and
  the three that emit.
* *Published versions.* Only a session writes to `tables` and `versions`, so
  everything depends on whose session it is. `SessionInv`: an application's is for
  its own table, a run's is never for an application's, which is where
  `TargetsAssumption` is used.
* *Pins and claims.* `PinInv` says that what a run resolved is what is on record; it
  is kept because published versions stand. `ClaimInv` adds that a terminal event
  carries what the run resolved.
* *Failures leave nothing.* Rows and files of a run exist only from its write on, and
  then it has no error; no stage that can raise follows the write. The converse, that
  a run on its way has no error, is what makes it inductive: without it a run might
  reach its write with one.
* *One namespace.* A run names its source by the owner it read there, long before it
  emits. `LabelInv` says that the tags of an application's table never change, so that
  every reader finds the same owner; `NamingOf` carries it from `Prepare` to the event.
  A product's tags do change, which is why the theorem asks that sources be
  applications' tables; of products, *Owners of products* below.
* *Whole outputs.* `BuildOf` says how much of an output is there at each stage from
  the deletion of stale files on: while `register` is under way, what is listed and what
  its session has still to insert make up the whole. Others keep it: runs started apart
  stay apart (`KeptApart`), so nobody else clears what the run has written, as `Under`
  joins no two of their prefixes, nor creates its table, nor, since a session is for its
  holder's own table (`HeldOf`), writes what is listed of it (`OthersLeave`). Releases
  may come in anywhere. Deletions go by a list made earlier, and `StaleOf` says that the list
  is of one's own prefix.
* *Products as listed.* A product is unsettled from the moment its rows are stored
  until its registration has ended, and for good once somebody died there. It settles
  only when `register` closes its session, and by then `BuildOf` has it whole; outside,
  nobody writes what is listed of it.
* *Pins lead to rows.* `StoredInv` says that what is listed is stored, also while it is
  being registered and after a death, because `create_table` comes before `register`,
  which `RowsOf` says of each run, and nobody takes rows away again. It speaks of the
  moment of `resolve`; `LedOf` carries it to the read, which is on another connection.
* *Owners of products.* A reader takes the owner from the tags it finds, or is its
  own. It gets there only if its pin resolved, hence the product was listed, hence some
  run has stored rows and is in its registration, past it, or was cut short there
  (`TagsOf`). Nobody can open the file while tags are deleted and inserted again
  (`TaggingOf`), so what a reader sees are all the tags of a contract that was registered
  last, whichever of several writers that was, and however they overlapped. `VouchedOf`
  carries what a reader made of them from `Prepare` to the event, and a writer, once past
  its registration, stays one. `Labelled` asks of descriptors whose tags the ontology takes
  that their `domain` tag is their own domain, and only one; the code compares the
  two nowhere.
* *The contract.* `RunContract` knows of a run that it is working, has its rows in
  place or set aside, and how it was reported. `DecisionOf` ties these to the suite: from
  `Prepare` on it is settled whether rows go aside, no run whose batch is blocked gets
  that far, and an event says what was settled. Each step is then one the contract
  allows or one that leaves what it sees alone.
* *Guarded targets.* Whoever writes to a target, or deletes from it (`StaleOf`), is past
  `Prepare` and, by `WarehouseAssumption`, not setting rows aside, so `DecisionOf` says
  its suite let it. For the rows `register` inserts one has to know besides whose
  session it is (`HeldOf`).
* *Checked releases.* A check compares a proposal with the pin; the property speaks of
  the version the steps were written for. `SteadyInv` bridges the two: what serves
  the steps is every version on record, the pinned one among them, and also every
  proposal that has passed and is yet to be released. A proposal that breaks nothing
  serves the pinned version (`UnbrokenServes`), the pinned version serves the steps, and
  serving is transitive (`ServesTransitive`). Passed proposals belong in the
  invariant because check and publication are two steps: in between pins move and
  others release, and a release whose version has been taken is refused, which is
  `RecordInv`.
* *Releases serve whom they saw.* The property is about descriptors as a check saw
  them and versions as they are after the release, with anything in between.
  `SeenInv` carries from the check to the release that each descriptor seen either
  could not be broken or is served by the proposal; `WrittenInv` that no version is
  without columns, so that a pin that resolved still does.
* *The vocabulary.* `CacheIsOfItsTime` says that an entry is what its file says as
  long as the file has the entry's time. A later write has a later time, since the
  clock counts writes; this is what the code takes from the file system, and where
  it ends (see below).
* *Provenance.* An event is built from `report`, so each property is first one of a
  report under way, at each stage what is known by then. Commits are never taken
  back, so a verdict stays true; a commit's `last` has the same bytes, by the way
  `Commit` writes it, and this is an invariant of `history` alone. A location is given
  only with a commit, so only a clone has one, and its URL is what `_normalize_remote`
  makes of that clone's remote. What is left of a `Usual` remote is https, without a
  secret or a port, by whichever of four ways it was written (`Located`).
* *Probes.* Whoever is past `create_database` and not yet past its deletion owns
  the database, and nobody else is there: `Locked`. It needs that a script
  deletes the database after everything else it made under a shared name
  (`Ordered`), since otherwise the next one finds the lock free and the rest taken.
  `Accounted` says, for every place a script may be at, what it may own by then; at
  its end that is nothing, unless `why` says otherwise.
* *Seeds and demos.* A seed is a list of some twenty statements that depends on three
  options, and it may start from whatever any number of others left half done. The proof
  gives each statement a place (`Rank`), 0 to 24, the one it has in a demo with everything
  in it. `SeedScript` and `DemoScript` say of every choice of options that the list is in
  the order of places, has all that is needed and nothing else but the cleaning. From
  this `Follows` is inductive: what a command needs and is not still to come is past. What
  the statements past have achieved is `DoneBy(disk, command, k)`, k being the place of
  the next one; it speaks of nothing before them, so it holds trivially when a command
  begins, on any disk, and `StatementDoes` carries it from k to k + 1. At place 25 it says
  that the disk is `Fresh`, which `Seeded` compares with. That attribution survives a
  killed seed needs it too: the statement that forgets the attribution of a source finds no
  version of it in the registry only because the one that forgets these is past.
* *Change logs.* `LogInv`: a row tells what its change left of its key. `LastInv`: a
  key is what its last change left, or was never there.

Only TLC checks the rest, which is liveness and out of the prover's reach: `EveryRunEnds`,
`ProbesEnd`, and of `KeepsTheContract` that every run that was started is told of or
lost.

## Where the code and its text disagree

Six runs expect a violation: each checks what a comment or docstring says.

* `broken_rule` (`expectations.py:146`). A comment wants a broken rule to be "a
  failed assertion, not a crashed run". One that *raises* is; one whose type does
  not exist is built before the `try`, and the run ends with no event.
* `empty_tags` (`catalog.py:479`). `executemany` refuses an empty list, so a
  contract without tags publishes its rows, loses its old tags and then dies with
  no event, where `emit.py:486` has "one per run, always".
* `partition_typo` (`backends/local.py:101`). `_write` deletes the target's files
  before it looks at the partition keys. A run with a misspelt key is reported as
  having touched nothing (`emit.py:462`), and the files of the last good run are
  gone, its table still listing the rows.
* `read_after_pin` (`backends/local.py:47`). The pin is checked on one connection
  and the rows are read on another. An application that ships in between has its
  rows read and its predecessor named.
* `edited_descriptor` (`emit.py:140`). The file is hashed when the event is
  emitted, so `descriptor_sha256` may be of bytes that never ran, where
  `schemas/provenance.json:20` has "the descriptor bytes as they were when the run
  started".
* `unkeyed` (`catalog.py:256`). `changes` compares names, types and nullability. A
  proposal that drops `primary_key` is a BUMP, "nothing it reads changes", and the
  pipeline that reads the table as `dms_landing` has no key to collapse by.

Others have no run of their own. These the models have as behaviour:

* A run that finds the catalog open elsewhere ends with no event: `connect` lets
  `duckdb.IOException` through, and `run` catches `PipelineError` ("exactly one
  terminal event per run", `run.py:41`). `Refused` is this; `RunContract` has
  `lost` because of it.
* So do exceptions that are no `PipelineError`: whatever a Python step raises, or its
  import (`local.py:214-218`); an ontology that is missing or is not JSON
  (`policy.py:50-62`); batches without `Op`, `_dms_seq` or a key's column
  (`local.py:83-85`); and a file that two runs on one prefix have both listed and the
  other has deleted (`local.py:101-102`). These runs end with no event, and `Escape` is
  what each of them does.
* Between the two connections of `_publish` a run may be refused or die: new rows,
  and a catalog that still shows the old shape (`local.py:135-140`).
* A writer of unknown kind is found after the suite ran, and the failure is
  reported without the suite's result (`expectations.py:37-38`).
* `register` rewrites version 1 of a product under whoever pins it, while
  `catalog.py:392-393` says an existing version is never rewritten.
  `ProductsAreAsListed` is what remains true.
* "Every mode deletes what it made, touches nothing else" (`glue_probe.py:28-30`): a
  bucket stays when `create_database` raises, which is outside the `try`; one
  deletion that raises leaves those after it undone; and Glue does not delete a
  crawler that still runs, which a timeout leads to. These are the reasons of
  `NothingIsLeftForNothing`. A role or a crawler of that name which was there before
  would be deleted by a script that failed to make it; the model's account starts
  without.
* A shallow clone names the commit its history begins at, which is rarely "the
  commit that last touched this descriptor" (`emit.py:325`). `CommitHoldsTheBytes`
  holds all the same.
* The port of an ssh remote stays on the https URL that `_normalize_remote` makes of
  it (`emit.py:244-245`), where no server of the web need be, and a clone over https
  gives another URL. A remote over plain http keeps its scheme and loses its port.
  `ClonesAgreeOnTheRepository` speaks of `Usual` remotes because of these.
* When the call in `_descriptor_location` fails and those before and after it do
  not, an event carries a commit and a location, and a name that is not relative to
  the work tree they are about (`emit.py:186-187`, `259-261`). `MachinesAgreeOnTheName`
  therefore speaks of events whose calls were all answered (`heard`).
* A seed without `--clean` that is stopped between its rows and its versions leaves
  rows of one version under the catalog's entries of another; the next one that ends
  repairs it (`SeedsConverge`).

These no model has:

* An edit of the ontology that keeps the file's modification time is not seen by
  the cache.
* `unexpected` in `demo.py` judges by names, so a directory with foreign files of
  the demo's names is taken for the demo's.
* `__main__.py:54-55` says that a FAIL event already carries the error; an
  `UnknownApiVersion` leaves `run` before there is any event.

## What is not modelled

* Rows. That a step's SQL does what its author meant is the domain's business;
  `collapse_cdc` is the one place where the runtime itself computes on rows. The
  values the seed makes up likewise.
* `Schema.enforce`'s casts of values: whether two types can be cast is a constant.
* The layout of facets, the text of reports and of `SchemaDrift` (`diff_columns`,
  `published_since`, `publications`), which is put together on one read-only
  connection and changes nothing.
* A suite's baselines and the numbers of its rules: `_resolve_baselines` replaces
  names by numbers from a file nobody writes meanwhile.
* `descriptor_v2`: `as_v1` moves fields, and the descriptor of the model is what
  both versions mean.
* Symlinked descriptors, submodules, worktrees and histories with merges.
* What the probes find out about Glue, and print.
* `tools/baseline.py`, `capture_evidence.py`, `extract_from_post.py` and
  `show_provenance.py`: they read files and print or copy text, one at a time.
* Glue, S3 and Lake Formation, which the local backend stands in for.

## What remains

1. *Consumers and runs together.* Descriptors as `Consumers` has them, executed as
   `Runtime` does, while builds release: every reader that was bumped runs, and
   one that was not stops with `SchemaDrift` before it reads.
2. *Parsing.* `descriptor_v2.as_v1` and `pins.parse` against what v1 says.
3. *Suites.* The facet a result becomes.
