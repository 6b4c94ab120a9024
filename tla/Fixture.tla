-------------------------------- MODULE Fixture --------------------------------
(***************************************************************************)
(* The example on disk and the commands that make it: `python -m           *)
(* tools.seed' (seed.py), `pipeline-runtime demo' (demo.py) and            *)
(* `pipeline-runtime <descriptor>' (__main__.py).  A command is the        *)
(* sequence of its statements; the database commits each one by itself,    *)
(* except that catalog.publish is one transaction.  A command may be       *)
(* killed, or a statement may raise, between any two of them, and the next *)
(* command starts from what is then on disk.                               *)
(*                                                                         *)
(* What a run does inside is Executor's; here it is one statement.         *)
(***************************************************************************)
EXTENDS Integers, Sequences

CONSTANTS
  Scales,    \* values of --scale, which is 1 unless somebody says otherwise
  MaxEvents  \* bound: the events accumulated when no demo clears them

ASSUME FixtureAssumption == 1 \in Scales /\ Scales \subseteq Nat /\ MaxEvents \in Nat

DOMAINS == <<"fraud", "policy", "finance">>
Domains == {"fraud", "policy", "finance"}
Sources == {"transactions", "claims"}
Batches == 1 .. 4

VARIABLES
  disk,      \* the target directory
  todo,      \* what the command under way has yet to do
  command,   \* that command, or the latest one
  exit       \* how it ended, or "running"

fixtureVars == <<disk, todo, command, exit>>

Nothing ==
  [rows |-> "none", size |-> 0, tables |-> {}, versions |-> {}, owners |-> {},
   landing |-> [b \in Batches |-> 0], products |-> {}, lineage |-> <<>>, strangers |-> FALSE]

-----------------------------------------------------------------------------
(* The statements of each command *)

\* Mutant: the attribution goes first.
ForgetVersionsFirst(t) == << <<"forget_versions", t>>, <<"forget_tables", t>> >>

\* Mutant: the attribution of the old versions stays.
ForgetTables(t) == << <<"forget_tables", t>> >>

forget(t) == << <<"forget_tables", t>>, <<"forget_versions", t>> >>

own(t) == << <<"disown", t>>, <<"own", t>> >>

seed(scale, drift, clean) ==
  (IF clean THEN << <<"rmtree_warehouse">>, <<"unlink_catalog">> >> ELSE <<>>)
  \o << <<"rows", scale>> >>
  \o forget("transactions") \o forget("claims")
  \o << <<"publish", "transactions", 7>>, <<"publish", "claims", 3>> >>
  \o own("transactions") \o own("claims")
  \o (IF drift
      THEN << <<"add_column">>, <<"fill_column">>, <<"publish", "transactions", 8>> >>
      ELSE <<>>)
  \o << <<"rmtree_landing">> >>
  \o [b \in Batches |-> <<"batch", b, scale>>]

\* Mutant: the events of an earlier demo stay.
DemoAppending == seed(1, FALSE, TRUE) \o [i \in 1 .. 3 |-> <<"run", DOMAINS[i]>>]

demo ==
  << <<"unlink_lineage">> >> \o seed(1, FALSE, TRUE) \o [i \in 1 .. 3 |-> <<"run", DOMAINS[i]>>]

-----------------------------------------------------------------------------
(* What each leaves on disk *)

Pin(domain) == IF domain = "policy" THEN <<"claims", 3>> ELSE <<"transactions", 7>>

Latest(d, t) == {v \in d.tables : v[1] = t /\ \A w \in d.tables : w[1] = t => w[2] <= v[2]}

\* A run that finds its pin to be the latest version, and for claims a batch, may
\* complete; any other fails, or its error escapes and leaves no event.
Readable(d, domain) ==
  /\ Latest(d, Pin(domain)[1]) = {Pin(domain)}
  /\ domain = "policy" => \E b \in Batches : d.landing[b] > 0

\* catalog.publish refuses a version that is not newer than the latest.
Raises(s, d) == s[1] = "publish" /\ \E v \in d.tables : v[1] = s[2] /\ v[2] >= s[3]

Logged(d, domain, status) ==
  [d EXCEPT !.lineage = Append(@, [job |-> domain, status |-> status])]

Effect(s, d) ==
  CASE s[1] = "rmtree_warehouse" ->
         [d EXCEPT !.landing = [b \in Batches |-> 0], !.products = {}]
    [] s[1] = "unlink_catalog" ->
         [d EXCEPT !.rows = "none", !.size = 0, !.tables = {}, !.versions = {}, !.owners = {}]
    [] s[1] = "unlink_lineage" -> [d EXCEPT !.lineage = <<>>]
    [] s[1] = "rows" -> [d EXCEPT !.rows = "v7", !.size = s[2]]
    [] s[1] = "forget_tables" -> [d EXCEPT !.tables = {v \in @ : v[1] # s[2]}]
    [] s[1] = "forget_versions" -> [d EXCEPT !.versions = {v \in @ : v[1] # s[2]}]
    [] s[1] = "publish" ->
         [d EXCEPT !.tables = @ \cup {<<s[2], s[3]>>}, !.versions = @ \cup {<<s[2], s[3]>>}]
    [] s[1] = "disown" -> [d EXCEPT !.owners = @ \ {s[2]}]
    [] s[1] = "own" -> [d EXCEPT !.owners = @ \cup {s[2]}]
    [] s[1] = "add_column" -> [d EXCEPT !.rows = "v8_unfilled"]
    [] s[1] = "fill_column" -> [d EXCEPT !.rows = "v8"]
    [] s[1] = "rmtree_landing" -> [d EXCEPT !.landing = [b \in Batches |-> 0]]
    [] s[1] = "batch" -> [d EXCEPT !.landing[s[2]] = s[3]]
    [] s[1] = "run" -> Logged([d EXCEPT !.products = @ \cup {s[2]}], s[2], "COMPLETE")

-----------------------------------------------------------------------------

FixtureInit ==
  /\ disk \in {Nothing, [Nothing EXCEPT !.strangers = TRUE]}
  /\ todo = <<>>
  /\ command = [name |-> "none", scale |-> 1, drift |-> FALSE]
  /\ exit = "0"

Begin(name, scale, drift, statements) ==
  /\ exit # "running"
  /\ command' = [name |-> name, scale |-> scale, drift |-> drift]
  /\ todo' = statements
  /\ exit' = "running"
  /\ UNCHANGED disk

Seed == \E scale \in Scales, drift, clean \in BOOLEAN :
  Begin("seed", scale, drift, seed(scale, drift, clean))

\* unexpected(): somebody's files are there, and nothing is touched.
Demo ==
  \/ ~disk.strangers /\ Begin("demo", 1, FALSE, demo)
  \/ /\ disk.strangers /\ exit # "running"
     /\ command' = [name |-> "demo", scale |-> 1, drift |-> FALSE]
     /\ exit' = "1"
     /\ UNCHANGED <<disk, todo>>

RunOne == \E domain \in Domains :
  Len(disk.lineage) < MaxEvents /\ Begin("run", 1, FALSE, << <<"run", domain>> >>)

Proceed == todo' = Tail(todo) /\ exit' = IF Len(todo) = 1 THEN "0" ELSE "running"

Step ==
  /\ todo # <<>>
  /\ LET s == Head(todo) IN
       /\ ~Raises(s, disk)
       /\ s[1] = "run" => Readable(disk, s[2])
       /\ disk' = Effect(s, disk)
       /\ Proceed
  /\ UNCHANGED command

\* main, _demo: a PipelineError is the exit status 1, with the FAIL event out.
Fail ==
  /\ todo # <<>> /\ Head(todo)[1] = "run"
  /\ disk' = Logged(disk, Head(todo)[2], "FAIL")
  /\ todo' = <<>> /\ exit' = "1"
  /\ UNCHANGED command

\* The process is killed, or a statement raises what nobody catches.
Die ==
  /\ exit = "running"
  /\ todo' = <<>> /\ exit' = "died"
  /\ UNCHANGED <<disk, command>>

FixtureNext == Seed \/ Demo \/ RunOne \/ Step \/ Fail \/ Die

FixtureSpec == FixtureInit /\ [][FixtureNext]_fixtureVars

-----------------------------------------------------------------------------

Versions == Sources \X {3, 7, 8}

Disk ==
  [rows : {"none", "v7", "v8_unfilled", "v8"}, size : Scales \cup {0},
   tables : SUBSET Versions, versions : SUBSET Versions, owners : SUBSET Sources,
   landing : [Batches -> Scales \cup {0}], products : SUBSET Domains,
   lineage : Seq([job : Domains, status : {"COMPLETE", "FAIL"}]), strangers : BOOLEAN]

FixtureTypeOK ==
  /\ disk \in Disk
  /\ command \in [name : {"none", "seed", "demo", "run"}, scale : Scales, drift : BOOLEAN]
  /\ exit \in {"running", "0", "1", "died"}
  /\ exit = "running" <=> todo # <<>>

Seeded(d) == <<d.rows, d.size, d.tables, d.versions, d.owners, d.landing>>

Released(drift) ==
  {<<"transactions", 7>>, <<"claims", 3>>} \cup (IF drift THEN {<<"transactions", 8>>} ELSE {})

\* What a seed leaves in an empty directory.
Fresh(scale, drift) ==
  <<IF drift THEN "v8" ELSE "v7", scale, Released(drift), Released(drift), Sources,
    [b \in Batches |-> scale]>>

\* seed.py:144-154, 157-167, 233-239.  A seed that ends leaves what the same seed
\* leaves in an empty directory, whatever seeds, drifted or not, of whatever scale,
\* stopped at whichever statement, went before it.
SeedsConverge ==
  exit = "0" /\ command.name = "seed" => Seeded(disk) = Fresh(command.scale, command.drift)

\* seed.py:150, catalog.py:376, 404-420.  No version a run could resolve is ever without the release
\* that published it: wherever a seed stops, the version goes before its attribution.
ResolvableVersionsAreAttributed == disk.tables \subseteq disk.versions

\* demo.py:130-134, test_demo.py:73-79.  A demo that ends well has reported three runs,
\* each once, and left three products: not six after a second one, and none that an
\* earlier demo or a run by hand left there.
DemoReportsThreeRuns ==
  exit = "0" /\ command.name = "demo" =>
    /\ disk.lineage = [i \in 1 .. 3 |-> [job |-> DOMAINS[i], status |-> "COMPLETE"]]
    /\ disk.products = Domains
    /\ Seeded(disk) = Fresh(1, FALSE)
=============================================================================
