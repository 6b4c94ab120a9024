----------------------------- MODULE MCRuntime ------------------------------
(***************************************************************************)
(* Instances of Runtime for TLC: a small catalog, and for each question    *)
(* the descriptors that ask it.  The names are those of the example and of *)
(* the tests; the shapes keep one column of each kind the code tells apart.*)
(***************************************************************************)
EXTENDS Claims

Id     == [name |-> "tx_id", type |-> "VARCHAR", nullable |-> FALSE, primary_key |-> TRUE]
Day    == [name |-> "day", type |-> "DATE", nullable |-> FALSE, primary_key |-> FALSE]
Code   == [name |-> "category", type |-> "VARCHAR", nullable |-> TRUE, primary_key |-> FALSE]

MCNames    == {"tx_id", "day", "category"}
MCTypes    == {"VARCHAR", "DATE"}
MCCastable == {<<t, t>> : t \in MCTypes} \cup {<<"DATE", "VARCHAR">>}

V7 == {Id, Day}
V8 == {Id, Day, Code}   \* seed.py --drift: a column is added
V9 == {Id, Code}        \* a release that drops what V7 promises
MCShapes == {V7, V8, V9}

TagOf(key, value) == [key |-> key, value |-> value]
Fraud   == {TagOf("domain", "fraud")}
Finance == {TagOf("domain", "finance")}
MCOntology == Fraud \cup Finance \cup {TagOf("residency", "eu")}

\* quarantined(): a name and a prefix of their own for each declared one.
Products  == {"scored", "settlement"}
MCTables  == {"transactions", "claims"} \cup Products
             \cup {"scored_quarantined", "settlement_quarantined", "elsewhere"}
MCAppTables == {"transactions", "claims"}
MCLanded    == {"claims"}
MCOwnerOf   == [t \in MCAppTables |-> "fraud"]
MCQuarantine ==
  [t \in MCTables |-> CASE t = "scored"     -> "scored_quarantined"
                        [] t = "settlement" -> "settlement_quarantined"
                        [] OTHER            -> "elsewhere"]
MCLocations == MCTables
MCUnder     == [l \in MCLocations |-> {l}]

MCReleases   == {"v4.11.0", "v4.12.0"}
OneRelease   == [a \in Apps |-> {"v4.12.0"}]
MCProduces   == [a \in Apps |-> {"transactions"}]

\* domains/fraud/pipelines/transactions_scored.yml
Scored ==
  [valid |-> TRUE, domain |-> "fraud", source |-> "transactions",
   reader |-> "glue_table", schema_version |-> 1, steps |-> {"sql"},
   output |-> {Id, Day}, suite |-> {"checkable"}, on_failure |-> "block_publish",
   target |-> "scored", location |-> "scored", partition_by |-> {"day"},
   writer |-> "registered", lf_tags |-> Fraud]

\* domains/finance/pipelines/merchant_settlement.yml, reading the same table
Settlement ==
  [Scored EXCEPT !.domain = "finance", !.output = {Day}, !.target = "settlement",
                 !.location = "settlement", !.lf_tags = Finance]

\* A pipeline of another domain whose source is fraud's product.
Downstream == [Settlement EXCEPT !.source = "scored"]

-----------------------------------------------------------------------------
(* Passing runs *)

\* Any two, at once, of: two domains reading one table while its application
\* releases, and a second pipeline on the first one's target, each with its own
\* way to react to a failed suite.
ConcurrentRuns == {"fraud", "finance", "warned"}
Concurrent == [r \in Runs |->
  CASE r = "fraud"   -> [Scored EXCEPT !.on_failure = "quarantine"]
    [] r = "finance" -> [Settlement EXCEPT !.steps = {"sql", "python"}]
    [] r = "warned"  -> [Scored EXCEPT !.on_failure = "warn", !.suite = {"raising"}]]

\* Any three, one after another on a target and beside each other elsewhere, of:
\* a pipeline that may die anywhere; its replacement, whose contract has moved on
\* (other columns, other tags, one file); another domain's on the same source; a
\* reader of the product, who is not kept from its writers; and everything a
\* descriptor or a suite can get wrong.
SuccessionRuns ==
  {"first", "second", "third", "finance", "invalid", "unread", "landed",
   "batches", "unkeyed", "untagged", "unruled", "unwritten", "unlabelled",
   "unpartitioned", "unstepped"}
Succession == [r \in Runs |->
  CASE r = "first"         -> Scored
    [] r = "second"        -> [Scored EXCEPT !.output = {Day, Code}, !.partition_by = {},
                                      !.on_failure = "quarantine",
                                      !.lf_tags = Fraud \cup {TagOf("residency", "eu")}]
    [] r = "third"         -> Downstream
    [] r = "finance"       -> Settlement
    [] r = "invalid"       -> [Scored EXCEPT !.valid = FALSE]
    [] r = "unread"        -> [Scored EXCEPT !.reader = "unknown"]
    [] r = "landed"        -> [Scored EXCEPT !.source = "claims"]
    [] r = "batches"       -> [Scored EXCEPT !.source = "claims", !.reader = "dms_landing"]
    [] r = "unkeyed"       -> [Scored EXCEPT !.reader = "dms_landing"]
    [] r = "untagged"      -> [Scored EXCEPT !.lf_tags = {TagOf("residency", "mars")}]
    [] r = "unruled"       -> [Scored EXCEPT !.suite = {"checkable", "unbuildable"}]
    [] r = "unwritten"     -> [Scored EXCEPT !.writer = "unknown"]
    [] r = "unlabelled"    -> [Scored EXCEPT !.lf_tags = {}]
    [] r = "unpartitioned" -> [Scored EXCEPT !.partition_by = {"category"}]
    [] r = "unstepped"     -> [Scored EXCEPT !.steps = {"unknown"}]]

-----------------------------------------------------------------------------
(* Runs that refute a claim *)

\* One run, under a producer that releases or under somebody's editor.
ReleaseRuns == {"fraud"}
Released == [r \in Runs |-> Scored]

RuleRuns == {"unruled"}

\* A published table, then a descriptor with a partition key misspelt.
TypoRuns == {"good", "unpartitioned"}
Typo == [r \in Runs |-> IF r = "good" THEN Scored
                        ELSE [Scored EXCEPT !.partition_by = {"category"}]]

LabelRuns  == {"unlabelled"}
=============================================================================
