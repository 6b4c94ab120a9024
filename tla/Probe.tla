--------------------------------- MODULE Probe ---------------------------------
(***************************************************************************)
(* tools/glue_probe.py: a script that makes a database, and in two of its  *)
(* modes a bucket, a role and a crawler, in a real account, looks at what  *)
(* Glue does with them, and deletes them.  The names of all but the bucket *)
(* are fixed, so two people who run it at once meet.  Every call to the    *)
(* account may be refused or time out, and a script may be killed.         *)
(*                                                                         *)
(* What a probe finds out about Glue is not modelled; that it raises or    *)
(* ends is.  The account starts without anything of these names.           *)
(***************************************************************************)
EXTENDS Integers

CONSTANTS
  Probes,     \* the scripts started in all, each at any time
  Attempts,   \* bound: create_crawler is tried this often, 12 times in the code
  Nobody

ASSUME ProbeAssumption == Attempts \in Nat \ {0} /\ Nobody \notin Probes

Modes == {"default", "iceberg", "crawler"}

VARIABLES
  at,        \* where each script is
  mode,      \* its mode
  keep,      \* --keep
  owner,     \* who made the database, the table in it, the role, the crawler
  busy,      \* whether the crawler runs
  buckets,   \* the scripts whose bucket exists
  tries,     \* the calls of create_crawler a script has made
  why        \* why it left something behind, a history variable

probeVars == <<at, mode, keep, owner, busy, buckets, tries, why>>

Shared == {"database", "table", "role", "crawler"}

Stages == {"check", "bucket", "database", "probe", "role", "crawler", "first crawl",
           "first wait", "second crawl", "second wait", "ended", "killed"}

ProbeInit ==
  /\ at = [p \in Probes |-> "check"]
  /\ mode \in [Probes -> Modes]
  /\ keep \in [Probes -> BOOLEAN]
  /\ owner = [s \in Shared |-> Nobody]
  /\ busy = FALSE
  /\ buckets = {}
  /\ tries = [p \in Probes |-> 0]
  /\ why = [p \in Probes |-> "nothing"]

Alive(p) == at[p] \notin {"ended", "killed"}

To(p, place) == at' = [at EXCEPT ![p] = place]

Made(p, s) == owner' = [owner EXCEPT ![s] = p]
Gone(what) == owner' = [s \in Shared |-> IF s \in what THEN Nobody ELSE owner[s]]

-----------------------------------------------------------------------------
(* The end of a script: finally, unless --keep *)

Deletions == {"delete crawler", "delete role", "delete table", "delete database", "delete bucket"}

\* Mutant: the crawler and the role are deleted once the database is.
DatabaseFirst(p) ==
  [here \in Deletions \cup {"try"} |->
     CASE here = "try" -> "delete table"
       [] here = "delete table" -> "delete database"
       [] here = "delete database" /\ mode[p] = "crawler" -> "delete crawler"
       [] here = "delete database" /\ mode[p] = "default" -> "ended"
       [] here = "delete database" /\ mode[p] = "iceberg" -> "delete bucket"
       [] here = "delete crawler" -> "delete role"
       [] here = "delete role" -> "delete bucket"
       [] here = "delete bucket" -> "ended"]

\* What comes after what: also_cleanup, cleanup, and the bucket where there is one.
Cleanup(p) ==
  [here \in Deletions \cup {"try"} |->
     CASE here = "try" -> IF mode[p] = "crawler" THEN "delete crawler" ELSE "delete table"
       [] here = "delete crawler" -> "delete role"
       [] here = "delete role" -> "delete table"
       [] here = "delete table" -> "delete database"
       [] here = "delete database" -> IF mode[p] = "default" THEN "ended" ELSE "delete bucket"
       [] here = "delete bucket" -> "ended"]

Finally(p) == IF keep[p] THEN "ended" ELSE Cleanup(p)["try"]

After(p) == Cleanup(p)[at[p]]

\* An error in one deletion leaves the others undone.
Abandon(p, reason) == To(p, "ended") /\ why' = [why EXCEPT ![p] = reason]

-----------------------------------------------------------------------------
(* main: what is made before the try *)

\* get_database finds it and the script refuses, or finds none.
Check(p) ==
  /\ at[p] = "check"
  /\ To(p, IF owner["database"] # Nobody THEN "ended"
           ELSE IF mode[p] = "default" THEN "database" ELSE "bucket")
  /\ UNCHANGED <<mode, keep, owner, busy, buckets, tries, why>>

make_bucket(p) ==
  /\ at[p] = "bucket"
  /\ To(p, "database")
  /\ buckets' = buckets \cup {p}
  /\ UNCHANGED <<mode, keep, owner, busy, tries, why>>

\* Glue makes it for one of two that ask; the other's call raises, outside the try.
create_database(p) ==
  /\ at[p] = "database"
  /\ IF owner["database"] = Nobody
     THEN /\ To(p, IF mode[p] = "crawler" THEN "role" ELSE "probe")
          /\ Made(p, "database")
          /\ UNCHANGED why
     ELSE Abandon(p, "outside the try") /\ UNCHANGED owner
  /\ UNCHANGED <<mode, keep, busy, buckets, tries>>

-----------------------------------------------------------------------------
(* The probes, inside the try *)

\* The UpdateTable probe and the Iceberg one: create_table raises if it is there.
probe(p) ==
  /\ at[p] = "probe"
  /\ To(p, Finally(p))
  /\ IF owner["table"] = Nobody THEN Made(p, "table") ELSE UNCHANGED owner
  /\ UNCHANGED <<mode, keep, busy, buckets, tries, why>>

\* create_role raises when a role of that name is there.
make_role(p) ==
  /\ at[p] = "role"
  /\ IF owner["role"] = Nobody
     THEN To(p, "crawler") /\ Made(p, "role")
     ELSE To(p, Finally(p)) /\ UNCHANGED owner
  /\ UNCHANGED <<mode, keep, busy, buckets, tries, why>>

\* Mutant: the attempts have no end.
RetryForever(p, n) == "crawler"

Retry(p, n) == IF n < Attempts THEN "crawler" ELSE Finally(p)

\* create_crawler: the role is not visible to Glue yet, or the crawler is made.
create_crawler(p) ==
  /\ at[p] = "crawler"
  /\ \/ /\ tries' = [tries EXCEPT ![p] = @ + 1]
        /\ To(p, Retry(p, tries[p] + 1))
        /\ UNCHANGED owner
     \/ /\ IF owner["crawler"] = Nobody
           THEN To(p, "first crawl") /\ Made(p, "crawler")
           ELSE To(p, Finally(p)) /\ UNCHANGED owner
        /\ UNCHANGED tries
  /\ UNCHANGED <<mode, keep, busy, buckets, why>>

start_crawler(p) ==
  /\ at[p] \in {"first crawl", "second crawl"}
  /\ To(p, IF busy THEN Finally(p) ELSE IF at[p] = "first crawl" THEN "first wait"
           ELSE "second wait")
  /\ busy' = TRUE
  /\ UNCHANGED <<mode, keep, owner, buckets, tries, why>>

Waiting(p) == at[p] \in {"first wait", "second wait"}

\* get_crawler finds it ready: the publishing job stamps the table, or it is over.
Crawled(p) ==
  /\ Waiting(p) /\ ~busy
  /\ To(p, IF at[p] = "first wait" THEN "second crawl" ELSE Finally(p))
  /\ UNCHANGED <<mode, keep, owner, busy, buckets, tries, why>>

\* Mutant: a crawl is waited for as long as it takes.
TimeoutNever(p) == FALSE /\ UNCHANGED probeVars

\* Fifteen minutes, and the crawler still runs.
Timeout(p) ==
  /\ Waiting(p) /\ busy
  /\ To(p, Finally(p))
  /\ UNCHANGED <<mode, keep, owner, busy, buckets, tries, why>>

-----------------------------------------------------------------------------

\* Glue does not delete a crawler that runs.
cleanup_crawler(p) ==
  /\ at[p] = "delete crawler"
  /\ IF busy THEN Abandon(p, "the crawler runs") /\ UNCHANGED owner
     ELSE To(p, After(p)) /\ Gone({"crawler"}) /\ UNCHANGED why
  /\ UNCHANGED <<mode, keep, busy, buckets, tries>>

delete_role(p) ==
  /\ at[p] = "delete role"
  /\ To(p, After(p))
  /\ Gone({"role"})
  /\ UNCHANGED <<mode, keep, busy, buckets, tries, why>>

\* Mutant: a table that was never made is an error.
DeleteTableStrictly(p) ==
  /\ at[p] = "delete table"
  /\ To(p, IF owner["table"] = Nobody THEN "ended" ELSE After(p))
  /\ Gone({"table"})
  /\ UNCHANGED <<mode, keep, busy, buckets, tries, why>>

delete_table(p) ==
  /\ at[p] = "delete table"
  /\ To(p, After(p))
  /\ Gone({"table"})
  /\ UNCHANGED <<mode, keep, busy, buckets, tries, why>>

\* With the database Glue deletes whatever tables are left in it.
delete_database(p) ==
  /\ at[p] = "delete database"
  /\ To(p, After(p))
  /\ Gone({"database", "table"})
  /\ UNCHANGED <<mode, keep, busy, buckets, tries, why>>

empty_and_delete_bucket(p) ==
  /\ at[p] = "delete bucket"
  /\ To(p, After(p))
  /\ buckets' = buckets \ {p}
  /\ UNCHANGED <<mode, keep, owner, busy, tries, why>>

Script(p) ==
  \/ Check(p) \/ make_bucket(p) \/ create_database(p) \/ probe(p) \/ make_role(p)
  \/ create_crawler(p) \/ start_crawler(p) \/ Crawled(p) \/ Timeout(p)
  \/ cleanup_crawler(p) \/ delete_role(p) \/ delete_table(p) \/ delete_database(p)
  \/ empty_and_delete_bucket(p)

-----------------------------------------------------------------------------
(* What else may happen *)

\* A call raises: before the try and in finally that is the end of the script.
Raise(p) ==
  /\ Alive(p)
  /\ IF at[p] = "database" THEN Abandon(p, "outside the try")
     ELSE IF at[p] \in Deletions THEN Abandon(p, "a deletion failed")
     ELSE To(p, IF at[p] \in {"check", "bucket"} THEN "ended" ELSE Finally(p)) /\ UNCHANGED why
  /\ UNCHANGED <<mode, keep, owner, busy, buckets, tries>>

\* The database is made and the answer lost: asked again, Glue says it is there.
LoseAnswer(p) ==
  /\ at[p] = "database" /\ owner["database"] = Nobody
  /\ Made(p, "database")
  /\ Abandon(p, "outside the try")
  /\ UNCHANGED <<mode, keep, busy, buckets, tries>>

Kill(p) ==
  /\ Alive(p)
  /\ To(p, "killed")
  /\ UNCHANGED <<mode, keep, owner, busy, buckets, tries, why>>

\* The crawl ends; the first one has made the table, if the database is still there.
CrawlEnds ==
  /\ busy /\ busy' = FALSE
  /\ IF owner["database"] # Nobody /\ owner["table"] = Nobody
     THEN Made(owner["crawler"], "table") ELSE UNCHANGED owner
  /\ UNCHANGED <<at, mode, keep, buckets, tries, why>>

\* A person who was refused deletes the database a dead script left.
ClearAway ==
  /\ owner["database"] # Nobody /\ ~Alive(owner["database"])
  /\ Gone({"database", "table"})
  /\ UNCHANGED <<at, mode, keep, busy, buckets, tries, why>>

ProbeNext ==
  \/ \E p \in Probes : Script(p) \/ Raise(p) \/ LoseAnswer(p) \/ Kill(p)
  \/ CrawlEnds \/ ClearAway

ProbeSpec == ProbeInit /\ [][ProbeNext]_probeVars

-----------------------------------------------------------------------------

ProbeTypeOK ==
  /\ at \in [Probes -> Stages \cup Deletions]
  /\ owner \in [Shared -> Probes \cup {Nobody}]
  /\ mode \in [Probes -> Modes] /\ keep \in [Probes -> BOOLEAN]
  /\ busy \in BOOLEAN
  /\ buckets \subseteq Probes
  /\ tries \in [Probes -> 0 .. Attempts]

\* glue_probe.py:28-30, 417-423.  The database is what two scripts exclude each
\* other by: while one is alive, no other deletes the database, the table, the role
\* or the crawler it made, although all of them have the same names for both.
LiveProbesAreLeftAlone ==
  [][\A p \in Probes, s \in Shared :
       owner[s] = p /\ owner'[s] # p /\ Alive(p) => at'[p] # at[p]]_probeVars

Left(p) == p \in buckets \/ \E s \in Shared : owner[s] = p

\* glue_probe.py:28-30.  A script that was neither killed nor told to keep what it
\* made deletes all of it, whatever raised on the way: unless create_database did,
\* outside the try, a deletion was refused, or the crawler still ran.
NothingIsLeftForNothing ==
  \A p \in Probes :
    at[p] = "ended" /\ ~keep[p] /\ Left(p) => why[p] # "nothing"

\* Every script ends: it tries for the role so many times, and it waits for a crawl
\* so long, whatever becomes of either.
EveryProbeEnds == \A p \in Probes : <>(~Alive(p))
=============================================================================
