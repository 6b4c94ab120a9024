----------------------------- MODULE ScriptsProofs -----------------------------
(***************************************************************************)
(* Proofs about the scripts around the executor: Probe, for any number of  *)
(* scripts at once, Fixture, for every set of scales, and Scripts, which   *)
(* is one or the other.                                                    *)
(*                                                                         *)
(* Probe first.  The database is a lock: a script has it from its creation *)
(* to its deletion, and what else it makes under a shared name it makes    *)
(* and deletes in between.                                                 *)
(***************************************************************************)
EXTENDS Scripts, SequenceTheorems, TLAPS

Inside ==
  {"probe", "role", "crawler", "first crawl", "first wait", "second crawl", "second wait",
   "delete crawler", "delete role", "delete table", "delete database"}

CrawlerStages ==
  {"role", "crawler", "first crawl", "first wait", "second crawl", "second wait",
   "delete crawler", "delete role"}

\* Who is inside has the database, and has nothing when outside.
Locked(p) ==
  /\ at[p] \in Inside => owner["database"] = p
  /\ at[p] \notin Inside /\ Alive(p) => \A s \in Shared : owner[s] # p

\* The crawler goes before the role, and both before the database.
Ordered(p) ==
  /\ at[p] \in CrawlerStages => mode[p] = "crawler"
  /\ mode[p] # "crawler" \/ at[p] \in {"delete role", "delete table", "delete database"} =>
       owner["crawler"] # p
  /\ mode[p] # "crawler" \/ at[p] \in {"delete table", "delete database"} =>
       owner["role"] # p

\* A bucket is made once, and what ends without a reason has left none.
Accounted(p) ==
  /\ at[p] \in {"check", "bucket"} \/ mode[p] = "default" => p \notin buckets
  /\ at[p] \in {"bucket", "delete bucket"} => mode[p] # "default"
  /\ at[p] = "ended" /\ ~keep[p] /\ Left(p) => why[p] # "nothing"

Orderly(p) == Locked(p) /\ Ordered(p) /\ Accounted(p)

TypeInv ==
  /\ ProbeTypeOK
  /\ why \in [Probes -> {"nothing", "outside the try", "a deletion failed", "the crawler runs"}]
  /\ \A p \in Probes :
       at[p] \in {"check", "bucket", "database", "role", "crawler"} => tries[p] < Attempts

IInv == TypeInv /\ \A p \in Probes : Orderly(p)

LEMMA Parameters == Attempts \in Nat /\ Attempts > 0 /\ 0 \in 0 .. Attempts /\ Nobody \notin Probes
BY ProbeAssumption DEF ProbeAssumption

LEMMA Counting ==
  \A n \in 0 .. Attempts : n \in Nat /\ (n < Attempts => n + 1 \in 0 .. Attempts)
BY Parameters

\* Where each step of the cleaning up leads.
LEMMA CleaningUp ==
  ASSUME TypeInv, NEW p \in Probes
  PROVE  /\ Finally(p) = IF keep[p] THEN "ended"
                         ELSE IF mode[p] = "crawler" THEN "delete crawler" ELSE "delete table"
         /\ at[p] = "delete crawler" => After(p) = "delete role"
         /\ at[p] = "delete role" => After(p) = "delete table"
         /\ at[p] = "delete table" => After(p) = "delete database"
         /\ at[p] = "delete database" =>
              After(p) = IF mode[p] = "default" THEN "ended" ELSE "delete bucket"
         /\ at[p] = "delete bucket" => After(p) = "ended"
BY DEF Finally, After, Cleanup, Deletions

LEMMA Starts == ProbeInit => IInv
<1> SUFFICES ASSUME ProbeInit PROVE IInv
  OBVIOUS
<1> USE Parameters DEF ProbeInit
<1>1. TypeInv
  <2>1. at \in [Probes -> Stages \cup Deletions]
    BY DEF Stages
  <2>2. owner \in [Shared -> Probes \cup {Nobody}]
    OBVIOUS
  <2>3. tries \in [Probes -> 0 .. Attempts]
    OBVIOUS
  <2>4. \A p \in Probes : tries[p] < Attempts
    OBVIOUS
  <2> QED BY <2>1, <2>2, <2>3, <2>4 DEF TypeInv, ProbeTypeOK
<1>2. ASSUME NEW p \in Probes PROVE Orderly(p)
  BY DEF Orderly, Locked, Ordered, Accounted, Inside, CrawlerStages, Shared
<1> QED BY <1>1, <1>2 DEF IInv

\* What the small steps do to the state.
LEMMA Moves ==
  ASSUME TypeInv, NEW p \in Probes, NEW place \in Stages \cup Deletions, To(p, place)
  PROVE  /\ at' \in [Probes -> Stages \cup Deletions]
         /\ at'[p] = place
         /\ \A q \in Probes : q # p => at'[q] = at[q]
BY DEF TypeInv, ProbeTypeOK, To

LEMMA Makes ==
  ASSUME TypeInv, NEW p \in Probes, NEW s \in Shared, Made(p, s)
  PROVE  /\ owner' \in [Shared -> Probes \cup {Nobody}]
         /\ owner'[s] = p
         /\ \A t \in Shared : t # s => owner'[t] = owner[t]
BY DEF TypeInv, ProbeTypeOK, Made

LEMMA Clears ==
  ASSUME TypeInv, NEW what \in SUBSET Shared, Gone(what)
  PROVE  /\ owner' \in [Shared -> Probes \cup {Nobody}]
         /\ \A t \in Shared : owner'[t] = IF t \in what THEN Nobody ELSE owner[t]
BY DEF TypeInv, ProbeTypeOK, Gone

LEMMA GivesUp ==
  ASSUME TypeInv, NEW p \in Probes,
         NEW reason \in {"outside the try", "a deletion failed", "the crawler runs"},
         Abandon(p, reason)
  PROVE  /\ To(p, "ended")
         /\ why' \in [Probes -> {"nothing", "outside the try", "a deletion failed", "the crawler runs"}]
         /\ why'[p] = reason
         /\ \A q \in Probes : q # p => why'[q] = why[q]
BY DEF TypeInv, Abandon

LEMMA ScriptKeepsType ==
  ASSUME IInv, NEW p \in Probes, Script(p)
  PROVE  TypeInv'
<1> USE Parameters DEF IInv, Stages, Deletions, Shared
<1>a. TypeInv
  OBVIOUS
<1>b. /\ Finally(p) \in {"ended", "delete crawler", "delete table"}
      /\ at[p] \in Deletions => After(p) \in Deletions \cup {"ended"}
  BY CleaningUp
<1> USE <1>b
<1>1. CASE Check(p)
  BY <1>1 DEF Check, TypeInv, ProbeTypeOK, To
<1>2. CASE make_bucket(p)
  BY <1>2 DEF make_bucket, TypeInv, ProbeTypeOK, To
<1>3. CASE create_database(p)
  <2>1. CASE owner["database"] = Nobody
    <3>1. owner' \in [Shared -> Probes \cup {Nobody}]
      BY <1>3, <2>1, <1>a, Makes DEF create_database
    <3>2. /\ To(p, IF mode[p] = "crawler" THEN "role" ELSE "probe")
          /\ UNCHANGED <<why, mode, keep, busy, buckets, tries>> /\ at[p] = "database"
      BY <1>3, <2>1 DEF create_database
    <3> QED BY <3>1, <3>2 DEF TypeInv, ProbeTypeOK, To
  <2>2. CASE owner["database"] # Nobody
    BY <1>3, <2>2, GivesUp DEF create_database, TypeInv, ProbeTypeOK, To
  <2> QED BY <2>1, <2>2
<1>4. CASE probe(p)
  BY <1>4 DEF probe, Made, TypeInv, ProbeTypeOK, To
<1>5. CASE make_role(p)
  <2>1. owner' \in [Shared -> Probes \cup {Nobody}]
    BY <1>5, <1>a, Makes DEF make_role, TypeInv, ProbeTypeOK
  <2>2. To(p, "crawler") \/ To(p, Finally(p))
    BY <1>5 DEF make_role
  <2>3. UNCHANGED <<why, mode, keep, busy, buckets, tries>> /\ at[p] = "role"
    BY <1>5 DEF make_role
  <2>4. /\ at' \in [Probes -> Stages \cup Deletions]
        /\ \A q \in Probes : at'[q] \in {"check", "bucket", "database", "role", "crawler"} =>
             at[q] \in {"check", "bucket", "database", "role", "crawler"}
    BY <2>2, <2>3 DEF TypeInv, ProbeTypeOK, To
  <2> QED BY <2>1, <2>3, <2>4 DEF TypeInv, ProbeTypeOK
<1>6. CASE create_crawler(p)
  <2>1. owner' \in [Shared -> Probes \cup {Nobody}]
    BY <1>6, <1>a, Makes DEF create_crawler, TypeInv, ProbeTypeOK
  <2>2. UNCHANGED <<why, mode, keep, busy, buckets>> /\ at[p] = "crawler"
    BY <1>6 DEF create_crawler
  <2>3. CASE tries' = [tries EXCEPT ![p] = @ + 1] /\ To(p, Retry(p, tries[p] + 1))
    <3>a. tries \in [Probes -> 0 .. Attempts] /\ tries[p] < Attempts
      BY <2>2, <1>a DEF TypeInv, ProbeTypeOK
    <3>1. tries[p] \in Nat /\ tries[p] < Attempts
      BY <3>a, Counting
    <3>2. tries' \in [Probes -> 0 .. Attempts] /\ tries'[p] = tries[p] + 1
      <4>1. tries[p] + 1 \in 0 .. Attempts
        BY <3>a, Counting
      <4> QED BY <2>3, <3>a, <4>1
    <3>3. at' \in [Probes -> Stages \cup Deletions] /\ at'[p] = Retry(p, tries[p] + 1)
      BY <2>3, <3>1 DEF TypeInv, ProbeTypeOK, To, Retry
    <3>4. at'[p] = "crawler" => tries'[p] < Attempts
      BY <3>1, <3>2, <3>3 DEF Retry
    <3>5. \A q \in Probes : q # p => at'[q] = at[q] /\ tries'[q] = tries[q]
      BY <2>3 DEF TypeInv, ProbeTypeOK, To
    <3>6. at'[p] = "crawler" \/ at'[p] \in Deletions \cup {"ended"}
      BY <3>1, <3>3 DEF Retry
    <3> QED BY <2>1, <2>2, <3>2, <3>3, <3>4, <3>5, <3>6 DEF TypeInv, ProbeTypeOK
  <2>4. CASE UNCHANGED tries /\ (To(p, "first crawl") \/ To(p, Finally(p)))
    <3>0. PICK place \in Stages \cup Deletions :
             /\ place \notin {"check", "bucket", "database", "role", "crawler"}
             /\ To(p, place)
      BY <2>4
    <3>1. /\ at' \in [Probes -> Stages \cup Deletions]
          /\ \A q \in Probes : at'[q] \in {"check", "bucket", "database", "role", "crawler"} =>
               at[q] \in {"check", "bucket", "database", "role", "crawler"}
      BY <1>a, <3>0, Moves
    <3> QED BY <2>1, <2>2, <2>4, <3>1 DEF TypeInv, ProbeTypeOK
  <2> QED BY <1>6, <2>3, <2>4 DEF create_crawler
<1>7. CASE start_crawler(p)
  BY <1>7 DEF start_crawler, TypeInv, ProbeTypeOK, To
<1>8. CASE Crawled(p) \/ Timeout(p)
  BY <1>8 DEF Crawled, Timeout, Waiting, TypeInv, ProbeTypeOK, To
<1>9. CASE cleanup_crawler(p)
  <2>1. owner' \in [Shared -> Probes \cup {Nobody}]
    BY <1>9, <1>a, Clears DEF cleanup_crawler, TypeInv, ProbeTypeOK
  <2>2. /\ To(p, IF busy THEN "ended" ELSE "delete role")
        /\ why' \in [Probes -> {"nothing", "outside the try", "a deletion failed", "the crawler runs"}]
    <3>1. CASE busy
      <4>1. Abandon(p, "the crawler runs")
        BY <1>9, <3>1 DEF cleanup_crawler
      <4> QED BY <1>a, <3>1, <4>1, GivesUp
    <3>2. CASE ~busy
      BY <1>9, <1>a, <3>2, CleaningUp DEF cleanup_crawler, TypeInv
    <3> QED BY <3>1, <3>2
  <2>3. UNCHANGED <<mode, keep, busy, buckets, tries>>
    BY <1>9 DEF cleanup_crawler
  <2>4. /\ at' \in [Probes -> Stages \cup Deletions]
        /\ \A q \in Probes : at'[q] \in {"check", "bucket", "database", "role", "crawler"} =>
             at[q] \in {"check", "bucket", "database", "role", "crawler"}
    BY <1>a, <2>2, Moves
  <2> QED BY <2>1, <2>2, <2>3, <2>4 DEF TypeInv, ProbeTypeOK
<1>10. CASE delete_role(p) \/ delete_table(p) \/ delete_database(p)
  <2>1. owner' \in [Shared -> Probes \cup {Nobody}]
    BY <1>10, <1>a, Clears DEF delete_role, delete_table, delete_database
  <2>2. /\ To(p, After(p))
        /\ at[p] \in {"delete role", "delete table", "delete database"}
        /\ UNCHANGED <<why, mode, keep, busy, buckets, tries>>
    BY <1>10 DEF delete_role, delete_table, delete_database
  <2> QED BY <2>1, <2>2 DEF TypeInv, ProbeTypeOK, To
<1>11. CASE empty_and_delete_bucket(p)
  BY <1>11 DEF empty_and_delete_bucket, TypeInv, ProbeTypeOK, To
<1> QED BY <1>1, <1>2, <1>3, <1>4, <1>5, <1>6, <1>7, <1>8, <1>9, <1>10, <1>11 DEF Script

LEMMA RestKeepsType ==
  ASSUME IInv,
         \/ \E p \in Probes : Raise(p) \/ LoseAnswer(p) \/ Kill(p)
         \/ CrawlEnds \/ ClearAway
  PROVE  TypeInv'
<1>a. TypeInv
  BY DEF IInv
<1>1. ASSUME NEW p \in Probes, Raise(p) PROVE TypeInv'
  <2>1. PICK place \in Stages \cup Deletions :
          /\ place \notin {"check", "bucket", "database", "role", "crawler"}
          /\ To(p, place)
    BY <1>a, <1>1, CleaningUp DEF Raise, Abandon, Stages, Deletions
  <2>2. why' \in [Probes -> {"nothing", "outside the try", "a deletion failed", "the crawler runs"}]
    BY <1>a, <1>1, GivesUp DEF Raise, TypeInv
  <2> QED BY <1>a, <1>1, <2>1, <2>2, Moves DEF Raise, TypeInv, ProbeTypeOK
<1>2. ASSUME NEW p \in Probes, Kill(p) PROVE TypeInv'
  <2>1. "killed" \in Stages \cup Deletions
    BY DEF Stages
  <2> QED BY <1>a, <1>2, <2>1, Moves DEF Kill, TypeInv, ProbeTypeOK
<1>3. ASSUME CrawlEnds PROVE TypeInv'
  <2>1. owner' \in [Shared -> Probes \cup {Nobody}]
    BY <1>a, <1>3 DEF CrawlEnds, Made, TypeInv, ProbeTypeOK, Shared
  <2> QED BY <1>a, <1>3, <2>1 DEF CrawlEnds, TypeInv, ProbeTypeOK
<1>4. ASSUME ClearAway PROVE TypeInv'
  BY <1>a, <1>4 DEF ClearAway, Gone, TypeInv, ProbeTypeOK
<1>5. ASSUME NEW p \in Probes, LoseAnswer(p) PROVE TypeInv'
  <2>1. owner' \in [Shared -> Probes \cup {Nobody}]
    BY <1>a, <1>5, Makes DEF LoseAnswer, Shared
  <2>2. /\ To(p, "ended")
        /\ why' \in [Probes -> {"nothing", "outside the try", "a deletion failed", "the crawler runs"}]
    BY <1>a, <1>5, GivesUp DEF LoseAnswer
  <2>3. "ended" \in Stages \cup Deletions
    BY DEF Stages
  <2> QED BY <1>a, <1>5, <2>1, <2>2, <2>3, Moves DEF LoseAnswer, TypeInv, ProbeTypeOK
<1> QED BY <1>1, <1>2, <1>3, <1>4, <1>5

-----------------------------------------------------------------------------
(* The lock, and what follows from who has it *)

\* A step of p, seen from another script.
LEMMA OthersStayOrderly ==
  ASSUME IInv, NEW p \in Probes, NEW q \in Probes, q # p,
         \E place \in Stages \cup Deletions : To(p, place),
         mode' = mode, keep' = keep, why'[q] = why[q],
         q \in buckets' => q \in buckets,
         \A s \in Shared : owner'[s] = q => owner[s] = q,
         at[q] \in Inside => owner'["database"] = owner["database"]
  PROVE  Orderly(q)'
<1>1. at'[q] = at[q]
  BY Moves DEF IInv
<1>2. Orderly(q)
  BY DEF IInv
<1>3. Locked(q)'
  BY <1>1, <1>2 DEF Orderly, Locked, Alive, Shared
<1>4. Ordered(q)'
  BY <1>1, <1>2 DEF Orderly, Ordered, Shared
<1>5. Accounted(q)'
  BY <1>1, <1>2 DEF Orderly, Accounted, Left
<1> QED BY <1>3, <1>4, <1>5 DEF Orderly

\* A deletion, seen from another script: whoever deletes has the database.
LEMMA DeletionsSpareOthers ==
  ASSUME IInv, NEW p \in Probes, NEW q \in Probes, q # p,
         at[p] \in Inside, NEW what \in SUBSET Shared, Gone(what)
  PROVE  /\ at[q] \notin Inside
         /\ \A s \in Shared : owner'[s] = q => owner[s] = q
BY Parameters, Clears DEF IInv, Orderly, Locked, Shared

LEMMA ScriptSparesOthers ==
  ASSUME IInv, NEW p \in Probes, Script(p), NEW q \in Probes, q # p
  PROVE  Orderly(q)'
<1>a. TypeInv /\ Nobody \notin Probes /\ Orderly(p) /\ Orderly(q)
  BY Parameters DEF IInv
<1>b. mode' = mode /\ keep' = keep
  BY DEF Script, Check, make_bucket, create_database, probe, make_role, create_crawler,
     start_crawler, Crawled, Timeout, cleanup_crawler, delete_role, delete_table,
     delete_database, empty_and_delete_bucket
<1>c. /\ Finally(p) \in {"ended", "delete crawler", "delete table"}
      /\ at[p] \in Deletions => After(p) \in Deletions \cup {"ended"}
  BY <1>a, CleaningUp DEF Deletions
<1>1. \E place \in Stages \cup Deletions : To(p, place)
  BY <1>c DEF Script, Check, make_bucket, create_database, probe, make_role, create_crawler,
     start_crawler, Crawled, Timeout, cleanup_crawler, delete_role, delete_table,
     delete_database, empty_and_delete_bucket, Stages, Deletions, Abandon, Retry
<1>2. why'[q] = why[q]
  BY <1>a, GivesUp DEF Script, Check, make_bucket, create_database, probe, make_role,
     create_crawler, start_crawler, Crawled, Timeout, cleanup_crawler, delete_role,
     delete_table, delete_database, empty_and_delete_bucket
<1>3. q \in buckets' => q \in buckets
  BY DEF Script, Check, make_bucket, create_database, probe, make_role,
     create_crawler, start_crawler, Crawled, Timeout, cleanup_crawler, delete_role,
     delete_table, delete_database, empty_and_delete_bucket
<1>4. /\ \A s \in Shared : owner'[s] = q => owner[s] = q
      /\ at[q] \in Inside => owner'["database"] = owner["database"]
  <2>1. CASE owner' = owner
    BY <2>1
  <2>2. CASE \E s \in Shared : owner[s] = Nobody /\ Made(p, s)
    BY <1>a, <2>2, Makes DEF Orderly, Locked, Shared
  <2>3. CASE at[p] \in Inside /\ \E what \in SUBSET Shared : Gone(what)
    BY <2>3, DeletionsSpareOthers
  <2> QED BY <2>1, <2>2, <2>3
       DEF Script, Check, make_bucket, create_database, probe, make_role,
     create_crawler, start_crawler, Crawled, Timeout, cleanup_crawler, delete_role,
     delete_table, delete_database, empty_and_delete_bucket, Inside, Shared, Abandon
<1> QED BY <1>b, <1>1, <1>2, <1>3, <1>4, OthersStayOrderly

LEMMA ScriptStaysOrderly ==
  ASSUME IInv, NEW p \in Probes, Script(p)
  PROVE  Orderly(p)'
<1>a. TypeInv /\ Nobody \notin Probes /\ Orderly(p) /\ mode[p] \in Modes
  BY Parameters DEF IInv, TypeInv, ProbeTypeOK
<1>b. mode' = mode /\ keep' = keep
  BY DEF Script, Check, make_bucket, create_database, probe, make_role, create_crawler,
     start_crawler, Crawled, Timeout, cleanup_crawler, delete_role, delete_table,
     delete_database, empty_and_delete_bucket
<1>c. /\ Finally(p) = IF keep[p] THEN "ended"
                      ELSE IF mode[p] = "crawler" THEN "delete crawler" ELSE "delete table"
      /\ at[p] = "delete crawler" => After(p) = "delete role"
      /\ at[p] = "delete role" => After(p) = "delete table"
      /\ at[p] = "delete table" => After(p) = "delete database"
      /\ at[p] = "delete database" =>
           After(p) = IF mode[p] = "default" THEN "ended" ELSE "delete bucket"
      /\ at[p] = "delete bucket" => After(p) = "ended"
  BY <1>a, CleaningUp
<1> USE <1>a, <1>b, <1>c DEF Orderly, Locked, Ordered, Accounted, Alive, Left, Shared, Modes,
        Inside, CrawlerStages, Stages, Deletions
<1>1. CASE Check(p)
  <2>1. at'[p] \in {"ended", "database", "bucket"} /\ (at'[p] = "bucket" => mode[p] # "default")
    <3>1. PICK place \in {"ended", "database", "bucket"} :
            To(p, place) /\ (place = "bucket" => mode[p] # "default")
      BY <1>1 DEF Check
    <3> QED BY <3>1, Moves
  <2> QED BY <1>1, <2>1 DEF Check
<1>2. CASE make_bucket(p)
  <2>1. at'[p] = "database"
    BY <1>2, Moves DEF make_bucket
  <2> QED BY <1>2, <2>1 DEF make_bucket
<1>3. CASE create_database(p)
  <2>1. CASE owner["database"] = Nobody
    <3>1. at'[p] = IF mode[p] = "crawler" THEN "role" ELSE "probe"
      BY <1>3, <2>1, Moves DEF create_database
    <3>2. owner'["database"] = p /\ \A t \in Shared : t # "database" => owner'[t] = owner[t]
      BY <1>3, <2>1, Makes DEF create_database
    <3> QED BY <1>3, <2>1, <3>1, <3>2 DEF create_database
  <2>2. CASE owner["database"] # Nobody
    <3>1. at'[p] = "ended" /\ why'[p] # "nothing"
      BY <1>3, <2>2, Moves, GivesUp DEF create_database
    <3> QED BY <1>3, <2>2, <3>1 DEF create_database
  <2> QED BY <2>1, <2>2
<1>4. CASE probe(p)
  <2>1. at'[p] = Finally(p)
    BY <1>4, Moves DEF probe
  <2>2. \A t \in Shared : t # "table" => owner'[t] = owner[t]
    BY <1>4, Makes DEF probe
  <2> QED BY <1>4, <2>1, <2>2 DEF probe
<1>5. CASE make_role(p)
  <2>1. at'[p] \in {"crawler", Finally(p)}
    BY <1>5, Moves DEF make_role
  <2>2. \A t \in Shared : t # "role" => owner'[t] = owner[t]
    BY <1>5, Makes DEF make_role
  <2> QED BY <1>5, <2>1, <2>2 DEF make_role
<1>6. CASE create_crawler(p)
  <2>1. at'[p] \in {"crawler", "first crawl", Finally(p)}
    BY <1>6, Moves DEF create_crawler, Retry
  <2>2. \A t \in Shared : t # "crawler" => owner'[t] = owner[t]
    BY <1>6, Makes DEF create_crawler
  <2> QED BY <1>6, <2>1, <2>2 DEF create_crawler
<1>7. CASE start_crawler(p) \/ Crawled(p) \/ Timeout(p)
  <2>1. at'[p] \in {"first wait", "second wait", "second crawl", Finally(p)}
    BY <1>7, Moves DEF start_crawler, Crawled, Timeout
  <2> QED BY <1>7, <2>1 DEF start_crawler, Crawled, Timeout, Waiting
<1>8. CASE cleanup_crawler(p)
  <2>1. CASE busy
    <3>1. at'[p] = "ended" /\ why'[p] # "nothing"
      BY <1>8, <2>1, Moves, GivesUp DEF cleanup_crawler
    <3> QED BY <1>8, <2>1, <3>1 DEF cleanup_crawler
  <2>2. CASE ~busy
    <3>1. at'[p] = "delete role"
      BY <1>8, <2>2, Moves DEF cleanup_crawler
    <3>2. \A t \in Shared : owner'[t] = IF t = "crawler" THEN Nobody ELSE owner[t]
      <4>1. Gone({"crawler"}) /\ {"crawler"} \in SUBSET Shared
        BY <1>8, <2>2 DEF cleanup_crawler
      <4>2. \A t \in Shared : owner'[t] = IF t \in {"crawler"} THEN Nobody ELSE owner[t]
        BY <1>a, <4>1, Clears
      <4> QED BY <4>2
    <3> QED BY <1>8, <2>2, <3>1, <3>2 DEF cleanup_crawler
  <2> QED BY <2>1, <2>2
<1>9. CASE delete_role(p)
  <2>1. at'[p] = "delete table"
    BY <1>9, Moves DEF delete_role
  <2>2. \A t \in Shared : owner'[t] = IF t = "role" THEN Nobody ELSE owner[t]
    BY <1>9, Clears DEF delete_role
  <2> QED BY <1>9, <2>1, <2>2 DEF delete_role
<1>10. CASE delete_table(p)
  <2>1. at'[p] = "delete database"
    BY <1>10, Moves DEF delete_table
  <2>2. \A t \in Shared : owner'[t] = IF t = "table" THEN Nobody ELSE owner[t]
    BY <1>10, Clears DEF delete_table
  <2> QED BY <1>10, <2>1, <2>2 DEF delete_table
<1>11. CASE delete_database(p)
  <2>1. at'[p] = IF mode[p] = "default" THEN "ended" ELSE "delete bucket"
    BY <1>11, Moves DEF delete_database
  <2>2. \A t \in Shared : owner'[t] = IF t \in {"database", "table"} THEN Nobody ELSE owner[t]
    BY <1>11, Clears DEF delete_database
  <2>3. \A t \in Shared : owner'[t] # p
    BY <1>11, <2>2 DEF delete_database
  <2> QED BY <1>11, <2>1, <2>3 DEF delete_database
<1>12. CASE empty_and_delete_bucket(p)
  <2>1. at'[p] = "ended"
    BY <1>12, Moves DEF empty_and_delete_bucket
  <2> QED BY <1>12, <2>1 DEF empty_and_delete_bucket
<1> QED BY <1>1, <1>2, <1>3, <1>4, <1>5, <1>6, <1>7, <1>8, <1>9, <1>10, <1>11, <1>12 DEF Script

\* An error and a death: nothing is made or deleted.
LEMMA DeathsLeaveAllOrderly ==
  ASSUME IInv, NEW p \in Probes, Raise(p) \/ Kill(p), NEW q \in Probes
  PROVE  Orderly(q)'
<1>a. TypeInv /\ Orderly(p) /\ Orderly(q) /\ mode[p] \in Modes
  BY DEF IInv, TypeInv, ProbeTypeOK
<1>b. UNCHANGED <<mode, keep, owner, busy, buckets, tries>>
  BY DEF Raise, Kill
<1>c. Finally(p) = IF keep[p] THEN "ended"
                   ELSE IF mode[p] = "crawler" THEN "delete crawler" ELSE "delete table"
  BY <1>a, CleaningUp
<1>1. \E place \in Stages \cup Deletions : To(p, place)
  BY <1>c DEF Raise, Kill, Stages, Deletions, Abandon
<1>2. CASE q # p
  <2>1. why'[q] = why[q]
    BY <1>a, <1>2, GivesUp DEF Raise, Kill
  <2> QED BY <1>b, <1>1, <1>2, <2>1, OthersStayOrderly
<1> USE <1>a, <1>b, <1>c DEF Orderly, Locked, Ordered, Accounted, Alive, Left, Shared, Modes,
        Inside, CrawlerStages, Stages, Deletions
<1>3. CASE q = p /\ Kill(p)
  <2>1. at'[p] = "killed"
    BY <1>3, Moves DEF Kill
  <2> QED BY <1>3, <2>1
<1>4. CASE q = p /\ Raise(p)
  <2>1. CASE at[p] = "database" \/ at[p] \in Deletions
    <3>1. at'[p] = "ended" /\ why'[p] # "nothing"
      BY <1>4, <2>1, Moves, GivesUp DEF Raise
    <3> QED BY <1>4, <3>1
  <2>2. CASE at[p] \in {"check", "bucket"}
    <3>1. at'[p] = "ended"
      BY <1>4, <2>2, Moves DEF Raise
    <3> QED BY <1>4, <2>2, <3>1
  <2>3. CASE ~(at[p] = "database" \/ at[p] \in Deletions \/ at[p] \in {"check", "bucket"})
    <3>1. at'[p] = Finally(p) /\ why' = why
      BY <1>4, <2>3, Moves DEF Raise
    <3>2. at[p] \in Inside
      BY <1>4, <2>3 DEF Raise, TypeInv, ProbeTypeOK
    <3> QED BY <1>4, <3>1, <3>2
  <2> QED BY <2>1, <2>2, <2>3
<1> QED BY <1>2, <1>3, <1>4

\* Whoever loses the answer to create_database ends with a reason, and took the
\* database from nobody.
LEMMA LostAnswersLeaveAllOrderly ==
  ASSUME IInv, NEW p \in Probes, LoseAnswer(p), NEW q \in Probes
  PROVE  Orderly(q)'
<1>a. TypeInv /\ Nobody \notin Probes /\ Orderly(p) /\ Orderly(q)
  BY Parameters DEF IInv
<1>1. /\ at'[p] = "ended" /\ why'[p] # "nothing"
      /\ q # p => at'[q] = at[q] /\ why'[q] = why[q]
      /\ \E place \in Stages \cup Deletions : To(p, place)
  <2>1. "ended" \in Stages \cup Deletions
    BY DEF Stages
  <2> QED BY <1>a, <2>1, Moves, GivesUp DEF LoseAnswer
<1>2. owner'["database"] = p /\ \A t \in Shared : t # "database" => owner'[t] = owner[t]
  BY <1>a, Makes DEF LoseAnswer, Shared
<1>3. CASE q = p
  BY <1>a, <1>1, <1>2, <1>3 DEF LoseAnswer, Orderly, Locked, Ordered, Accounted, Alive, Left,
     Shared, Inside, CrawlerStages
<1>4. CASE q # p
  <2>1. at[q] \notin Inside
    BY <1>a DEF LoseAnswer, Orderly, Locked
  <2>2. \A s \in Shared : owner'[s] = q => owner[s] = q
    BY <1>2, <1>4 DEF Shared
  <2> QED BY <1>1, <1>4, <2>1, <2>2, OthersStayOrderly DEF LoseAnswer
<1> QED BY <1>3, <1>4

\* What Glue and people do: a crawl makes the table for whoever made the crawler,
\* and a database is cleared away only when nobody is inside.
LEMMA WorldLeavesAllOrderly ==
  ASSUME IInv, CrawlEnds \/ ClearAway, NEW q \in Probes
  PROVE  Orderly(q)'
<1>a. TypeInv /\ Orderly(q) /\ Nobody \notin Probes
  BY Parameters DEF IInv
<1>b. UNCHANGED <<at, mode, keep, buckets, tries, why>>
  BY DEF CrawlEnds, ClearAway
<1> USE <1>a, <1>b DEF Orderly, Locked, Ordered, Accounted, Alive, Left, Shared
<1>1. CASE CrawlEnds
  <2>1. /\ \A t \in Shared : t # "table" => owner'[t] = owner[t]
        /\ owner'["table"] \in {owner["table"], owner["crawler"]}
    BY <1>1 DEF CrawlEnds, Made, TypeInv, ProbeTypeOK
  <2> QED BY <1>1, <2>1
<1>2. CASE ClearAway
  <2>1. /\ owner'["role"] = owner["role"] /\ owner'["crawler"] = owner["crawler"]
        /\ \A t \in {"database", "table"} : owner'[t] = Nobody
    BY <1>2 DEF ClearAway, Gone
  <2>2. at[q] \notin Inside
    BY <1>2 DEF ClearAway, Inside
  <2> QED BY <1>2, <2>1, <2>2
<1> QED BY <1>1, <1>2

-----------------------------------------------------------------------------
(* The theorems *)

LEMMA StepsKeep == IInv /\ [ProbeNext]_probeVars => IInv'
<1> SUFFICES ASSUME IInv, [ProbeNext]_probeVars PROVE IInv'
  OBVIOUS
<1>1. CASE \E p \in Probes : Script(p)
  <2>1. PICK p \in Probes : Script(p)
    BY <1>1
  <2>2. ASSUME NEW q \in Probes PROVE Orderly(q)'
    BY <2>1, ScriptSparesOthers, ScriptStaysOrderly
  <2> QED BY <2>1, <2>2, ScriptKeepsType DEF IInv
<1>2. CASE \E p \in Probes : Raise(p) \/ LoseAnswer(p) \/ Kill(p)
  BY <1>2, RestKeepsType, DeathsLeaveAllOrderly, LostAnswersLeaveAllOrderly DEF IInv
<1>3. CASE CrawlEnds \/ ClearAway
  BY <1>3, RestKeepsType, WorldLeavesAllOrderly DEF IInv
<1>4. CASE UNCHANGED probeVars
  BY <1>4 DEF probeVars, IInv, TypeInv, ProbeTypeOK, Orderly, Locked, Ordered, Accounted,
     Alive, Left
<1> QED BY <1>1, <1>2, <1>3, <1>4 DEF ProbeNext

LEMMA Invariant == ProbeSpec => []IInv
BY Starts, StepsKeep, PTL DEF ProbeSpec

\* Every variable keeps its type, the calls of create_crawler within their bound
\* (glue_probe.py:323, 340).
THEOREM ProbesKeepTypes == ProbeSpec => []ProbeTypeOK
<1>1. IInv => ProbeTypeOK
  BY DEF IInv, TypeInv
<1> QED BY <1>1, Invariant, PTL

\* Whatever number of scripts is started, and whatever raises or dies: what a script
\* made that was neither killed nor told to keep it is gone when it ends, or one of
\* three reasons holds (glue_probe.py:431-443).
THEOREM NothingIsEverLeftForNothing == ProbeSpec => []NothingIsLeftForNothing
<1>1. IInv => NothingIsLeftForNothing
  BY DEF IInv, Orderly, Accounted, NothingIsLeftForNothing
<1> QED BY <1>1, Invariant, PTL

\* Who takes something from a script that is alive is that script (glue_probe.py:417-423).
LEMMA OnlyItsOwnStepsTake ==
  ASSUME IInv, ProbeNext, NEW p \in Probes, NEW s \in Shared,
         owner[s] = p, owner'[s] # p, Alive(p)
  PROVE  at'[p] # at[p]
<1>a. TypeInv /\ Nobody \notin Probes /\ \A q \in Probes : Orderly(q)
  BY Parameters DEF IInv
<1>1. PICK q \in Probes : Script(q)
  <2>1. ~CrawlEnds
    BY <1>a DEF CrawlEnds, Made, TypeInv, ProbeTypeOK
  <2>2. ~ClearAway
    BY <1>a DEF ClearAway, Orderly, Locked
  <2>3. ASSUME NEW q \in Probes, Raise(q) \/ Kill(q) PROVE FALSE
    BY <2>3 DEF Raise, Kill
  <2>4. ASSUME NEW q \in Probes, LoseAnswer(q) PROVE FALSE
    BY <1>a, <2>4, Makes DEF LoseAnswer, Shared
  <2> QED BY <2>1, <2>2, <2>3, <2>4 DEF ProbeNext
<1>2. at[q] \in Deletions \ {"delete bucket"} /\ \E what \in SUBSET Shared : Gone(what)
  <2>1. ~\E t \in Shared : owner[t] = Nobody /\ Made(q, t)
    BY <1>a, Makes
  <2>2. owner' # owner
    OBVIOUS
  <2> QED BY <1>1, <2>1, <2>2
       DEF Script, Check, make_bucket, create_database, probe, make_role, create_crawler,
     start_crawler, Crawled, Timeout, cleanup_crawler, delete_role, delete_table,
     delete_database, empty_and_delete_bucket, Inside, Shared, Abandon, Deletions
<1>3. q = p
  BY <1>a, <1>2 DEF Orderly, Locked, Inside, Deletions
<1>4. PICK place \in {"ended", After(p)} : To(p, place)
  BY <1>1, <1>2, <1>3
     DEF Script, Check, make_bucket, create_database, probe, make_role, create_crawler,
     start_crawler, Crawled, Timeout, cleanup_crawler, delete_role, delete_table,
     delete_database, empty_and_delete_bucket, Deletions, Abandon, Waiting
<1>5. After(p) \in Deletions \cup {"ended"} /\ After(p) # at[p]
  BY <1>a, <1>2, <1>3, CleaningUp DEF Deletions
<1>6. at'[p] = place
  BY <1>a, <1>4, <1>5, Moves DEF Stages
<1> QED BY <1>2, <1>3, <1>4, <1>5, <1>6 DEF Deletions

\* While a script is alive no other step deletes the database, the table, the role or
\* the crawler it made, for any number of scripts that use the same names
\* (glue_probe.py:417-423): the database is the lock.
THEOREM LiveProbesAreAlwaysLeftAlone == ProbeSpec => LiveProbesAreLeftAlone
<1>1. IInv /\ [ProbeNext]_probeVars =>
        [\A p \in Probes, s \in Shared :
           owner[s] = p /\ owner'[s] # p /\ Alive(p) => at'[p] # at[p]]_probeVars
  BY OnlyItsOwnStepsTake
<1> QED BY <1>1, Invariant, PTL DEF ProbeSpec, LiveProbesAreLeftAlone

-----------------------------------------------------------------------------
(***************************************************************************)
(* Fixture next.  Every statement has a place, which its command keeps it  *)
(* in: what a command needs and is not still to come is past.  Whatever    *)
(* the disk held before, a statement that is past has put its part of it   *)
(* in order, and no later one disturbs that part.                          *)
(***************************************************************************)

\* The place of a statement in a demo, which has all of them.
Rank(s) ==
  CASE s[1] = "unlink_lineage" -> 0
    [] s[1] = "rmtree_warehouse" -> 1
    [] s[1] = "unlink_catalog" -> 2
    [] s[1] = "rows" -> 3
    [] s[1] = "forget_tables" -> IF s[2] = "transactions" THEN 4 ELSE 6
    [] s[1] = "forget_versions" -> IF s[2] = "transactions" THEN 5 ELSE 7
    [] s[1] = "publish" -> IF s[2] = "claims" THEN 9 ELSE IF s[3] = 7 THEN 8 ELSE 16
    [] s[1] = "disown" -> IF s[2] = "transactions" THEN 10 ELSE 12
    [] s[1] = "own" -> IF s[2] = "transactions" THEN 11 ELSE 13
    [] s[1] = "add_column" -> 14
    [] s[1] = "fill_column" -> 15
    [] s[1] = "rmtree_landing" -> 17
    [] s[1] = "batch" -> 17 + s[2]
    [] s[1] = "run" -> IF s[2] = "fraud" THEN 22 ELSE IF s[2] = "policy" THEN 23 ELSE 24

Cleaning == {<<"rmtree_warehouse">>, <<"unlink_catalog">>}
Forgetting(t) == {<<"forget_tables", t>>, <<"forget_versions", t>>}
Publishing == {<<"publish", "transactions", 7>>, <<"publish", "claims", 3>>}
Owning(t) == {<<"disown", t>>, <<"own", t>>}
Drifting == {<<"add_column">>, <<"fill_column">>, <<"publish", "transactions", 8>>}
Landing(n) == {<<"batch", b, n>> : b \in Batches}
Running == {<<"run", d>> : d \in Domains}

Builds(c) == c.name \in {"seed", "demo"}

\* What a seed or a demo cannot do without.
Needed(c) ==
  IF ~Builds(c) THEN {} ELSE
    (IF c.name = "demo" THEN {<<"unlink_lineage">>} ELSE {})
    \cup {<<"rows", c.scale>>}
    \cup Forgetting("transactions") \cup Forgetting("claims")
    \cup Publishing
    \cup Owning("transactions") \cup Owning("claims")
    \cup (IF c.drift THEN Drifting ELSE {})
    \cup {<<"rmtree_landing">>} \cup Landing(c.scale)
    \cup (IF c.name = "demo" THEN Running ELSE {})

\* What may be under way with it.
Allowed(c) ==
  Needed(c) \cup (IF c.name = "run" THEN Running ELSE IF Builds(c) THEN Cleaning ELSE {})

\* S runs through the statements of `all', in order, between two ranks.
Lists(S, lo, hi, all) ==
  /\ S \in Seq(all)
  /\ \A s \in all : \E i \in 1 .. Len(S) : S[i] = s
  /\ \A i \in 1 .. Len(S) : Rank(S[i]) \in lo .. hi - 1
  /\ \A i, j \in 1 .. Len(S) : i < j => Rank(S[i]) < Rank(S[j])

LEMMA ListsConcat ==
  ASSUME NEW A, NEW B, NEW X, NEW Y, NEW lo \in Nat, NEW mid \in Nat, NEW hi \in Nat,
         lo <= mid, mid <= hi,
         Lists(A, lo, mid, X), Lists(B, mid, hi, Y)
  PROVE  Lists(A \o B, lo, hi, X \cup Y)
<1>1. /\ A \o B \in Seq(X \cup Y)
      /\ Len(A \o B) = Len(A) + Len(B)
      /\ \A i \in 1 .. Len(A) + Len(B) :
           (A \o B)[i] = IF i <= Len(A) THEN A[i] ELSE B[i - Len(A)]
      /\ Len(A) \in Nat /\ Len(B) \in Nat
  <2>1. A \in Seq(X \cup Y) /\ B \in Seq(X \cup Y)
    BY DEF Lists
  <2> QED BY <2>1, ConcatProperties
<1> DEFINE C == A \o B
<1> HIDE DEF C
<1>2. ASSUME NEW i \in 1 .. Len(C)
      PROVE  \/ i \in 1 .. Len(A) /\ C[i] = A[i]
             \/ i - Len(A) \in 1 .. Len(B) /\ C[i] = B[i - Len(A)] /\ i > Len(A)
  BY <1>1 DEF C
<1>3. ASSUME NEW s \in X \cup Y PROVE \E i \in 1 .. Len(C) : C[i] = s
  <2>1. CASE s \in X
    <3>1. PICK i \in 1 .. Len(A) : A[i] = s
      BY <2>1 DEF Lists
    <3> QED BY <1>1, <3>1 DEF C
  <2>2. CASE s \in Y
    <3>1. PICK i \in 1 .. Len(B) : B[i] = s
      BY <2>2 DEF Lists
    <3>2. i + Len(A) \in 1 .. Len(C) /\ C[i + Len(A)] = s
      BY <1>1, <3>1 DEF C
    <3> QED BY <3>2
  <2> QED BY <2>1, <2>2
<1>4. ASSUME NEW i \in 1 .. Len(C) PROVE Rank(C[i]) \in lo .. hi - 1
  <2>1. CASE i \in 1 .. Len(A) /\ C[i] = A[i]
    <3>1. Rank(A[i]) \in lo .. mid - 1
      BY <2>1 DEF Lists
    <3> QED BY <2>1, <3>1
  <2>2. CASE i - Len(A) \in 1 .. Len(B) /\ C[i] = B[i - Len(A)]
    <3>1. Rank(B[i - Len(A)]) \in mid .. hi - 1
      BY <2>2 DEF Lists
    <3> QED BY <2>2, <3>1
  <2> QED BY <1>2, <2>1, <2>2
<1>5. ASSUME NEW i \in 1 .. Len(C), NEW j \in 1 .. Len(C), i < j
      PROVE  Rank(C[i]) < Rank(C[j])
  <2>1. CASE j \in 1 .. Len(A) /\ C[j] = A[j]
    <3>1. i \in 1 .. Len(A) /\ C[i] = A[i]
      BY <1>1, <1>2, <1>5, <2>1
    <3>2. \A k, l \in 1 .. Len(A) : k < l => Rank(A[k]) < Rank(A[l])
      BY DEF Lists
    <3> QED BY <1>5, <2>1, <3>1, <3>2
  <2>2. CASE i - Len(A) \in 1 .. Len(B) /\ C[i] = B[i - Len(A)] /\ i > Len(A)
    <3>1. j - Len(A) \in 1 .. Len(B) /\ C[j] = B[j - Len(A)]
      BY <1>1, <1>2, <1>5, <2>2
    <3>2. \A k, l \in 1 .. Len(B) : k < l => Rank(B[k]) < Rank(B[l])
      BY DEF Lists
    <3>3. i - Len(A) < j - Len(A)
      BY <1>1, <1>5
    <3>4. Rank(B[i - Len(A)]) < Rank(B[j - Len(A)])
      BY <2>2, <3>1, <3>2, <3>3
    <3> QED BY <2>2, <3>1, <3>4
  <2>3. CASE /\ i \in 1 .. Len(A) /\ C[i] = A[i]
             /\ j - Len(A) \in 1 .. Len(B) /\ C[j] = B[j - Len(A)]
    <3>1. Rank(A[i]) \in lo .. mid - 1 /\ Rank(B[j - Len(A)]) \in mid .. hi - 1
      BY <2>3 DEF Lists
    <3> QED BY <2>3, <3>1
  <2> QED BY <1>2, <2>1, <2>2, <2>3
<1> QED BY <1>1, <1>3, <1>4, <1>5 DEF Lists, C

LEMMA ListsOne ==
  ASSUME NEW a, NEW lo \in Nat, NEW hi \in Nat, Rank(a) \in lo .. hi - 1
  PROVE  Lists(<<a>>, lo, hi, {a})
<1> DEFINE S == <<a>>
<1>1. S \in Seq({a}) /\ Len(S) = 1 /\ S[1] = a
  OBVIOUS
<1> HIDE DEF S
<1>2. Lists(S, lo, hi, {a})
  BY <1>1 DEF Lists
<1> QED BY <1>2 DEF S

LEMMA ListsTwo ==
  ASSUME NEW a, NEW b, NEW lo \in Nat, NEW hi \in Nat,
         Rank(a) \in lo .. hi - 1, Rank(b) \in lo .. hi - 1, Rank(a) < Rank(b)
  PROVE  Lists(<<a, b>>, lo, hi, {a, b})
<1> DEFINE S == <<a, b>>
<1>1. S \in Seq({a, b}) /\ Len(S) = 2 /\ S[1] = a /\ S[2] = b
  OBVIOUS
<1> HIDE DEF S
<1>2. Lists(S, lo, hi, {a, b})
  BY <1>1 DEF Lists
<1> QED BY <1>2 DEF S

LEMMA ListsThree ==
  ASSUME NEW a, NEW b, NEW c, NEW lo \in Nat, NEW hi \in Nat,
         Rank(a) \in lo .. hi - 1, Rank(b) \in lo .. hi - 1, Rank(c) \in lo .. hi - 1,
         Rank(a) < Rank(b), Rank(b) < Rank(c)
  PROVE  Lists(<<a, b, c>>, lo, hi, {a, b, c})
<1> DEFINE S == <<a, b, c>>
<1>1. S \in Seq({a, b, c}) /\ Len(S) = 3 /\ S[1] = a /\ S[2] = b /\ S[3] = c
  OBVIOUS
<1> HIDE DEF S
<1>2. Lists(S, lo, hi, {a, b, c})
  BY <1>1 DEF Lists
<1> QED BY <1>2 DEF S

LEMMA Ranks ==
  /\ Rank(<<"unlink_lineage">>) = 0 /\ Rank(<<"rmtree_warehouse">>) = 1
  /\ Rank(<<"unlink_catalog">>) = 2 /\ \A n : Rank(<<"rows", n>>) = 3
  /\ \A t \in Sources :
       /\ Rank(<<"forget_tables", t>>) = IF t = "transactions" THEN 4 ELSE 6
       /\ Rank(<<"forget_versions", t>>) = IF t = "transactions" THEN 5 ELSE 7
       /\ Rank(<<"disown", t>>) = IF t = "transactions" THEN 10 ELSE 12
       /\ Rank(<<"own", t>>) = IF t = "transactions" THEN 11 ELSE 13
  /\ \A n : Rank(<<"publish", "transactions", n>>) = IF n = 7 THEN 8 ELSE 16
  /\ \A n : Rank(<<"publish", "claims", n>>) = 9
  /\ Rank(<<"add_column">>) = 14 /\ Rank(<<"fill_column">>) = 15
  /\ Rank(<<"rmtree_landing">>) = 17
  /\ \A b \in Batches : \A n : Rank(<<"batch", b, n>>) = 17 + b
  /\ \A d : Rank(<<"run", d>>) = IF d = "fraud" THEN 22 ELSE IF d = "policy" THEN 23 ELSE 24
BY DEF Rank

LEMMA Parts ==
  ASSUME NEW scale \in Scales
  PROVE  /\ Lists(<<>>, 1, 3, {})
         /\ Lists(<< <<"unlink_lineage">> >>, 0, 1, {<<"unlink_lineage">>})
         /\ Lists(<< <<"rmtree_warehouse">>, <<"unlink_catalog">> >>, 1, 3, Cleaning)
         /\ Lists(<< <<"rows", scale>> >>, 3, 4, {<<"rows", scale>>})
         /\ Lists(forget("transactions"), 4, 6, Forgetting("transactions"))
         /\ Lists(forget("claims"), 6, 8, Forgetting("claims"))
         /\ Lists(<< <<"publish", "transactions", 7>>, <<"publish", "claims", 3>> >>, 8, 10, Publishing)
         /\ Lists(own("transactions"), 10, 12, Owning("transactions"))
         /\ Lists(own("claims"), 12, 14, Owning("claims"))
         /\ Lists(<< <<"add_column">>, <<"fill_column">>, <<"publish", "transactions", 8>> >>, 14, 17,
                  Drifting)
         /\ Lists(<<>>, 14, 17, {})
         /\ Lists(<< <<"rmtree_landing">> >>, 17, 18, {<<"rmtree_landing">>})
         /\ Lists([b \in Batches |-> <<"batch", b, scale>>], 18, 22, Landing(scale))
         /\ Lists([i \in 1 .. 3 |-> <<"run", DOMAINS[i]>>], 22, 25, Running)
<1>1. Lists(<<>>, 1, 3, {}) /\ Lists(<<>>, 14, 17, {})
  BY DEF Lists
<1>2. Lists(<< <<"unlink_lineage">> >>, 0, 1, {<<"unlink_lineage">>})
  <2> DEFINE a == <<"unlink_lineage">>
  <2>1. Rank(a) = 0
    BY Ranks
  <2> HIDE DEF a
  <2>2. Lists(<<a>>, 0, 1, {a})
    BY <2>1, ListsOne
  <2> QED BY <2>2 DEF a
<1>3. Lists(<< <<"rmtree_warehouse">>, <<"unlink_catalog">> >>, 1, 3, {<<"rmtree_warehouse">>, <<"unlink_catalog">>})
  <2> DEFINE a == <<"rmtree_warehouse">>
             b == <<"unlink_catalog">>
  <2>1. Rank(a) = 1 /\ Rank(b) = 2
    BY Ranks DEF Sources
  <2> HIDE DEF a, b
  <2>2. Lists(<<a, b>>, 1, 3, {a, b})
    BY <2>1, ListsTwo
  <2> QED BY <2>2 DEF a, b
<1>4. Lists(<< <<"rows", scale>> >>, 3, 4, {<<"rows", scale>>})
  <2> DEFINE a == <<"rows", scale>>
  <2>1. Rank(a) = 3
    BY Ranks
  <2> HIDE DEF a
  <2>2. Lists(<<a>>, 3, 4, {a})
    BY <2>1, ListsOne
  <2> QED BY <2>2 DEF a
<1>5. Lists(forget("transactions"), 4, 6, {<<"forget_tables", "transactions">>, <<"forget_versions", "transactions">>})
  <2> DEFINE a == <<"forget_tables", "transactions">>
             b == <<"forget_versions", "transactions">>
  <2>1. Rank(a) = 4 /\ Rank(b) = 5
    BY Ranks DEF Sources
  <2> HIDE DEF a, b
  <2>2. Lists(<<a, b>>, 4, 6, {a, b})
    BY <2>1, ListsTwo
  <2> QED BY <2>2 DEF a, b, forget
<1>6. Lists(forget("claims"), 6, 8, {<<"forget_tables", "claims">>, <<"forget_versions", "claims">>})
  <2> DEFINE a == <<"forget_tables", "claims">>
             b == <<"forget_versions", "claims">>
  <2>1. Rank(a) = 6 /\ Rank(b) = 7
    BY Ranks DEF Sources
  <2> HIDE DEF a, b
  <2>2. Lists(<<a, b>>, 6, 8, {a, b})
    BY <2>1, ListsTwo
  <2> QED BY <2>2 DEF a, b, forget
<1>7. Lists(<< <<"publish", "transactions", 7>>, <<"publish", "claims", 3>> >>, 8, 10, {<<"publish", "transactions", 7>>, <<"publish", "claims", 3>>})
  <2> DEFINE a == <<"publish", "transactions", 7>>
             b == <<"publish", "claims", 3>>
  <2>1. Rank(a) = 8 /\ Rank(b) = 9
    BY Ranks DEF Sources
  <2> HIDE DEF a, b
  <2>2. Lists(<<a, b>>, 8, 10, {a, b})
    BY <2>1, ListsTwo
  <2> QED BY <2>2 DEF a, b
<1>8. Lists(own("transactions"), 10, 12, {<<"disown", "transactions">>, <<"own", "transactions">>})
  <2> DEFINE a == <<"disown", "transactions">>
             b == <<"own", "transactions">>
  <2>1. Rank(a) = 10 /\ Rank(b) = 11
    BY Ranks DEF Sources
  <2> HIDE DEF a, b
  <2>2. Lists(<<a, b>>, 10, 12, {a, b})
    BY <2>1, ListsTwo
  <2> QED BY <2>2 DEF a, b, own
<1>9. Lists(own("claims"), 12, 14, {<<"disown", "claims">>, <<"own", "claims">>})
  <2> DEFINE a == <<"disown", "claims">>
             b == <<"own", "claims">>
  <2>1. Rank(a) = 12 /\ Rank(b) = 13
    BY Ranks DEF Sources
  <2> HIDE DEF a, b
  <2>2. Lists(<<a, b>>, 12, 14, {a, b})
    BY <2>1, ListsTwo
  <2> QED BY <2>2 DEF a, b, own
<1>10. Lists(<< <<"add_column">>, <<"fill_column">>, <<"publish", "transactions", 8>> >>, 14, 17,
              {<<"add_column">>, <<"fill_column">>, <<"publish", "transactions", 8>>})
  <2> DEFINE a == <<"add_column">>
             b == <<"fill_column">>
             c == <<"publish", "transactions", 8>>
  <2>1. Rank(a) = 14 /\ Rank(b) = 15
    BY Ranks
  <2>5. Rank(c) = 16
    <3>1. 8 # 7
      OBVIOUS
    <3> QED BY <3>1, Ranks
  <2> HIDE DEF a, b, c
  <2>2. Lists(<<a, b, c>>, 14, 17, {a, b, c})
    BY <2>1, <2>5, ListsThree
  <2> QED BY <2>2 DEF a, b, c
<1>11. Lists(<< <<"rmtree_landing">> >>, 17, 18, {<<"rmtree_landing">>})
  <2> DEFINE a == <<"rmtree_landing">>
  <2>1. Rank(a) = 17
    BY Ranks
  <2> HIDE DEF a
  <2>2. Lists(<<a>>, 17, 18, {a})
    BY <2>1, ListsOne
  <2> QED BY <2>2 DEF a
<1>12. Lists([b \in Batches |-> <<"batch", b, scale>>], 18, 22,
                  {<<"batch", b, scale>> : b \in Batches})
  <2> DEFINE S == [b \in Batches |-> <<"batch", b, scale>>]
             all == {<<"batch", b, scale>> : b \in Batches}
  <2>1. S \in Seq(all) /\ Len(S) = 4
    BY DEF Batches
  <2>2. \A b \in 1 .. 4 : S[b] = <<"batch", b, scale>> /\ Rank(S[b]) = 17 + b
    BY Ranks DEF Batches
  <2>3. \A s \in all : \E b \in 1 .. 4 : S[b] = s
    BY DEF Batches
  <2> HIDE DEF S, all
  <2>4. Lists(S, 18, 22, all)
    BY <2>1, <2>2, <2>3 DEF Lists
  <2> QED BY <2>4 DEF S, all
<1>13. Lists([i \in 1 .. 3 |-> <<"run", DOMAINS[i]>>], 22, 25, {<<"run", d>> : d \in Domains})
  <2> DEFINE S == [i \in 1 .. 3 |-> <<"run", DOMAINS[i]>>]
             all == {<<"run", d>> : d \in Domains}
  <2>0. DOMAINS[1] = "fraud" /\ DOMAINS[2] = "policy" /\ DOMAINS[3] = "finance"
    BY DEF DOMAINS
  <2>1. S \in Seq(all) /\ Len(S) = 3
    BY <2>0 DEF Domains
  <2>2. /\ S[1] = <<"run", "fraud">> /\ S[2] = <<"run", "policy">> /\ S[3] = <<"run", "finance">>
    BY <2>0
  <2>3. \A s \in all : \E i \in 1 .. 3 : S[i] = s
    BY <2>2 DEF Domains
  <2>4. Rank(S[1]) = 22 /\ Rank(S[2]) = 23 /\ Rank(S[3]) = 24
    <3>1. ASSUME NEW d, NEW s, s = <<"run", d>>
          PROVE  Rank(s) = IF d = "fraud" THEN 22 ELSE IF d = "policy" THEN 23 ELSE 24
      BY <3>1, Ranks
    <3> HIDE DEF S
    <3> QED BY <2>2, <3>1
  <2> HIDE DEF S, all
  <2>5. Lists(S, 22, 25, all)
    BY <2>1, <2>3, <2>4 DEF Lists
  <2> QED BY <2>5 DEF S, all
<1> QED
  BY <1>1, <1>2, <1>3, <1>4, <1>5, <1>6, <1>7, <1>8, <1>9, <1>10, <1>11, <1>12, <1>13
     DEF Cleaning, Forgetting, Publishing, Owning, Drifting, Landing, Running

LEMMA SeedScript ==
  ASSUME NEW scale \in Scales, NEW drift \in BOOLEAN, NEW clean \in BOOLEAN
  PROVE  \E all :
           /\ Lists(seed(scale, drift, clean), 1, 22, all)
           /\ Needed([name |-> "seed", scale |-> scale, drift |-> drift]) \subseteq all
           /\ all \subseteq Allowed([name |-> "seed", scale |-> scale, drift |-> drift])
<1> DEFINE A1 == IF clean THEN << <<"rmtree_warehouse">>, <<"unlink_catalog">> >> ELSE <<>>
           X1 == IF clean THEN Cleaning ELSE {}
           A2 == << <<"rows", scale>> >>
           X2 == {<<"rows", scale>>}
           A3 == forget("transactions")
           X3 == Forgetting("transactions")
           A4 == forget("claims")
           X4 == Forgetting("claims")
           A5 == << <<"publish", "transactions", 7>>, <<"publish", "claims", 3>> >>
           X5 == Publishing
           A6 == own("transactions")
           X6 == Owning("transactions")
           A7 == own("claims")
           X7 == Owning("claims")
           A8 == IF drift
                 THEN << <<"add_column">>, <<"fill_column">>, <<"publish", "transactions", 8>> >>
                 ELSE <<>>
           X8 == IF drift THEN Drifting ELSE {}
           A9 == << <<"rmtree_landing">> >>
           X9 == {<<"rmtree_landing">>}
           A10 == [b \in Batches |-> <<"batch", b, scale>>]
           X10 == Landing(scale)
           all == X1 \cup X2 \cup X3 \cup X4 \cup X5 \cup X6 \cup X7 \cup X8 \cup X9 \cup X10
           c == [name |-> "seed", scale |-> scale, drift |-> drift]
<1>1. seed(scale, drift, clean) = A1 \o A2 \o A3 \o A4 \o A5 \o A6 \o A7 \o A8 \o A9 \o A10
  BY DEF seed
<1>2. /\ Lists(A1, 1, 3, X1) /\ Lists(A2, 3, 4, X2) /\ Lists(A3, 4, 6, X3)
      /\ Lists(A4, 6, 8, X4) /\ Lists(A5, 8, 10, X5) /\ Lists(A6, 10, 12, X6)
      /\ Lists(A7, 12, 14, X7) /\ Lists(A8, 14, 17, X8) /\ Lists(A9, 17, 18, X9)
      /\ Lists(A10, 18, 22, X10)
  BY Parts
<1>3. Needed(c) \subseteq all /\ all \subseteq Allowed(c)
  <2>1. c.name = "seed" /\ c.scale = scale /\ c.drift = drift
    OBVIOUS
  <2>2. Builds(c) /\ c.name # "demo" /\ c.name # "run"
    BY <2>1 DEF Builds
  <2> HIDE DEF c
  <2> QED BY <2>1, <2>2, Zenon DEF Needed, Allowed
<1> HIDE DEF A1, A2, A3, A4, A5, A6, A7, A8, A9, A10, X1, X2, X3, X4, X5, X6, X7, X8, X9, X10, c
<1>5. Lists(A1 \o A2 \o A3, 1, 6, X1 \cup X2 \cup X3)
  <2>1. Lists(A1 \o A2, 1, 4, X1 \cup X2)
    BY <1>2, ListsConcat
  <2> QED BY <1>2, <2>1, ListsConcat
<1>6. Lists(A1 \o A2 \o A3 \o A4 \o A5, 1, 10, X1 \cup X2 \cup X3 \cup X4 \cup X5)
  <2>1. Lists(A1 \o A2 \o A3 \o A4, 1, 8, X1 \cup X2 \cup X3 \cup X4)
    BY <1>2, <1>5, ListsConcat
  <2> QED BY <1>2, <2>1, ListsConcat
<1>7. Lists(A1 \o A2 \o A3 \o A4 \o A5 \o A6 \o A7, 1, 14,
            X1 \cup X2 \cup X3 \cup X4 \cup X5 \cup X6 \cup X7)
  <2>1. Lists(A1 \o A2 \o A3 \o A4 \o A5 \o A6, 1, 12, X1 \cup X2 \cup X3 \cup X4 \cup X5 \cup X6)
    BY <1>2, <1>6, ListsConcat
  <2> QED BY <1>2, <2>1, ListsConcat
<1>8. Lists(A1 \o A2 \o A3 \o A4 \o A5 \o A6 \o A7 \o A8 \o A9, 1, 18,
            X1 \cup X2 \cup X3 \cup X4 \cup X5 \cup X6 \cup X7 \cup X8 \cup X9)
  <2>1. Lists(A1 \o A2 \o A3 \o A4 \o A5 \o A6 \o A7 \o A8, 1, 17,
              X1 \cup X2 \cup X3 \cup X4 \cup X5 \cup X6 \cup X7 \cup X8)
    BY <1>2, <1>7, ListsConcat
  <2> QED BY <1>2, <2>1, ListsConcat
<1>9. Lists(seed(scale, drift, clean), 1, 22, all)
  <2> DEFINE B == A1 \o A2 \o A3 \o A4 \o A5 \o A6 \o A7 \o A8 \o A9
             Y == X1 \cup X2 \cup X3 \cup X4 \cup X5 \cup X6 \cup X7 \cup X8 \cup X9
  <2>1. Lists(B, 1, 18, Y)
    BY <1>8
  <2>2. seed(scale, drift, clean) = B \o A10 /\ all = Y \cup X10
    BY <1>1
  <2> HIDE DEF B, Y, all
  <2>3. Lists(B \o A10, 1, 22, Y \cup X10)
    BY <1>2, <2>1, ListsConcat
  <2> QED BY <2>2, <2>3
<1> QED BY <1>3, <1>9 DEF c

LEMMA DemoScript ==
  \E all :
    /\ Lists(demo, 0, 25, all)
    /\ Needed([name |-> "demo", scale |-> 1, drift |-> FALSE]) \subseteq all
    /\ all \subseteq Allowed([name |-> "demo", scale |-> 1, drift |-> FALSE])
<1> DEFINE c == [name |-> "demo", scale |-> 1, drift |-> FALSE]
           k == [name |-> "seed", scale |-> 1, drift |-> FALSE]
           A == << <<"unlink_lineage">> >>
           X == {<<"unlink_lineage">>}
           B == seed(1, FALSE, TRUE)
           C == [i \in 1 .. 3 |-> <<"run", DOMAINS[i]>>]
<1>0. 1 \in Scales
  BY FixtureAssumption DEF FixtureAssumption
<1>1. PICK Y : Lists(B, 1, 22, Y) /\ Needed(k) \subseteq Y /\ Y \subseteq Allowed(k)
  BY <1>0, SeedScript
<1>2. Lists(A, 0, 1, X) /\ Lists(C, 22, 25, Running)
  BY <1>0, Parts
<1>3. demo = A \o B \o C
  BY DEF demo
<1>4. Needed(c) \subseteq X \cup Y \cup Running /\ X \cup Y \cup Running \subseteq Allowed(c)
  <2>1. /\ c.name = "demo" /\ c.scale = 1 /\ c.drift = FALSE
        /\ k.name = "seed" /\ k.scale = 1 /\ k.drift = FALSE
    OBVIOUS
  <2>2. Builds(c) /\ Builds(k) /\ k.name # "demo" /\ k.name # "run" /\ c.name # "run"
    BY <2>1 DEF Builds
  <2> HIDE DEF c, k, X
  <2>3. Needed(c) = X \cup Needed(k) \cup Running
    BY <2>1, <2>2, Zenon DEF Needed, X
  <2>4. Allowed(c) = Needed(c) \cup Cleaning /\ Allowed(k) = Needed(k) \cup Cleaning
    BY <2>2, Zenon DEF Allowed
  <2> QED BY <1>1, <2>3, <2>4, Zenon
<1> HIDE DEF A, B, C, X, c, k
<1>5. Lists(A \o B, 0, 22, X \cup Y)
  BY <1>1, <1>2, ListsConcat
<1>6. Lists(A \o B \o C, 0, 25, X \cup Y \cup Running)
  BY <1>2, <1>5, ListsConcat
<1> QED BY <1>3, <1>4, <1>6 DEF c

-----------------------------------------------------------------------------
(* What a statement is, by its place *)

Commands == [name : {"none", "seed", "demo", "run"}, scale : Scales, drift : BOOLEAN]

\* The statement of a place: what it does, to what, and which commands have it.
Reads(h, c, k) ==
  \/ k = 0 /\ h[1] = "unlink_lineage" /\ c.name = "demo"
  \/ k = 1 /\ h[1] = "rmtree_warehouse"
  \/ k = 2 /\ h[1] = "unlink_catalog"
  \/ k = 3 /\ h[1] = "rows" /\ h[2] = c.scale
  \/ k = 4 /\ h[1] = "forget_tables" /\ h[2] = "transactions"
  \/ k = 5 /\ h[1] = "forget_versions" /\ h[2] = "transactions"
  \/ k = 6 /\ h[1] = "forget_tables" /\ h[2] = "claims"
  \/ k = 7 /\ h[1] = "forget_versions" /\ h[2] = "claims"
  \/ k = 8 /\ h[1] = "publish" /\ h[2] = "transactions" /\ h[3] = 7
  \/ k = 9 /\ h[1] = "publish" /\ h[2] = "claims" /\ h[3] = 3
  \/ k = 10 /\ h[1] = "disown" /\ h[2] = "transactions"
  \/ k = 11 /\ h[1] = "own" /\ h[2] = "transactions"
  \/ k = 12 /\ h[1] = "disown" /\ h[2] = "claims"
  \/ k = 13 /\ h[1] = "own" /\ h[2] = "claims"
  \/ k = 14 /\ h[1] = "add_column" /\ c.drift
  \/ k = 15 /\ h[1] = "fill_column" /\ c.drift
  \/ k = 16 /\ h[1] = "publish" /\ h[2] = "transactions" /\ h[3] = 8 /\ c.drift
  \/ k = 17 /\ h[1] = "rmtree_landing"
  \/ \E b \in Batches : k = 17 + b /\ h[1] = "batch" /\ h[2] = b /\ h[3] = c.scale
  \/ \E i \in 1 .. 3 : k = 21 + i /\ h[1] = "run" /\ h[2] = DOMAINS[i]

LEMMA StatementsRead ==
  ASSUME NEW c \in Commands, NEW h
  PROVE  /\ h \in Cleaning => Reads(h, c, Rank(h))
         /\ h = <<"unlink_lineage">> /\ c.name = "demo" => Reads(h, c, Rank(h))
         /\ h = <<"rows", c.scale>> \/ h = <<"rmtree_landing">> => Reads(h, c, Rank(h))
         /\ h \in Forgetting("transactions") \/ h \in Forgetting("claims") => Reads(h, c, Rank(h))
         /\ h \in Publishing => Reads(h, c, Rank(h))
         /\ h \in Owning("transactions") \/ h \in Owning("claims") => Reads(h, c, Rank(h))
         /\ h \in Drifting /\ c.drift => Reads(h, c, Rank(h))
         /\ h \in Landing(c.scale) => Reads(h, c, Rank(h))
         /\ h \in Running => Reads(h, c, Rank(h))
<1>1. h \in Cleaning => Reads(h, c, Rank(h))
  BY DEF Cleaning, Reads, Rank
<1>2. h = <<"unlink_lineage">> /\ c.name = "demo" => Reads(h, c, Rank(h))
  BY DEF Reads, Rank
<1>3. h = <<"rows", c.scale>> \/ h = <<"rmtree_landing">> => Reads(h, c, Rank(h))
  BY DEF Reads, Rank
<1>4. h \in Forgetting("transactions") \/ h \in Forgetting("claims") => Reads(h, c, Rank(h))
  BY DEF Forgetting, Reads, Rank
<1>5. h \in Publishing => Reads(h, c, Rank(h))
  BY DEF Publishing, Reads, Rank
<1>6. h \in Owning("transactions") \/ h \in Owning("claims") => Reads(h, c, Rank(h))
  BY DEF Owning, Reads, Rank
<1>7. h \in Drifting /\ c.drift => Reads(h, c, Rank(h))
  BY DEF Drifting, Reads, Rank
<1>8. h \in Landing(c.scale) => Reads(h, c, Rank(h))
  BY DEF Landing, Reads, Rank
<1>9. h \in Running => Reads(h, c, Rank(h))
  BY DEF Running, Reads, Rank, Domains, DOMAINS
<1> QED BY <1>1, <1>2, <1>3, <1>4, <1>5, <1>6, <1>7, <1>8, <1>9

LEMMA AllowedReads ==
  ASSUME NEW c \in Commands, NEW h \in Allowed(c)
  PROVE  Reads(h, c, Rank(h))
<1>1. c.drift \in BOOLEAN
  BY DEF Commands
<1> QED BY <1>1, StatementsRead, Zenon DEF Allowed, Needed

\* What the statement of a place leaves of what it finds.
Leaves(d, e, c, k) ==
  /\ e \in Disk
  /\ e.rows = IF k = 2 THEN "none" ELSE IF k = 3 THEN "v7" ELSE IF k = 14 THEN "v8_unfilled"
              ELSE IF k = 15 THEN "v8" ELSE d.rows
  /\ e.size = IF k = 2 THEN 0 ELSE IF k = 3 THEN c.scale ELSE d.size
  /\ e.tables = IF k = 2 THEN {} ELSE IF k = 4 THEN {v \in d.tables : v[1] # "transactions"}
                ELSE IF k = 6 THEN {v \in d.tables : v[1] # "claims"}
                ELSE IF k = 8 THEN d.tables \cup {<<"transactions", 7>>}
                ELSE IF k = 9 THEN d.tables \cup {<<"claims", 3>>}
                ELSE IF k = 16 THEN d.tables \cup {<<"transactions", 8>>} ELSE d.tables
  /\ e.versions = IF k = 2 THEN {} ELSE IF k = 5 THEN {v \in d.versions : v[1] # "transactions"}
                  ELSE IF k = 7 THEN {v \in d.versions : v[1] # "claims"}
                  ELSE IF k = 8 THEN d.versions \cup {<<"transactions", 7>>}
                  ELSE IF k = 9 THEN d.versions \cup {<<"claims", 3>>}
                  ELSE IF k = 16 THEN d.versions \cup {<<"transactions", 8>>} ELSE d.versions
  /\ e.owners = IF k = 2 THEN {} ELSE IF k = 10 THEN d.owners \ {"transactions"}
                ELSE IF k = 11 THEN d.owners \cup {"transactions"}
                ELSE IF k = 12 THEN d.owners \ {"claims"}
                ELSE IF k = 13 THEN d.owners \cup {"claims"} ELSE d.owners
  /\ e.landing = IF k \in {1, 17} THEN [b \in Batches |-> 0]
                 ELSE IF k - 17 \in Batches THEN [d.landing EXCEPT ![k - 17] = c.scale]
                 ELSE d.landing
  /\ e.products = IF k = 1 THEN {} ELSE IF k - 21 \in 1 .. 3 THEN d.products \cup {DOMAINS[k - 21]}
                  ELSE d.products
  /\ e.lineage = IF k = 0 THEN <<>>
                 ELSE IF k - 21 \in 1 .. 3
                      THEN Append(d.lineage, [job |-> DOMAINS[k - 21], status |-> "COMPLETE"])
                      ELSE d.lineage
  /\ e.strangers = d.strangers

LEMMA Pairs ==
  /\ <<"transactions", 7>> \in Versions /\ <<"transactions", 8>> \in Versions
  /\ <<"claims", 3>> \in Versions
BY DEF Versions, Sources

LEMMA DiskFields ==
  ASSUME NEW d \in Disk
  PROVE  /\ d.rows \in {"none", "v7", "v8_unfilled", "v8"} /\ d.size \in Scales \cup {0}
         /\ d.tables \in SUBSET Versions /\ d.versions \in SUBSET Versions
         /\ d.owners \in SUBSET Sources /\ d.landing \in [Batches -> Scales \cup {0}]
         /\ d.products \in SUBSET Domains
         /\ d.lineage \in Seq([job : Domains, status : {"COMPLETE", "FAIL"}])
BY DEF Disk

LEMMA StatementLeaves ==
  ASSUME NEW d \in Disk, NEW c \in Commands, NEW h, NEW k, Reads(h, c, k)
  PROVE  Leaves(d, Effect(h, d), c, k)
<1>0. c.scale \in Scales
  BY DEF Commands
<1>1. CASE k = 0 /\ h[1] = "unlink_lineage"
  <2> DEFINE x1 == <<>>
  <2>1. Effect(h, d) = [d EXCEPT !.lineage = x1]
    BY <1>1 DEF Effect
  <2>2. x1 \in Seq([job : Domains, status : {"COMPLETE", "FAIL"}])
    OBVIOUS
  <2> HIDE DEF x1
  <2>3. Effect(h, d) \in Disk
    BY <2>1, <2>2 DEF Disk
  <2>4. /\ Effect(h, d).rows = d.rows /\ Effect(h, d).size = d.size /\ Effect(h, d).tables = d.tables
        /\ Effect(h, d).versions = d.versions /\ Effect(h, d).owners = d.owners /\ Effect(h, d).landing = d.landing
        /\ Effect(h, d).products = d.products /\ Effect(h, d).lineage = x1 /\ Effect(h, d).strangers = d.strangers
    BY <2>1 DEF Disk
  <2>5. k - 17 \notin Batches /\ k - 21 \notin 1 .. 3
    BY <1>1 DEF Batches
  <2> QED BY <1>1, <2>3, <2>4, <2>5, SMTT(20) DEF Leaves, x1
<1>2. CASE k = 1 /\ h[1] = "rmtree_warehouse"
  <2> DEFINE x1 == [b \in Batches |-> 0]
             x2 == {}
  <2>1. Effect(h, d) = [d EXCEPT !.landing = x1, !.products = x2]
    BY <1>2 DEF Effect
  <2>2. x1 \in [Batches -> Scales \cup {0}] /\ x2 \in SUBSET Domains
    BY <1>0, DiskFields
  <2> HIDE DEF x1, x2
  <2>3. Effect(h, d) \in Disk
    BY <2>1, <2>2 DEF Disk
  <2>4. /\ Effect(h, d).rows = d.rows /\ Effect(h, d).size = d.size /\ Effect(h, d).tables = d.tables
        /\ Effect(h, d).versions = d.versions /\ Effect(h, d).owners = d.owners /\ Effect(h, d).landing = x1
        /\ Effect(h, d).products = x2 /\ Effect(h, d).lineage = d.lineage /\ Effect(h, d).strangers = d.strangers
    BY <2>1 DEF Disk
  <2>5. k - 17 \notin Batches /\ k - 21 \notin 1 .. 3
    BY <1>2 DEF Batches
  <2> QED BY <1>2, <2>3, <2>4, <2>5, SMTT(20) DEF Leaves, x1, x2
<1>3. CASE k = 2 /\ h[1] = "unlink_catalog"
  <2> DEFINE x1 == "none"
             x2 == 0
             x3 == {}
             x4 == {}
             x5 == {}
  <2>1. Effect(h, d) = [d EXCEPT !.rows = x1, !.size = x2, !.tables = x3, !.versions = x4, !.owners = x5]
    BY <1>3 DEF Effect
  <2>2. x1 \in {"none", "v7", "v8_unfilled", "v8"} /\ x2 \in Scales \cup {0} /\ x3 \in SUBSET Versions /\ x4 \in SUBSET Versions /\ x5 \in SUBSET Sources
    BY <1>0, DiskFields
  <2> HIDE DEF x1, x2, x3, x4, x5
  <2>3. Effect(h, d) \in Disk
    BY <2>1, <2>2 DEF Disk
  <2>4. /\ Effect(h, d).rows = x1 /\ Effect(h, d).size = x2 /\ Effect(h, d).tables = x3
        /\ Effect(h, d).versions = x4 /\ Effect(h, d).owners = x5 /\ Effect(h, d).landing = d.landing
        /\ Effect(h, d).products = d.products /\ Effect(h, d).lineage = d.lineage /\ Effect(h, d).strangers = d.strangers
    BY <2>1 DEF Disk
  <2>5. k - 17 \notin Batches /\ k - 21 \notin 1 .. 3
    BY <1>3 DEF Batches
  <2> QED BY <1>3, <2>3, <2>4, <2>5, SMTT(20) DEF Leaves, x1, x2, x3, x4, x5
<1>4. CASE k = 3 /\ h[1] = "rows" /\ h[2] = c.scale
  <2> DEFINE x1 == "v7"
             x2 == c.scale
  <2>1. Effect(h, d) = [d EXCEPT !.rows = x1, !.size = x2]
    BY <1>4 DEF Effect
  <2>2. x1 \in {"none", "v7", "v8_unfilled", "v8"} /\ x2 \in Scales \cup {0}
    BY <1>0, DiskFields
  <2> HIDE DEF x1, x2
  <2>3. Effect(h, d) \in Disk
    BY <2>1, <2>2 DEF Disk
  <2>4. /\ Effect(h, d).rows = x1 /\ Effect(h, d).size = x2 /\ Effect(h, d).tables = d.tables
        /\ Effect(h, d).versions = d.versions /\ Effect(h, d).owners = d.owners /\ Effect(h, d).landing = d.landing
        /\ Effect(h, d).products = d.products /\ Effect(h, d).lineage = d.lineage /\ Effect(h, d).strangers = d.strangers
    BY <2>1 DEF Disk
  <2>5. k - 17 \notin Batches /\ k - 21 \notin 1 .. 3
    BY <1>4 DEF Batches
  <2> QED BY <1>4, <2>3, <2>4, <2>5, SMTT(20) DEF Leaves, x1, x2
<1>5. CASE k = 4 /\ h[1] = "forget_tables" /\ h[2] = "transactions"
  <2> DEFINE x1 == {v \in d.tables : v[1] # "transactions"}
  <2>1. Effect(h, d) = [d EXCEPT !.tables = x1]
    BY <1>5 DEF Effect
  <2>2. x1 \in SUBSET Versions
    BY <1>0, DiskFields
  <2> HIDE DEF x1
  <2>3. Effect(h, d) \in Disk
    BY <2>1, <2>2 DEF Disk
  <2>4. /\ Effect(h, d).rows = d.rows /\ Effect(h, d).size = d.size /\ Effect(h, d).tables = x1
        /\ Effect(h, d).versions = d.versions /\ Effect(h, d).owners = d.owners /\ Effect(h, d).landing = d.landing
        /\ Effect(h, d).products = d.products /\ Effect(h, d).lineage = d.lineage /\ Effect(h, d).strangers = d.strangers
    BY <2>1 DEF Disk
  <2>5. k - 17 \notin Batches /\ k - 21 \notin 1 .. 3
    BY <1>5 DEF Batches
  <2> QED BY <1>5, <2>3, <2>4, <2>5, SMTT(20) DEF Leaves, x1
<1>6. CASE k = 5 /\ h[1] = "forget_versions" /\ h[2] = "transactions"
  <2> DEFINE x1 == {v \in d.versions : v[1] # "transactions"}
  <2>1. Effect(h, d) = [d EXCEPT !.versions = x1]
    BY <1>6 DEF Effect
  <2>2. x1 \in SUBSET Versions
    BY <1>0, DiskFields
  <2> HIDE DEF x1
  <2>3. Effect(h, d) \in Disk
    BY <2>1, <2>2 DEF Disk
  <2>4. /\ Effect(h, d).rows = d.rows /\ Effect(h, d).size = d.size /\ Effect(h, d).tables = d.tables
        /\ Effect(h, d).versions = x1 /\ Effect(h, d).owners = d.owners /\ Effect(h, d).landing = d.landing
        /\ Effect(h, d).products = d.products /\ Effect(h, d).lineage = d.lineage /\ Effect(h, d).strangers = d.strangers
    BY <2>1 DEF Disk
  <2>5. k - 17 \notin Batches /\ k - 21 \notin 1 .. 3
    BY <1>6 DEF Batches
  <2> QED BY <1>6, <2>3, <2>4, <2>5, SMTT(20) DEF Leaves, x1
<1>7. CASE k = 6 /\ h[1] = "forget_tables" /\ h[2] = "claims"
  <2> DEFINE x1 == {v \in d.tables : v[1] # "claims"}
  <2>1. Effect(h, d) = [d EXCEPT !.tables = x1]
    BY <1>7 DEF Effect
  <2>2. x1 \in SUBSET Versions
    BY <1>0, DiskFields
  <2> HIDE DEF x1
  <2>3. Effect(h, d) \in Disk
    BY <2>1, <2>2 DEF Disk
  <2>4. /\ Effect(h, d).rows = d.rows /\ Effect(h, d).size = d.size /\ Effect(h, d).tables = x1
        /\ Effect(h, d).versions = d.versions /\ Effect(h, d).owners = d.owners /\ Effect(h, d).landing = d.landing
        /\ Effect(h, d).products = d.products /\ Effect(h, d).lineage = d.lineage /\ Effect(h, d).strangers = d.strangers
    BY <2>1 DEF Disk
  <2>5. k - 17 \notin Batches /\ k - 21 \notin 1 .. 3
    BY <1>7 DEF Batches
  <2> QED BY <1>7, <2>3, <2>4, <2>5, SMTT(20) DEF Leaves, x1
<1>8. CASE k = 7 /\ h[1] = "forget_versions" /\ h[2] = "claims"
  <2> DEFINE x1 == {v \in d.versions : v[1] # "claims"}
  <2>1. Effect(h, d) = [d EXCEPT !.versions = x1]
    BY <1>8 DEF Effect
  <2>2. x1 \in SUBSET Versions
    BY <1>0, DiskFields
  <2> HIDE DEF x1
  <2>3. Effect(h, d) \in Disk
    BY <2>1, <2>2 DEF Disk
  <2>4. /\ Effect(h, d).rows = d.rows /\ Effect(h, d).size = d.size /\ Effect(h, d).tables = d.tables
        /\ Effect(h, d).versions = x1 /\ Effect(h, d).owners = d.owners /\ Effect(h, d).landing = d.landing
        /\ Effect(h, d).products = d.products /\ Effect(h, d).lineage = d.lineage /\ Effect(h, d).strangers = d.strangers
    BY <2>1 DEF Disk
  <2>5. k - 17 \notin Batches /\ k - 21 \notin 1 .. 3
    BY <1>8 DEF Batches
  <2> QED BY <1>8, <2>3, <2>4, <2>5, SMTT(20) DEF Leaves, x1
<1>9. CASE k = 8 /\ h[1] = "publish" /\ h[2] = "transactions" /\ h[3] = 7
  <2> DEFINE x1 == d.tables \cup {<<"transactions", 7>>}
             x2 == d.versions \cup {<<"transactions", 7>>}
  <2>1. Effect(h, d) = [d EXCEPT !.tables = x1, !.versions = x2]
    BY <1>9 DEF Effect
  <2>2. x1 \in SUBSET Versions /\ x2 \in SUBSET Versions
    BY DiskFields, Pairs
  <2> HIDE DEF x1, x2
  <2>3. Effect(h, d) \in Disk
    BY <2>1, <2>2 DEF Disk
  <2>4. /\ Effect(h, d).rows = d.rows /\ Effect(h, d).size = d.size /\ Effect(h, d).tables = x1
        /\ Effect(h, d).versions = x2 /\ Effect(h, d).owners = d.owners /\ Effect(h, d).landing = d.landing
        /\ Effect(h, d).products = d.products /\ Effect(h, d).lineage = d.lineage /\ Effect(h, d).strangers = d.strangers
    BY <2>1 DEF Disk
  <2>5. k - 17 \notin Batches /\ k - 21 \notin 1 .. 3
    BY <1>9 DEF Batches
  <2> QED BY <1>9, <2>3, <2>4, <2>5, SMTT(20) DEF Leaves, x1, x2
<1>10. CASE k = 9 /\ h[1] = "publish" /\ h[2] = "claims" /\ h[3] = 3
  <2> DEFINE x1 == d.tables \cup {<<"claims", 3>>}
             x2 == d.versions \cup {<<"claims", 3>>}
  <2>1. Effect(h, d) = [d EXCEPT !.tables = x1, !.versions = x2]
    BY <1>10 DEF Effect
  <2>2. x1 \in SUBSET Versions /\ x2 \in SUBSET Versions
    BY DiskFields, Pairs
  <2> HIDE DEF x1, x2
  <2>3. Effect(h, d) \in Disk
    BY <2>1, <2>2 DEF Disk
  <2>4. /\ Effect(h, d).rows = d.rows /\ Effect(h, d).size = d.size /\ Effect(h, d).tables = x1
        /\ Effect(h, d).versions = x2 /\ Effect(h, d).owners = d.owners /\ Effect(h, d).landing = d.landing
        /\ Effect(h, d).products = d.products /\ Effect(h, d).lineage = d.lineage /\ Effect(h, d).strangers = d.strangers
    BY <2>1 DEF Disk
  <2>5. k - 17 \notin Batches /\ k - 21 \notin 1 .. 3
    BY <1>10 DEF Batches
  <2> QED BY <1>10, <2>3, <2>4, <2>5, SMTT(20) DEF Leaves, x1, x2
<1>11. CASE k = 10 /\ h[1] = "disown" /\ h[2] = "transactions"
  <2> DEFINE x1 == d.owners \ {"transactions"}
  <2>1. Effect(h, d) = [d EXCEPT !.owners = x1]
    BY <1>11 DEF Effect
  <2>2. x1 \in SUBSET Sources
    BY DiskFields DEF Sources
  <2> HIDE DEF x1
  <2>3. Effect(h, d) \in Disk
    BY <2>1, <2>2 DEF Disk
  <2>4. /\ Effect(h, d).rows = d.rows /\ Effect(h, d).size = d.size /\ Effect(h, d).tables = d.tables
        /\ Effect(h, d).versions = d.versions /\ Effect(h, d).owners = x1 /\ Effect(h, d).landing = d.landing
        /\ Effect(h, d).products = d.products /\ Effect(h, d).lineage = d.lineage /\ Effect(h, d).strangers = d.strangers
    BY <2>1 DEF Disk
  <2>5. k - 17 \notin Batches /\ k - 21 \notin 1 .. 3
    BY <1>11 DEF Batches
  <2> QED BY <1>11, <2>3, <2>4, <2>5, SMTT(20) DEF Leaves, x1
<1>12. CASE k = 11 /\ h[1] = "own" /\ h[2] = "transactions"
  <2> DEFINE x1 == d.owners \cup {"transactions"}
  <2>1. Effect(h, d) = [d EXCEPT !.owners = x1]
    BY <1>12 DEF Effect
  <2>2. x1 \in SUBSET Sources
    BY DiskFields DEF Sources
  <2> HIDE DEF x1
  <2>3. Effect(h, d) \in Disk
    BY <2>1, <2>2 DEF Disk
  <2>4. /\ Effect(h, d).rows = d.rows /\ Effect(h, d).size = d.size /\ Effect(h, d).tables = d.tables
        /\ Effect(h, d).versions = d.versions /\ Effect(h, d).owners = x1 /\ Effect(h, d).landing = d.landing
        /\ Effect(h, d).products = d.products /\ Effect(h, d).lineage = d.lineage /\ Effect(h, d).strangers = d.strangers
    BY <2>1 DEF Disk
  <2>5. k - 17 \notin Batches /\ k - 21 \notin 1 .. 3
    BY <1>12 DEF Batches
  <2> QED BY <1>12, <2>3, <2>4, <2>5, SMTT(20) DEF Leaves, x1
<1>13. CASE k = 12 /\ h[1] = "disown" /\ h[2] = "claims"
  <2> DEFINE x1 == d.owners \ {"claims"}
  <2>1. Effect(h, d) = [d EXCEPT !.owners = x1]
    BY <1>13 DEF Effect
  <2>2. x1 \in SUBSET Sources
    BY DiskFields DEF Sources
  <2> HIDE DEF x1
  <2>3. Effect(h, d) \in Disk
    BY <2>1, <2>2 DEF Disk
  <2>4. /\ Effect(h, d).rows = d.rows /\ Effect(h, d).size = d.size /\ Effect(h, d).tables = d.tables
        /\ Effect(h, d).versions = d.versions /\ Effect(h, d).owners = x1 /\ Effect(h, d).landing = d.landing
        /\ Effect(h, d).products = d.products /\ Effect(h, d).lineage = d.lineage /\ Effect(h, d).strangers = d.strangers
    BY <2>1 DEF Disk
  <2>5. k - 17 \notin Batches /\ k - 21 \notin 1 .. 3
    BY <1>13 DEF Batches
  <2> QED BY <1>13, <2>3, <2>4, <2>5, SMTT(20) DEF Leaves, x1
<1>14. CASE k = 13 /\ h[1] = "own" /\ h[2] = "claims"
  <2> DEFINE x1 == d.owners \cup {"claims"}
  <2>1. Effect(h, d) = [d EXCEPT !.owners = x1]
    BY <1>14 DEF Effect
  <2>2. x1 \in SUBSET Sources
    BY DiskFields DEF Sources
  <2> HIDE DEF x1
  <2>3. Effect(h, d) \in Disk
    BY <2>1, <2>2 DEF Disk
  <2>4. /\ Effect(h, d).rows = d.rows /\ Effect(h, d).size = d.size /\ Effect(h, d).tables = d.tables
        /\ Effect(h, d).versions = d.versions /\ Effect(h, d).owners = x1 /\ Effect(h, d).landing = d.landing
        /\ Effect(h, d).products = d.products /\ Effect(h, d).lineage = d.lineage /\ Effect(h, d).strangers = d.strangers
    BY <2>1 DEF Disk
  <2>5. k - 17 \notin Batches /\ k - 21 \notin 1 .. 3
    BY <1>14 DEF Batches
  <2> QED BY <1>14, <2>3, <2>4, <2>5, SMTT(20) DEF Leaves, x1
<1>15. CASE k = 14 /\ h[1] = "add_column"
  <2> DEFINE x1 == "v8_unfilled"
  <2>1. Effect(h, d) = [d EXCEPT !.rows = x1]
    BY <1>15 DEF Effect
  <2>2. x1 \in {"none", "v7", "v8_unfilled", "v8"}
    BY <1>0, DiskFields
  <2> HIDE DEF x1
  <2>3. Effect(h, d) \in Disk
    BY <2>1, <2>2 DEF Disk
  <2>4. /\ Effect(h, d).rows = x1 /\ Effect(h, d).size = d.size /\ Effect(h, d).tables = d.tables
        /\ Effect(h, d).versions = d.versions /\ Effect(h, d).owners = d.owners /\ Effect(h, d).landing = d.landing
        /\ Effect(h, d).products = d.products /\ Effect(h, d).lineage = d.lineage /\ Effect(h, d).strangers = d.strangers
    BY <2>1 DEF Disk
  <2>5. k - 17 \notin Batches /\ k - 21 \notin 1 .. 3
    BY <1>15 DEF Batches
  <2> QED BY <1>15, <2>3, <2>4, <2>5, SMTT(20) DEF Leaves, x1
<1>16. CASE k = 15 /\ h[1] = "fill_column"
  <2> DEFINE x1 == "v8"
  <2>1. Effect(h, d) = [d EXCEPT !.rows = x1]
    BY <1>16 DEF Effect
  <2>2. x1 \in {"none", "v7", "v8_unfilled", "v8"}
    BY <1>0, DiskFields
  <2> HIDE DEF x1
  <2>3. Effect(h, d) \in Disk
    BY <2>1, <2>2 DEF Disk
  <2>4. /\ Effect(h, d).rows = x1 /\ Effect(h, d).size = d.size /\ Effect(h, d).tables = d.tables
        /\ Effect(h, d).versions = d.versions /\ Effect(h, d).owners = d.owners /\ Effect(h, d).landing = d.landing
        /\ Effect(h, d).products = d.products /\ Effect(h, d).lineage = d.lineage /\ Effect(h, d).strangers = d.strangers
    BY <2>1 DEF Disk
  <2>5. k - 17 \notin Batches /\ k - 21 \notin 1 .. 3
    BY <1>16 DEF Batches
  <2> QED BY <1>16, <2>3, <2>4, <2>5, SMTT(20) DEF Leaves, x1
<1>17. CASE k = 16 /\ h[1] = "publish" /\ h[2] = "transactions" /\ h[3] = 8
  <2> DEFINE x1 == d.tables \cup {<<"transactions", 8>>}
             x2 == d.versions \cup {<<"transactions", 8>>}
  <2>1. Effect(h, d) = [d EXCEPT !.tables = x1, !.versions = x2]
    BY <1>17 DEF Effect
  <2>2. x1 \in SUBSET Versions /\ x2 \in SUBSET Versions
    BY DiskFields, Pairs
  <2> HIDE DEF x1, x2
  <2>3. Effect(h, d) \in Disk
    BY <2>1, <2>2 DEF Disk
  <2>4. /\ Effect(h, d).rows = d.rows /\ Effect(h, d).size = d.size /\ Effect(h, d).tables = x1
        /\ Effect(h, d).versions = x2 /\ Effect(h, d).owners = d.owners /\ Effect(h, d).landing = d.landing
        /\ Effect(h, d).products = d.products /\ Effect(h, d).lineage = d.lineage /\ Effect(h, d).strangers = d.strangers
    BY <2>1 DEF Disk
  <2>5. k - 17 \notin Batches /\ k - 21 \notin 1 .. 3
    BY <1>17 DEF Batches
  <2> QED BY <1>17, <2>3, <2>4, <2>5, SMTT(20) DEF Leaves, x1, x2
<1>18. CASE k = 17 /\ h[1] = "rmtree_landing"
  <2> DEFINE x1 == [b \in Batches |-> 0]
  <2>1. Effect(h, d) = [d EXCEPT !.landing = x1]
    BY <1>18 DEF Effect
  <2>2. x1 \in [Batches -> Scales \cup {0}]
    BY <1>0, DiskFields
  <2> HIDE DEF x1
  <2>3. Effect(h, d) \in Disk
    BY <2>1, <2>2 DEF Disk
  <2>4. /\ Effect(h, d).rows = d.rows /\ Effect(h, d).size = d.size /\ Effect(h, d).tables = d.tables
        /\ Effect(h, d).versions = d.versions /\ Effect(h, d).owners = d.owners /\ Effect(h, d).landing = x1
        /\ Effect(h, d).products = d.products /\ Effect(h, d).lineage = d.lineage /\ Effect(h, d).strangers = d.strangers
    BY <2>1 DEF Disk
  <2>5. k - 17 \notin Batches /\ k - 21 \notin 1 .. 3
    BY <1>18 DEF Batches
  <2> QED BY <1>18, <2>3, <2>4, <2>5, SMTT(20) DEF Leaves, x1
<1>19. ASSUME NEW b \in Batches, k = 17 + b, h[1] = "batch", h[2] = b, h[3] = c.scale
       PROVE  Leaves(d, Effect(h, d), c, k)
  <2> DEFINE x1 == [d.landing EXCEPT ![b] = c.scale]
  <2>1. Effect(h, d) = [d EXCEPT !.landing = x1]
    BY <1>19 DEF Effect
  <2>2. x1 \in [Batches -> Scales \cup {0}]
    BY <1>0, DiskFields
  <2>5. k - 17 = b /\ k \in 18 .. 21
    BY <1>19 DEF Batches
  <2>6. x1 = [d.landing EXCEPT ![k - 17] = c.scale]
    BY <2>5
  <2> HIDE DEF x1
  <2>3. Effect(h, d) \in Disk
    BY <2>1, <2>2 DEF Disk
  <2>4. /\ Effect(h, d).rows = d.rows /\ Effect(h, d).size = d.size /\ Effect(h, d).tables = d.tables
        /\ Effect(h, d).versions = d.versions /\ Effect(h, d).owners = d.owners /\ Effect(h, d).landing = x1
        /\ Effect(h, d).products = d.products /\ Effect(h, d).lineage = d.lineage /\ Effect(h, d).strangers = d.strangers
    BY <2>1 DEF Disk
  <2> QED BY <2>3, <2>4, <2>5, <2>6 DEF Leaves
<1>20. ASSUME NEW i \in 1 .. 3, k = 21 + i, h[1] = "run", h[2] = DOMAINS[i]
       PROVE  Leaves(d, Effect(h, d), c, k)
  <2> DEFINE r == [job |-> DOMAINS[i], status |-> "COMPLETE"]
             x1 == d.products \cup {DOMAINS[i]}
             x2 == Append(d.lineage, r)
  <2>1. Effect(h, d) = [d EXCEPT !.products = x1, !.lineage = x2]
    BY <1>20, DiskFields DEF Effect, Logged, Disk
  <2>2. x1 \in SUBSET Domains /\ x2 \in Seq([job : Domains, status : {"COMPLETE", "FAIL"}])
    <3>1. DOMAINS[i] \in Domains
      BY DEF DOMAINS, Domains
    <3>2. r \in [job : Domains, status : {"COMPLETE", "FAIL"}]
      BY <3>1
    <3> HIDE DEF r
    <3>3. d.lineage \in Seq([job : Domains, status : {"COMPLETE", "FAIL"}])
      BY DiskFields
    <3>4. x2 \in Seq([job : Domains, status : {"COMPLETE", "FAIL"}])
      BY <3>2, <3>3
    <3> QED BY <3>1, <3>4, DiskFields
  <2>5. k - 21 = i /\ k \in 22 .. 24
    BY <1>20
  <2>6. x1 = d.products \cup {DOMAINS[k - 21]}
        /\ x2 = Append(d.lineage, [job |-> DOMAINS[k - 21], status |-> "COMPLETE"])
    BY <2>5
  <2> HIDE DEF x1, x2
  <2>3. Effect(h, d) \in Disk
    BY <2>1, <2>2 DEF Disk
  <2>4. /\ Effect(h, d).rows = d.rows /\ Effect(h, d).size = d.size /\ Effect(h, d).tables = d.tables
        /\ Effect(h, d).versions = d.versions /\ Effect(h, d).owners = d.owners /\ Effect(h, d).landing = d.landing
        /\ Effect(h, d).products = x1 /\ Effect(h, d).lineage = x2 /\ Effect(h, d).strangers = d.strangers
    BY <2>1 DEF Disk
  <2> QED BY <2>3, <2>4, <2>5, <2>6 DEF Leaves, Batches
<1> QED
  BY <1>1, <1>2, <1>3, <1>4, <1>5, <1>6, <1>7, <1>8, <1>9, <1>10, <1>11, <1>12, <1>13, <1>14,
     <1>15, <1>16, <1>17, <1>18, <1>19, <1>20 DEF Reads

-----------------------------------------------------------------------------
(***************************************************************************)
(* What a seed or a demo has done by place k.  Whatever was there before,  *)
(* a statement that is past has put its part in order, and none that comes *)
(* between it and k has disturbed it.                                      *)
(***************************************************************************)

RowsBy(d, c, k) ==
  k > 3 =>
    /\ d.size = c.scale
    /\ ~c.drift => d.rows = "v7"
    /\ c.drift /\ k > 15 => d.rows = "v8"

\* The versions of a source are those that have been published again.
TransactionsBy(S, c, k) ==
  \A n \in {3, 7, 8} :
    <<"transactions", n>> \in S <=> (n = 7 /\ k > 8) \/ (n = 8 /\ c.drift /\ k > 16)

ClaimsBy(S, k) == \A n \in {3, 7, 8} : <<"claims", n>> \in S <=> n = 3 /\ k > 9

CatalogBy(d, c, k) ==
  /\ k > 4 => TransactionsBy(d.tables, c, k)
  /\ k > 5 => TransactionsBy(d.versions, c, k)
  /\ k > 6 => ClaimsBy(d.tables, k)
  /\ k > 7 => ClaimsBy(d.versions, k)

OwnersBy(d, k) == (k > 11 => "transactions" \in d.owners) /\ (k > 13 => "claims" \in d.owners)

LandingBy(d, c, k) == \A b \in Batches : k > 17 + b => d.landing[b] = c.scale

Completed(domain) == [job |-> domain, status |-> "COMPLETE"]

RunsBy(d, c, k) ==
  c.name = "demo" /\ k > 0 =>
    \E m \in 0 .. 3 :
      /\ Len(d.lineage) = m
      /\ \A i \in 1 .. m : d.lineage[i] = Completed(DOMAINS[i])
      /\ \A i \in 1 .. 3 : k > 21 + i <=> i <= m
      /\ \A i \in 1 .. m : DOMAINS[i] \in d.products

DoneBy(d, c, k) ==
  RowsBy(d, c, k) /\ CatalogBy(d, c, k) /\ OwnersBy(d, k) /\ LandingBy(d, c, k) /\ RunsBy(d, c, k)

LEMMA Places ==
  ASSUME NEW c \in Commands, NEW h, NEW k, Reads(h, c, k)
  PROVE  k \in 0 .. 24 /\ (k \in 14 .. 16 => c.drift)
BY DEF Reads, Batches

LEMMA StatementDoes ==
  ASSUME NEW d \in Disk, NEW c \in Commands, NEW h, NEW k, Reads(h, c, k), DoneBy(d, c, k)
  PROVE  DoneBy(Effect(h, d), c, k + 1)
<1> DEFINE e == Effect(h, d)
<1>1. Leaves(d, e, c, k) /\ k \in 0 .. 24 /\ (k \in 14 .. 16 => c.drift)
  BY StatementLeaves, Places
<1> HIDE DEF e
<1>2. RowsBy(e, c, k + 1)
  BY <1>1 DEF DoneBy, RowsBy, Leaves
<1>3. CatalogBy(e, c, k + 1)
  <2>0. /\ e.tables = IF k = 2 THEN {} ELSE IF k = 4 THEN {v \in d.tables : v[1] # "transactions"}
                  ELSE IF k = 6 THEN {v \in d.tables : v[1] # "claims"}
                  ELSE IF k = 8 THEN d.tables \cup {<<"transactions", 7>>}
                  ELSE IF k = 9 THEN d.tables \cup {<<"claims", 3>>}
                  ELSE IF k = 16 THEN d.tables \cup {<<"transactions", 8>>} ELSE d.tables
        /\ e.versions = IF k = 2 THEN {} ELSE IF k = 5 THEN {v \in d.versions : v[1] # "transactions"}
                  ELSE IF k = 7 THEN {v \in d.versions : v[1] # "claims"}
                  ELSE IF k = 8 THEN d.versions \cup {<<"transactions", 7>>}
                  ELSE IF k = 9 THEN d.versions \cup {<<"claims", 3>>}
                  ELSE IF k = 16 THEN d.versions \cup {<<"transactions", 8>>} ELSE d.versions
    BY <1>1 DEF Leaves
  <2>1. k > 3 => TransactionsBy(e.tables, c, k + 1)
    BY <1>1, <2>0 DEF DoneBy, CatalogBy, TransactionsBy
  <2>2. k > 4 => TransactionsBy(e.versions, c, k + 1)
    BY <1>1, <2>0 DEF DoneBy, CatalogBy, TransactionsBy
  <2>3. k > 5 => ClaimsBy(e.tables, k + 1)
    BY <1>1, <2>0 DEF DoneBy, CatalogBy, ClaimsBy
  <2>4. k > 6 => ClaimsBy(e.versions, k + 1)
    BY <1>1, <2>0 DEF DoneBy, CatalogBy, ClaimsBy
  <2> QED BY <1>1, <2>1, <2>2, <2>3, <2>4 DEF CatalogBy
<1>4. OwnersBy(e, k + 1)
  <2>1. e.owners = IF k = 2 THEN {} ELSE IF k = 10 THEN d.owners \ {"transactions"}
                   ELSE IF k = 11 THEN d.owners \cup {"transactions"}
                   ELSE IF k = 12 THEN d.owners \ {"claims"}
                   ELSE IF k = 13 THEN d.owners \cup {"claims"} ELSE d.owners
    BY <1>1 DEF Leaves
  <2> QED BY <1>1, <2>1 DEF DoneBy, OwnersBy
<1>5. LandingBy(e, c, k + 1)
  BY <1>1, DiskFields DEF DoneBy, LandingBy, Leaves, Batches
<1>6. RunsBy(e, c, k + 1)
  <2> SUFFICES ASSUME c.name = "demo" PROVE RunsBy(e, c, k + 1)
    BY DEF RunsBy
  <2>1. CASE k = 0
    <3>1. e.lineage = <<>>
      BY <1>1, <2>1 DEF Leaves
    <3>2. Len(e.lineage) = 0
      BY <3>1
    <3> QED BY <2>1, <3>2 DEF RunsBy
  <2>2. CASE k # 0
    <3>1. PICK m \in 0 .. 3 :
            /\ Len(d.lineage) = m
            /\ \A i \in 1 .. m : d.lineage[i] = Completed(DOMAINS[i])
            /\ \A i \in 1 .. 3 : k > 21 + i <=> i <= m
            /\ \A i \in 1 .. m : DOMAINS[i] \in d.products
      BY <1>1, <2>2 DEF DoneBy, RunsBy
    <3>2. CASE k - 21 \in 1 .. 3
      <4>1. m = k - 22
        BY <1>1, <3>1, <3>2
      <4>2. e.lineage = Append(d.lineage, Completed(DOMAINS[m + 1]))
            /\ e.products = d.products \cup {DOMAINS[m + 1]}
        BY <1>1, <3>2, <4>1 DEF Leaves, Completed
      <4>3. /\ Len(e.lineage) = m + 1 /\ e.lineage[m + 1] = Completed(DOMAINS[m + 1])
            /\ \A i \in 1 .. m : e.lineage[i] = d.lineage[i]
        BY <3>1, <4>2, DiskFields
      <4>4. m + 1 \in 0 .. 3 /\ \A i \in 1 .. 3 : k + 1 > 21 + i <=> i <= m + 1
        BY <1>1, <3>2, <4>1
      <4> QED BY <3>1, <4>2, <4>3, <4>4 DEF RunsBy
    <3>3. CASE k - 21 \notin 1 .. 3
      <4>1. e.lineage = d.lineage /\ (k # 1 => e.products = d.products)
        BY <1>1, <2>2, <3>3 DEF Leaves
      <4>2. k = 1 => m = 0
        BY <3>1
      <4>3. \A i \in 1 .. 3 : k + 1 > 21 + i <=> i <= m
        BY <1>1, <3>1, <3>3
      <4>4. \A i \in 1 .. m : DOMAINS[i] \in e.products
        BY <3>1, <4>1, <4>2
      <4>5. Len(e.lineage) = m /\ \A i \in 1 .. m : e.lineage[i] = Completed(DOMAINS[i])
        BY <3>1, <4>1
      <4> QED BY <3>1, <4>3, <4>4, <4>5 DEF RunsBy
    <3> QED BY <3>2, <3>3
  <2> QED BY <2>1, <2>2
<1> QED BY <1>2, <1>3, <1>4, <1>5, <1>6 DEF DoneBy, e

\* No version loses its attribution before it is out of the registry.
LEMMA StatementAttributes ==
  ASSUME NEW d \in Disk, NEW c \in Commands, NEW h, NEW k, Reads(h, c, k),
         h[1] # "run" => DoneBy(d, c, k), d.tables \subseteq d.versions
  PROVE  Effect(h, d).tables \subseteq Effect(h, d).versions
<1> DEFINE e == Effect(h, d)
<1>1. Leaves(d, e, c, k) /\ k \in 0 .. 24 /\ d.tables \subseteq Versions
  BY StatementLeaves, Places, DiskFields
<1>2. k \in {5, 7} => h[1] # "run"
  BY DEF Reads
<1> HIDE DEF e
<1>3. e.tables = IF k = 2 THEN {} ELSE IF k = 4 THEN {v \in d.tables : v[1] # "transactions"}
                 ELSE IF k = 6 THEN {v \in d.tables : v[1] # "claims"}
                 ELSE IF k = 8 THEN d.tables \cup {<<"transactions", 7>>}
                 ELSE IF k = 9 THEN d.tables \cup {<<"claims", 3>>}
                 ELSE IF k = 16 THEN d.tables \cup {<<"transactions", 8>>} ELSE d.tables
  BY <1>1 DEF Leaves
<1>4. e.versions = IF k = 2 THEN {} ELSE IF k = 5 THEN {v \in d.versions : v[1] # "transactions"}
                   ELSE IF k = 7 THEN {v \in d.versions : v[1] # "claims"}
                   ELSE IF k = 8 THEN d.versions \cup {<<"transactions", 7>>}
                   ELSE IF k = 9 THEN d.versions \cup {<<"claims", 3>>}
                   ELSE IF k = 16 THEN d.versions \cup {<<"transactions", 8>>} ELSE d.versions
  BY <1>1 DEF Leaves
<1>5. CASE k = 5
  <2>1. TransactionsBy(d.tables, c, 5)
    BY <1>2, <1>5 DEF DoneBy, CatalogBy
  <2>2. \A v \in d.tables : v[1] # "transactions"
    <3> SUFFICES ASSUME NEW v \in d.tables, v[1] = "transactions" PROVE FALSE
      OBVIOUS
    <3>1. PICK n \in {3, 7, 8} : v = <<"transactions", n>>
      BY <1>1 DEF Versions
    <3> QED BY <2>1, <3>1 DEF TransactionsBy
  <2> QED BY <1>3, <1>4, <1>5, <2>2 DEF e
<1>6. CASE k = 7
  <2>1. ClaimsBy(d.tables, 7)
    BY <1>2, <1>6 DEF DoneBy, CatalogBy
  <2>2. \A v \in d.tables : v[1] # "claims"
    <3> SUFFICES ASSUME NEW v \in d.tables, v[1] = "claims" PROVE FALSE
      OBVIOUS
    <3>1. PICK n \in {3, 7, 8} : v = <<"claims", n>>
      BY <1>1 DEF Versions
    <3> QED BY <2>1, <3>1 DEF ClaimsBy
  <2> QED BY <1>3, <1>4, <1>6, <2>2 DEF e
<1>7. CASE k \notin {5, 7}
  BY <1>1, <1>3, <1>4, <1>7 DEF e
<1> QED BY <1>5, <1>6, <1>7

\* The places no seed and no demo does without.
IsNeeded(c, r) ==
  \/ r \in 3 .. 13 \/ r \in 17 .. 21
  \/ r \in 14 .. 16 /\ c.drift
  \/ r \in {0} \cup 22 .. 24 /\ c.name = "demo"

LEMMA NeededPlaces ==
  ASSUME NEW c \in Commands, Builds(c), NEW r, IsNeeded(c, r)
  PROVE  \E s \in Needed(c) : Rank(s) = r
<1> DEFINE It == \E s \in Needed(c) : Rank(s) = r
<1>1. /\ <<"rows", c.scale>> \in Needed(c) /\ <<"rmtree_landing">> \in Needed(c)
      /\ Forgetting("transactions") \subseteq Needed(c) /\ Forgetting("claims") \subseteq Needed(c)
      /\ Publishing \subseteq Needed(c)
      /\ Owning("transactions") \subseteq Needed(c) /\ Owning("claims") \subseteq Needed(c)
      /\ Landing(c.scale) \subseteq Needed(c)
      /\ c.drift => Drifting \subseteq Needed(c)
      /\ c.name = "demo" => <<"unlink_lineage">> \in Needed(c) /\ Running \subseteq Needed(c)
  BY Zenon DEF Needed
<1>2. CASE r \in {3, 17}
  BY <1>1, <1>2, Ranks
<1>3. CASE r \in 4 .. 7
  <2>1. /\ <<"forget_tables", "transactions">> \in Needed(c)
        /\ <<"forget_versions", "transactions">> \in Needed(c)
        /\ <<"forget_tables", "claims">> \in Needed(c)
        /\ <<"forget_versions", "claims">> \in Needed(c)
    BY <1>1 DEF Forgetting
  <2> QED BY <1>3, <2>1, Ranks DEF Sources
<1>4. CASE r \in 8 .. 9
  <2>1. <<"publish", "transactions", 7>> \in Needed(c) /\ <<"publish", "claims", 3>> \in Needed(c)
    BY <1>1 DEF Publishing
  <2> QED BY <1>4, <2>1, Ranks
<1>5. CASE r \in 10 .. 13
  <2>1. /\ <<"disown", "transactions">> \in Needed(c) /\ <<"own", "transactions">> \in Needed(c)
        /\ <<"disown", "claims">> \in Needed(c) /\ <<"own", "claims">> \in Needed(c)
    BY <1>1 DEF Owning
  <2> QED BY <1>5, <2>1, Ranks DEF Sources
<1>6. CASE r \in 14 .. 16 /\ c.drift
  <2>1. /\ <<"add_column">> \in Needed(c) /\ <<"fill_column">> \in Needed(c)
        /\ <<"publish", "transactions", 8>> \in Needed(c)
    BY <1>1, <1>6 DEF Drifting
  <2> QED BY <1>6, <2>1, Ranks
<1>7. CASE r \in 18 .. 21
  <2>1. r - 17 \in Batches /\ 17 + (r - 17) = r
    BY <1>7 DEF Batches
  <2>2. <<"batch", r - 17, c.scale>> \in Needed(c)
    BY <1>1, <2>1 DEF Landing
  <2> QED BY <2>1, <2>2, Ranks
<1>8. CASE r \in {0} \cup 22 .. 24 /\ c.name = "demo"
  <2>1. /\ <<"unlink_lineage">> \in Needed(c) /\ <<"run", "fraud">> \in Needed(c)
        /\ <<"run", "policy">> \in Needed(c) /\ <<"run", "finance">> \in Needed(c)
    BY <1>1, <1>8 DEF Running, Domains
  <2> QED BY <1>8, <2>1, Ranks
<1>9. \/ r \in {3, 17} \/ r \in 4 .. 7 \/ r \in 8 .. 9 \/ r \in 10 .. 13
      \/ r \in 14 .. 16 /\ c.drift
      \/ r \in 18 .. 21
      \/ r \in {0} \cup 22 .. 24 /\ c.name = "demo"
  BY DEF IsNeeded
<1> QED BY <1>2, <1>3, <1>4, <1>5, <1>6, <1>7, <1>8, <1>9

\* Nothing is done between two places of which a command has none in between.
LEMMA DoneMeanwhile ==
  ASSUME NEW c \in Commands, NEW d, NEW k \in 0 .. 25, NEW l \in 0 .. 25, DoneBy(d, c, k),
         \A r \in 0 .. 24 : IsNeeded(c, r) => (r < k <=> r < l)
  PROVE  DoneBy(d, c, l)
<1>1. /\ \A r \in 3 .. 13 : r < k <=> r < l
      /\ \A r \in 17 .. 21 : r < k <=> r < l
      /\ c.drift => \A r \in 14 .. 16 : r < k <=> r < l
      /\ c.name = "demo" => (0 < k <=> 0 < l) /\ \A r \in 22 .. 24 : r < k <=> r < l
  BY DEF IsNeeded
<1>2. RowsBy(d, c, l)
  BY <1>1 DEF DoneBy, RowsBy
<1>3. CatalogBy(d, c, l)
  BY <1>1 DEF DoneBy, CatalogBy, TransactionsBy, ClaimsBy
<1>4. OwnersBy(d, l)
  BY <1>1 DEF DoneBy, OwnersBy
<1>5. LandingBy(d, c, l)
  BY <1>1 DEF DoneBy, LandingBy, Batches
<1>6. RunsBy(d, c, l)
  BY <1>1 DEF DoneBy, RunsBy
<1> QED BY <1>2, <1>3, <1>4, <1>5, <1>6 DEF DoneBy

LEMMA NothingDone ==
  ASSUME NEW c \in Commands, NEW d, NEW k \in 0 .. 25,
         \A r \in 0 .. 24 : IsNeeded(c, r) => r >= k
  PROVE  DoneBy(d, c, k)
<1>1. /\ \A r \in 3 .. 13 : r >= k
      /\ c.name = "demo" => k = 0
  BY DEF IsNeeded
<1>2. k <= 3
  BY <1>1
<1> QED BY <1>1, <1>2 DEF DoneBy, RowsBy, CatalogBy, OwnersBy, LandingBy, RunsBy, Batches

-----------------------------------------------------------------------------
(* The command under way *)

Rising(S) == \A i, j \in 1 .. Len(S) : i < j => Rank(S[i]) < Rank(S[j])

\* The place of the next statement.
At(S) == IF S = <<>> THEN 25 ELSE Rank(S[1])

\* Everything a command needs that is not past is still to come.
Follows(S, c) ==
  /\ S \in Seq(Allowed(c)) /\ Rising(S)
  /\ \A s \in Needed(c) : Rank(s) >= At(S) => \E i \in 1 .. Len(S) : S[i] = s

\* A demo has no options.
DemosAreAlike == command.name = "demo" => command.scale = 1 /\ command.drift = FALSE

FixtureInv ==
  /\ FixtureTypeOK
  /\ DemosAreAlike
  /\ ResolvableVersionsAreAttributed
  /\ Follows(todo, command)
  /\ exit \in {"running", "0"} /\ Builds(command) => DoneBy(disk, command, At(todo))

LEMMA Between ==
  \A p \in 0 .. 24, r \in 0 .. 24 :
    /\ p = r \/ p < r => p <= r
    /\ r > p => r >= p
    /\ \A q \in 0 .. 25 : p < q /\ r >= q => r > p
    /\ \A q \in 0 .. 25 : p < q /\ (r > p => r >= q) => (r < p + 1 <=> r < q)
OBVIOUS

LEMMA AllowedPlaces ==
  ASSUME NEW c \in Commands, NEW S, Follows(S, c)
  PROVE  /\ \A i \in 1 .. Len(S) : Reads(S[i], c, Rank(S[i])) /\ Rank(S[i]) \in 0 .. 24
         /\ At(S) \in 0 .. 25
<1>1. ASSUME NEW i \in 1 .. Len(S)
      PROVE  Reads(S[i], c, Rank(S[i])) /\ Rank(S[i]) \in 0 .. 24
  <2>1. S[i] \in Allowed(c)
    BY DEF Follows
  <2> QED BY <2>1, AllowedReads, Places
<1>2. S = <<>> \/ 1 \in 1 .. Len(S)
  BY DEF Follows
<1> QED BY <1>1, <1>2 DEF At

LEMMA NothingFollows ==
  ASSUME NEW c \in Commands
  PROVE  Follows(<<>>, c)
<1>1. \A s \in Needed(c) : Rank(s) \in 0 .. 24
  BY AllowedReads, Places DEF Allowed
<1> QED BY <1>1 DEF Follows, Rising, At

LEMMA ScriptFollows ==
  ASSUME NEW c \in Commands, NEW S, NEW lo, NEW hi, NEW all,
         Lists(S, lo, hi, all), Needed(c) \subseteq all, all \subseteq Allowed(c), all # {}
  PROVE  /\ Follows(S, c) /\ S # <<>>
         /\ Builds(c) => \A d : DoneBy(d, c, At(S))
<1>1. S \in Seq(Allowed(c)) /\ Rising(S) /\ \A s \in all : \E i \in 1 .. Len(S) : S[i] = s
  BY DEF Lists, Rising
<1>2. Follows(S, c)
  BY <1>1 DEF Follows
<1>3. S # <<>> /\ 1 \in 1 .. Len(S)
  BY <1>1
<1>4. ASSUME Builds(c), NEW d PROVE DoneBy(d, c, At(S))
  <2>1. At(S) \in 0 .. 25 /\ At(S) = Rank(S[1])
    BY <1>2, <1>3, AllowedPlaces DEF At
  <2>2. ASSUME NEW r \in 0 .. 24, IsNeeded(c, r) PROVE r >= At(S)
    <3>1. PICK i \in 1 .. Len(S) : Rank(S[i]) = r
      BY <1>1, <1>4, <2>2, NeededPlaces
    <3>2. i = 1 \/ Rank(S[1]) < Rank(S[i])
      BY <1>1, <1>3 DEF Rising
    <3>3. Rank(S[1]) \in 0 .. 24 /\ Rank(S[i]) \in 0 .. 24
      BY <1>2, <1>3, AllowedPlaces
    <3>4. Rank(S[1]) <= Rank(S[i])
      BY <3>2, <3>3, Between, Zenon
    <3> QED BY <2>1, <3>1, <3>4
  <2> QED BY <2>1, <2>2, NothingDone
<1> QED BY <1>2, <1>3, <1>4

LEMMA TailFollows ==
  ASSUME NEW c \in Commands, NEW S, Follows(S, c), S # <<>>
  PROVE  /\ Follows(Tail(S), c)
         /\ Builds(c) => \A r \in 0 .. 24 : IsNeeded(c, r) => (r < Rank(S[1]) + 1 <=> r < At(Tail(S)))
<1> DEFINE T == Tail(S)
<1>1. /\ S \in Seq(Allowed(c)) /\ Rising(S) /\ 1 \in 1 .. Len(S) /\ Len(S) \in Nat
      /\ At(S) = Rank(S[1])
  BY DEF Follows, At
<1>2. /\ T \in Seq(Allowed(c)) /\ Len(T) = Len(S) - 1
      /\ \A i \in 1 .. Len(T) : T[i] = S[i + 1] /\ i + 1 \in 1 .. Len(S)
  BY <1>1
<1> HIDE DEF T
<1>3. \A i \in 1 .. Len(S) : Rank(S[i]) \in 0 .. 24
  BY AllowedPlaces
<1>4. Rising(T)
  <2> SUFFICES ASSUME NEW i \in 1 .. Len(T), NEW j \in 1 .. Len(T), i < j
               PROVE  Rank(T[i]) < Rank(T[j])
    BY DEF Rising
  <2>1. i + 1 < j + 1 /\ i + 1 \in 1 .. Len(S) /\ j + 1 \in 1 .. Len(S)
    BY <1>2
  <2>2. Rank(S[i + 1]) < Rank(S[j + 1])
    BY <1>1, <2>1 DEF Rising
  <2> QED BY <1>2, <2>2
<1>5. /\ Rank(S[1]) < At(T)
      /\ \A i \in 1 .. Len(T) : At(T) <= Rank(T[i])
      /\ At(T) \in 0 .. 25
  <2>1. CASE T = <<>>
    BY <1>1, <1>3, <2>1 DEF At
  <2>2. CASE T # <<>>
    <3>1. 1 \in 1 .. Len(T) /\ At(T) = Rank(T[1])
      BY <1>2, <2>2 DEF At
    <3>2. T[1] = S[2] /\ 2 \in 1 .. Len(S)
      BY <1>2, <3>1
    <3>3. Rank(S[1]) < Rank(S[2])
      BY <1>1, <3>2 DEF Rising
    <3>4. \A i \in 1 .. Len(T) : i = 1 \/ Rank(T[1]) < Rank(T[i])
      BY <1>4, <3>1 DEF Rising
    <3>5. \A i \in 1 .. Len(T) : Rank(T[i]) \in 0 .. 24
      BY <1>2, <1>3
    <3>6. At(T) \in 0 .. 24 /\ Rank(S[1]) < At(T)
      <4>1. Rank(S[1]) \in 0 .. 24
        BY <1>1, <1>3
      <4> QED BY <3>1, <3>2, <3>3, <3>5, <4>1
    <3>7. ASSUME NEW i \in 1 .. Len(T) PROVE At(T) <= Rank(T[i])
      <4>1. Rank(T[i]) \in 0 .. 24 /\ Rank(T[1]) \in 0 .. 24
        BY <3>1, <3>5
      <4> QED BY <3>1, <3>4, <4>1, Between, Zenon
    <3> QED BY <3>6, <3>7
  <2> QED BY <2>1, <2>2
<1>6. ASSUME NEW s \in Needed(c), Rank(s) > Rank(S[1])
      PROVE  \E i \in 1 .. Len(T) : T[i] = s
  <2>1. Rank(s) \in 0 .. 24
    BY AllowedReads, Places DEF Allowed
  <2>5. Rank(S[1]) \in 0 .. 24
    BY <1>1, <1>3
  <2>6. Rank(s) >= At(S)
    BY <1>1, <1>6, <2>1, <2>5, Between, Zenon
  <2>2. PICK i \in 1 .. Len(S) : S[i] = s
    BY <2>6 DEF Follows
  <2>3. i # 1
    BY <1>1, <1>3, <1>6, <2>2
  <2>4. i - 1 \in 1 .. Len(T) /\ (i - 1) + 1 = i
    BY <1>1, <1>2, <2>3
  <2> QED BY <1>2, <2>2, <2>4
<1>7. Follows(T, c)
  <2> SUFFICES ASSUME NEW s \in Needed(c), Rank(s) >= At(T)
               PROVE  \E i \in 1 .. Len(T) : T[i] = s
    BY <1>2, <1>4 DEF Follows
  <2>1. Rank(s) \in 0 .. 24 /\ Rank(S[1]) \in 0 .. 24
    BY <1>1, <1>3, AllowedReads, Places DEF Allowed
  <2>2. Rank(s) > Rank(S[1])
    BY <1>5, <2>1, Between, Zenon
  <2> QED BY <1>6, <2>2
<1>8. ASSUME Builds(c), NEW r \in 0 .. 24, IsNeeded(c, r)
      PROVE  r < Rank(S[1]) + 1 <=> r < At(T)
  <2>1. Rank(S[1]) \in 0 .. 24
    BY <1>1, <1>3
  <2>2. r > Rank(S[1]) => r >= At(T)
    <3> SUFFICES ASSUME r > Rank(S[1]) PROVE r >= At(T)
      OBVIOUS
    <3>1. PICK s \in Needed(c) : Rank(s) = r
      BY <1>8, NeededPlaces
    <3>2. PICK i \in 1 .. Len(T) : T[i] = s
      BY <1>6, <3>1
    <3> QED BY <1>5, <3>1, <3>2
  <2>3. At(T) \in 0 .. 25 /\ Rank(S[1]) < At(T)
    BY <1>5
  <2> QED BY <2>1, <2>2, <2>3, Between, Zenon
<1> QED BY <1>7, <1>8 DEF T

LEMMA FixtureStarts == FixtureInit => FixtureInv
<1> SUFFICES ASSUME FixtureInit PROVE FixtureInv
  OBVIOUS
<1>1. 1 \in Scales
  BY FixtureAssumption DEF FixtureAssumption
<1>2. command \in Commands /\ ~Builds(command) /\ todo = <<>> /\ exit = "0" /\ DemosAreAlike
  BY <1>1 DEF FixtureInit, Commands, Builds, DemosAreAlike
<1>3. Nothing \in Disk /\ [Nothing EXCEPT !.strangers = TRUE] \in Disk
  <2> DEFINE land == [x \in Batches |-> 0]
  <2>1. land \in [Batches -> Scales \cup {0}] /\ Nothing.landing = land
    BY DEF Nothing
  <2>2. <<>> \in Seq([job : Domains, status : {"COMPLETE", "FAIL"}])
    OBVIOUS
  <2>3. Nothing = [rows |-> "none", size |-> 0, tables |-> {}, versions |-> {}, owners |-> {},
                   landing |-> land, products |-> {}, lineage |-> <<>>, strangers |-> FALSE]
    BY DEF Nothing
  <2> HIDE DEF land
  <2>4. Nothing \in Disk
    BY <2>1, <2>2, <2>3 DEF Disk
  <2> QED BY <2>4 DEF Disk
<1>4. Nothing.tables = {} /\ [Nothing EXCEPT !.strangers = TRUE].tables = {}
  BY DEF Nothing
<1>5. disk \in Disk /\ disk.tables = {}
  BY <1>3, <1>4 DEF FixtureInit
<1>6. FixtureTypeOK
  BY <1>2, <1>5 DEF FixtureTypeOK, Commands
<1>7. Follows(todo, command)
  BY <1>2, NothingFollows
<1> QED BY <1>2, <1>5, <1>6, <1>7 DEF FixtureInv, ResolvableVersionsAreAttributed

\* A command that begins has done nothing yet.
LEMMA BeginKeeps ==
  ASSUME FixtureInv, NEW name \in {"seed", "demo", "run"}, NEW scale \in Scales,
         NEW drift \in BOOLEAN, NEW S, NEW lo, NEW hi, NEW all,
         Begin(name, scale, drift, S), Lists(S, lo, hi, all), all # {},
         Needed([name |-> name, scale |-> scale, drift |-> drift]) \subseteq all,
         all \subseteq Allowed([name |-> name, scale |-> scale, drift |-> drift]),
         name = "demo" => scale = 1 /\ drift = FALSE
  PROVE  FixtureInv'
<1> DEFINE c == [name |-> name, scale |-> scale, drift |-> drift]
<1>1. c \in Commands
  BY DEF Commands
<1>2. command' = c /\ todo' = S /\ exit' = "running" /\ disk' = disk
  BY DEF Begin
<1>7. DemosAreAlike'
  BY <1>2 DEF DemosAreAlike
<1> HIDE DEF c
<1>3. Follows(S, c) /\ S # <<>> /\ (Builds(c) => \A d : DoneBy(d, c, At(S)))
  BY <1>1, ScriptFollows DEF c
<1>4. FixtureTypeOK'
  BY <1>1, <1>2, <1>3 DEF FixtureInv, FixtureTypeOK, Commands
<1>5. ResolvableVersionsAreAttributed'
  BY <1>2 DEF FixtureInv, ResolvableVersionsAreAttributed
<1>6. Follows(todo', command') /\ (Builds(command') => DoneBy(disk', command', At(todo')))
  BY <1>2, <1>3
<1> QED BY <1>4, <1>5, <1>6, <1>7 DEF FixtureInv

LEMMA SeedKeeps == FixtureInv /\ Seed => FixtureInv'
<1> SUFFICES ASSUME FixtureInv, NEW scale \in Scales, NEW drift \in BOOLEAN, NEW clean \in BOOLEAN,
                    Begin("seed", scale, drift, seed(scale, drift, clean))
             PROVE  FixtureInv'
  BY Zenon DEF Seed
<1> DEFINE c == [name |-> "seed", scale |-> scale, drift |-> drift]
<1>1. PICK all : /\ Lists(seed(scale, drift, clean), 1, 22, all)
                 /\ Needed(c) \subseteq all /\ all \subseteq Allowed(c)
  BY SeedScript
<1>2. all # {}
  <2>1. c.name = "seed"
    OBVIOUS
  <2>2. Builds(c)
    BY <2>1 DEF Builds
  <2> HIDE DEF c
  <2>3. <<"rows", c.scale>> \in Needed(c)
    BY <2>2, Zenon DEF Needed
  <2> QED BY <1>1, <2>3
<1>3. "seed" \in {"seed", "demo", "run"}
  OBVIOUS
<1> QED BY <1>1, <1>2, <1>3, BeginKeeps

LEMMA RunKeeps == FixtureInv /\ RunOne => FixtureInv'
<1> SUFFICES ASSUME FixtureInv, NEW domain \in Domains,
                    Begin("run", 1, FALSE, << <<"run", domain>> >>)
             PROVE  FixtureInv'
  BY Zenon DEF RunOne
<1> DEFINE c == [name |-> "run", scale |-> 1, drift |-> FALSE]
           h == <<"run", domain>>
<1>1. Needed(c) \subseteq {h} /\ {h} \subseteq Allowed(c)
  <2>1. c.name = "run"
    OBVIOUS
  <2>2. ~Builds(c)
    BY <2>1 DEF Builds
  <2>3. h \in Running
    BY DEF Running
  <2> HIDE DEF c, h
  <2> QED BY <2>1, <2>2, <2>3, Zenon DEF Needed, Allowed
<1>2. Lists(<<h>>, 22, 25, {h})
  <2>1. Rank(h) \in 22 .. 24
    BY Ranks
  <2> HIDE DEF h
  <2> QED BY <2>1, ListsOne
<1>3. 1 \in Scales /\ "run" \in {"seed", "demo", "run"} /\ FALSE \in BOOLEAN /\ {h} # {}
  BY FixtureAssumption DEF FixtureAssumption
<1> QED BY <1>1, <1>2, <1>3, BeginKeeps

\* Where strangers' files lie, a demo leaves everything as it is.
LEMMA DemoKeeps == FixtureInv /\ Demo => FixtureInv'
<1> SUFFICES ASSUME FixtureInv, Demo PROVE FixtureInv'
  OBVIOUS
<1> DEFINE c == [name |-> "demo", scale |-> 1, drift |-> FALSE]
<1>0. 1 \in Scales /\ "demo" \in {"seed", "demo", "run"} /\ FALSE \in BOOLEAN
  BY FixtureAssumption DEF FixtureAssumption
<1>1. CASE Begin("demo", 1, FALSE, demo)
  <2>1. PICK all : Lists(demo, 0, 25, all) /\ Needed(c) \subseteq all /\ all \subseteq Allowed(c)
    BY DemoScript
  <2>2. all # {}
    <3>1. c.name = "demo"
      OBVIOUS
    <3>2. Builds(c)
      BY <3>1 DEF Builds
    <3> HIDE DEF c
    <3>3. <<"rows", c.scale>> \in Needed(c)
      BY <3>2, Zenon DEF Needed
    <3> QED BY <2>1, <3>3
  <2> QED BY <1>0, <1>1, <2>1, <2>2, BeginKeeps
<1>2. CASE exit # "running" /\ command' = c /\ exit' = "1" /\ UNCHANGED <<disk, todo>>
  <2>1. c \in Commands /\ todo = <<>> /\ DemosAreAlike'
    BY <1>0, <1>2 DEF Commands, FixtureInv, FixtureTypeOK, DemosAreAlike
  <2> HIDE DEF c
  <2>2. Follows(todo', command')
    BY <1>2, <2>1, NothingFollows
  <2> QED BY <1>2, <2>1, <2>2 DEF FixtureInv, FixtureTypeOK, ResolvableVersionsAreAttributed, Commands
<1> QED BY <1>1, <1>2 DEF Demo

LEMMA StepKeeps == FixtureInv /\ Step => FixtureInv'
<1> SUFFICES ASSUME FixtureInv, Step PROVE FixtureInv'
  OBVIOUS
<1> DEFINE h == Head(todo)
           k == Rank(todo[1])
<1>1. /\ todo # <<>> /\ exit = "running" /\ disk' = Effect(h, disk) /\ command' = command
      /\ todo' = Tail(todo) /\ exit' = IF Len(todo) = 1 THEN "0" ELSE "running"
  BY DEF Step, Proceed, FixtureInv, FixtureTypeOK
<1>2. disk \in Disk /\ command \in Commands /\ Follows(todo, command)
  BY DEF FixtureInv, FixtureTypeOK, Commands
<1>3. /\ todo \in Seq(Allowed(command)) /\ 1 \in 1 .. Len(todo) /\ h = todo[1] /\ At(todo) = k
      /\ Len(Tail(todo)) = Len(todo) - 1 /\ Len(todo) \in Nat \ {0}
      /\ Tail(todo) \in Seq(Allowed(command))
  BY <1>1, <1>2 DEF Follows, At
<1>4. h \in Allowed(command) /\ Reads(h, command, k) /\ k \in 0 .. 24
  <2>1. todo[1] \in Allowed(command)
    BY <1>3
  <2>2. Reads(todo[1], command, Rank(todo[1])) /\ Rank(todo[1]) \in 0 .. 24
    BY <1>2, <2>1, AllowedReads, Places
  <2> QED BY <1>3, <2>1, <2>2, Zenon
<1> HIDE DEF h, k
<1>5. Builds(command) => DoneBy(disk, command, k)
  BY <1>1, <1>3 DEF FixtureInv
<1>6. disk' \in Disk
  <2>1. Leaves(disk, Effect(h, disk), command, k)
    BY <1>2, <1>4, StatementLeaves
  <2> QED BY <1>1, <2>1 DEF Leaves
<1>7. FixtureTypeOK'
  <2>1. Len(todo) = 1 <=> Tail(todo) = <<>>
    <3>1. Tail(todo) = <<>> <=> Len(Tail(todo)) = 0
      BY <1>3, EmptySeq
    <3> QED BY <1>3, <3>1
  <2> QED BY <1>1, <1>2, <1>6, <2>1 DEF FixtureTypeOK, Commands
<1>8. ResolvableVersionsAreAttributed'
  <2>1. h[1] # "run" => DoneBy(disk, command, k)
    <3>1. CASE Builds(command)
      BY <1>5, <3>1
    <3>2. CASE ~Builds(command)
      <4>1. h \in Running
        BY <1>4, <3>2, Zenon DEF Allowed, Needed
      <4> QED BY <4>1 DEF Running
    <3> QED BY <3>1, <3>2
  <2>2. disk.tables \subseteq disk.versions
    BY DEF FixtureInv, ResolvableVersionsAreAttributed
  <2>3. Effect(h, disk).tables \subseteq Effect(h, disk).versions
    BY <1>2, <1>4, <2>1, <2>2, StatementAttributes
  <2> QED BY <1>1, <2>3 DEF ResolvableVersionsAreAttributed
<1>9. Follows(Tail(todo), command)
      /\ (Builds(command) => \A r \in 0 .. 24 :
            IsNeeded(command, r) => (r < k + 1 <=> r < At(Tail(todo))))
  BY <1>1, <1>2, TailFollows DEF k
<1>10. ASSUME Builds(command) PROVE DoneBy(Effect(h, disk), command, At(Tail(todo)))
  <2>1. DoneBy(Effect(h, disk), command, k + 1)
    BY <1>2, <1>4, <1>5, <1>10, StatementDoes
  <2>2. k + 1 \in 0 .. 25 /\ At(Tail(todo)) \in 0 .. 25
    BY <1>2, <1>4, <1>9, AllowedPlaces
  <2> QED BY <1>2, <1>9, <1>10, <2>1, <2>2, DoneMeanwhile
<1>11. Follows(todo', command') /\ (Builds(command') => DoneBy(disk', command', At(todo')))
  BY <1>1, <1>9, <1>10
<1>12. DemosAreAlike'
  BY <1>1 DEF FixtureInv, DemosAreAlike
<1> QED BY <1>7, <1>8, <1>11, <1>12 DEF FixtureInv

\* A failed run leaves an event and its command ends, and so does one that dies.
LEMMA FailKeeps == FixtureInv /\ (Fail \/ Die) => FixtureInv'
<1> SUFFICES ASSUME FixtureInv, Fail \/ Die PROVE FixtureInv'
  OBVIOUS
<1>1. /\ disk \in Disk /\ command \in Commands /\ Follows(todo, command)
      /\ command' = command /\ todo' = <<>> /\ exit' \in {"1", "died"}
  BY DEF FixtureInv, FixtureTypeOK, Commands, Fail, Die
<1>2. disk' \in Disk /\ disk'.tables = disk.tables /\ disk'.versions = disk.versions
  <2>1. CASE Die
    BY <1>1, <2>1 DEF Die
  <2>2. CASE Fail
    <3> DEFINE h == Head(todo)
               x == Append(disk.lineage, [job |-> h[2], status |-> "FAIL"])
    <3>1. disk' = [disk EXCEPT !.lineage = x]
      BY <2>2, <1>1, DiskFields DEF Fail, Logged, Disk
    <3>2. h = todo[1] /\ 1 \in 1 .. Len(todo) /\ h[1] = "run"
      BY <1>1, <2>2 DEF Fail, Follows
    <3>3. \E i \in 1 .. 3 : h[2] = DOMAINS[i]
      <4>1. Reads(h, command, Rank(h))
        BY <1>1, <3>2, AllowedPlaces
      <4> HIDE DEF h
      <4> QED BY <3>2, <4>1 DEF Reads
    <3>4. h[2] \in Domains
      BY <3>3 DEF DOMAINS, Domains
    <3>5. [job |-> h[2], status |-> "FAIL"] \in [job : Domains, status : {"COMPLETE", "FAIL"}]
      BY <3>4
    <3>6. disk.lineage \in Seq([job : Domains, status : {"COMPLETE", "FAIL"}])
      BY <1>1, DiskFields
    <3>7. x \in Seq([job : Domains, status : {"COMPLETE", "FAIL"}])
      BY <3>5, <3>6
    <3> HIDE DEF x
    <3> QED BY <1>1, <3>1, <3>7 DEF Disk
  <2> QED BY <2>1, <2>2
<1>3. FixtureTypeOK'
  BY <1>1, <1>2 DEF FixtureTypeOK, Commands
<1>4. Follows(todo', command')
  BY <1>1, NothingFollows
<1>5. DemosAreAlike'
  BY <1>1 DEF FixtureInv, DemosAreAlike
<1> QED BY <1>1, <1>2, <1>3, <1>4, <1>5 DEF FixtureInv, ResolvableVersionsAreAttributed

LEMMA FixtureKeeps == FixtureInv /\ [FixtureNext]_fixtureVars => FixtureInv'
<1>1. FixtureInv /\ UNCHANGED fixtureVars => FixtureInv'
  BY DEF fixtureVars, FixtureInv, FixtureTypeOK, ResolvableVersionsAreAttributed, DemosAreAlike
<1> QED BY <1>1, SeedKeeps, DemoKeeps, RunKeeps, StepKeeps, FailKeeps DEF FixtureNext

LEMMA FixtureHolds == FixtureSpec => []FixtureInv
<1> QED BY FixtureStarts, FixtureKeeps, PTL DEF FixtureSpec

LEMMA DoneIsFresh ==
  ASSUME NEW d \in Disk, NEW c \in Commands, DoneBy(d, c, 25)
  PROVE  Seeded(d) = Fresh(c.scale, c.drift)
<1>1. d.size = c.scale /\ d.rows = IF c.drift THEN "v8" ELSE "v7"
  BY DEF DoneBy, RowsBy, Commands
<1>2. ASSUME NEW S \in SUBSET Versions, TransactionsBy(S, c, 25), ClaimsBy(S, 25)
      PROVE  S = Released(c.drift)
  <2>1. ASSUME NEW v \in S PROVE v \in Released(c.drift)
    <3>1. PICK t \in Sources, n \in {3, 7, 8} : v = <<t, n>>
      BY DEF Versions
    <3>2. CASE t = "transactions"
      BY <1>2, <2>1, <3>1, <3>2 DEF TransactionsBy, Released
    <3>3. CASE t = "claims"
      BY <1>2, <2>1, <3>1, <3>3 DEF ClaimsBy, Released
    <3> QED BY <3>2, <3>3 DEF Sources
  <2>2. Released(c.drift) \subseteq S
    BY <1>2 DEF Released, TransactionsBy, ClaimsBy
  <2> QED BY <2>1, <2>2
<1>3. d.tables = Released(c.drift) /\ d.versions = Released(c.drift)
  BY <1>2, DiskFields DEF DoneBy, CatalogBy
<1>4. d.owners = Sources
  BY DiskFields DEF DoneBy, OwnersBy, Sources
<1>5. d.landing = [b \in Batches |-> c.scale]
  BY DiskFields DEF DoneBy, LandingBy, Batches
<1> QED BY <1>1, <1>3, <1>4, <1>5 DEF Seeded, Fresh

LEMMA DoneHasThreeRuns ==
  ASSUME NEW d \in Disk, NEW c \in Commands, c.name = "demo", DoneBy(d, c, 25)
  PROVE  /\ d.lineage = [i \in 1 .. 3 |-> [job |-> DOMAINS[i], status |-> "COMPLETE"]]
         /\ d.products = Domains
<1>1. PICK m \in 0 .. 3 :
        /\ Len(d.lineage) = m
        /\ \A i \in 1 .. m : d.lineage[i] = Completed(DOMAINS[i])
        /\ \A i \in 1 .. 3 : 25 > 21 + i <=> i <= m
        /\ \A i \in 1 .. m : DOMAINS[i] \in d.products
  BY DEF DoneBy, RunsBy
<1>2. m = 3
  BY <1>1
<1>3. d.lineage = [i \in 1 .. 3 |-> d.lineage[i]]
  BY <1>1, <1>2, DiskFields
<1>4. d.lineage = [i \in 1 .. 3 |-> Completed(DOMAINS[i])]
  BY <1>1, <1>2, <1>3
<1>5. DOMAINS[1] = "fraud" /\ DOMAINS[2] = "policy" /\ DOMAINS[3] = "finance"
  BY DEF DOMAINS
<1>6. Domains \subseteq d.products
  BY <1>1, <1>2, <1>5 DEF Domains
<1> QED BY <1>4, <1>6, DiskFields DEF Completed

-----------------------------------------------------------------------------
(* The theorems *)

\* Every variable keeps its type whatever commands are begun, fail or are killed, and a
\* command has ended when nothing of it is left to do.
THEOREM FixtureKeepsTypes == FixtureSpec => []FixtureTypeOK
<1>1. FixtureInv => FixtureTypeOK
  BY DEF FixtureInv
<1> QED BY <1>1, FixtureHolds, PTL

\* seed.py:150, catalog.py:376, 404-420.  Wherever a seed or a demo stops, no version that
\* a run could resolve is without the release that published it.
THEOREM ResolvableVersionsAreAlwaysAttributed == FixtureSpec => []ResolvableVersionsAreAttributed
<1>1. FixtureInv => ResolvableVersionsAreAttributed
  BY DEF FixtureInv
<1> QED BY <1>1, FixtureHolds, PTL

\* seed.py:144-154, 157-167, 233-239.  A seed that ends leaves what the same seed leaves
\* in an empty directory, at every scale, after any number of commands of which any may
\* have stopped half way, with --clean and without it.
THEOREM SeedsAlwaysConverge == FixtureSpec => []SeedsConverge
<1>1. FixtureInv => SeedsConverge
  <2> SUFFICES ASSUME FixtureInv, exit = "0", command.name = "seed"
               PROVE  Seeded(disk) = Fresh(command.scale, command.drift)
    BY DEF SeedsConverge
  <2>1. disk \in Disk /\ command \in Commands /\ todo = <<>> /\ Builds(command)
    BY DEF FixtureInv, FixtureTypeOK, Commands, Builds
  <2>2. DoneBy(disk, command, 25)
    BY <2>1 DEF FixtureInv, At
  <2> QED BY <2>1, <2>2, DoneIsFresh
<1> QED BY <1>1, FixtureHolds, PTL

\* demo.py:130-134, test_demo.py:73-79.  However many demos and runs went before, a demo
\* that ends well has reported three runs, each once, and left three products and a
\* fresh seed.
THEOREM DemosAlwaysReportThreeRuns == FixtureSpec => []DemoReportsThreeRuns
<1>1. FixtureInv => DemoReportsThreeRuns
  <2> SUFFICES ASSUME FixtureInv, exit = "0", command.name = "demo" PROVE DemoReportsThreeRuns
    BY DEF DemoReportsThreeRuns
  <2>1. disk \in Disk /\ command \in Commands /\ todo = <<>> /\ Builds(command)
    BY DEF FixtureInv, FixtureTypeOK, Commands, Builds
  <2>2. DoneBy(disk, command, 25)
    BY <2>1 DEF FixtureInv, At
  <2>3. command.scale = 1 /\ command.drift = FALSE
    BY DEF FixtureInv, DemosAreAlike
  <2>4. Seeded(disk) = Fresh(1, FALSE)
    BY <2>1, <2>2, <2>3, DoneIsFresh
  <2> QED BY <2>1, <2>2, <2>4, DoneHasThreeRuns DEF DemoReportsThreeRuns
<1> QED BY <1>1, FixtureHolds, PTL

\* A behaviour of Scripts is one of the fixture's commands or one of the probe's.
LEMMA EachScriptIsItsOwn == Spec => FixtureSpec /\ ProbeSpec
<1>1. Init => FixtureInit /\ ProbeInit
  BY DEF Init
<1>2. [Next]_vars => [FixtureNext]_fixtureVars /\ [ProbeNext]_probeVars
  BY DEF Next, vars
<1> QED BY <1>1, <1>2, PTL DEF Spec, FixtureSpec, ProbeSpec

\* Every variable of both keeps its type, in every behaviour of either.
THEOREM ScriptsKeepTypes == Spec => []TypeOK
<1>1. FixtureTypeOK /\ ProbeTypeOK => TypeOK
  BY DEF TypeOK
<1> QED BY <1>1, EachScriptIsItsOwn, FixtureKeepsTypes, ProbesKeepTypes, PTL
=============================================================================
