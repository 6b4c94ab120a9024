----------------------------- MODULE Consumers ------------------------------
(***************************************************************************)
(* The producer-side check (consumers.py) around one application's table:  *)
(* release builds that compare a proposed version with the pin of every    *)
(* descriptor reading the table, and publish it if none fails, while the   *)
(* owners of those descriptors go on editing them.                         *)
(*                                                                         *)
(* A build reads the catalog and the descriptors in one go, and publishes  *)
(* later, as the version its report named; what either held when it looked *)
(* may be gone by then.                                                    *)
(***************************************************************************)
EXTENDS Schema, Integers

CONSTANTS
  Readers,     \* the descriptor files that may name the table
  Landing,     \* those that read it as dms_landing; the others as glue_table
  Steady,      \* those there from the start whose owners only move the pin
  Builds,      \* release builds of the application, one proposal each
  Shapes,      \* the column sets a build may propose
  FirstShape,  \* version 1
  MaxVersion   \* bound: the highest version

Versions == 1 .. MaxVersion

ASSUME ConsumersAssumption ==
  /\ MaxVersion \in Nat \ {0}
  /\ FirstShape \in Shapes
  /\ Shapes \subseteq SUBSET Column
  /\ \A s \in Shapes : s # {} /\ \A c, d \in s : c.name = d.name => c = d
  /\ Landing \subseteq Readers
  /\ Steady \subseteq Readers

(***************************************************************************)
(* A descriptor file: "parses"; "broken", a YAML document that names the   *)
(* table and is no valid descriptor; "garbled", no YAML at all; "absent".  *)
(* `written' is the version its steps were written against: moving the     *)
(* pin changes one number and leaves the SQL.                              *)
(***************************************************************************)
Forms == {"absent", "garbled", "broken", "parses"}

File  == [form : Forms, pin : Versions, written : Versions]

Build ==
  [stage : {"waiting", "passed", "failed", "released", "refused"},
   shape : Shapes,
   next  : 0 .. MaxVersion + 1,   \* the version the report names
   seen  : [Readers -> File]]     \* the descriptors as the check read them

VARIABLES
  published,   \* the catalog's versions of the table
  file,        \* the descriptor files
  build        \* the builds

vars == <<published, file, build>>

TypeOK ==
  /\ published \in [Versions -> Shapes \cup {{}}]
  /\ file \in [Readers -> File]
  /\ build \in [Builds -> Build]

Init ==
  /\ published = [v \in Versions |-> IF v = 1 THEN FirstShape ELSE {}]
  /\ file = [r \in Readers |-> [form    |-> IF r \in Steady THEN "parses" ELSE "absent",
                               pin     |-> 1,
                               written |-> 1]]
  /\ build = [b \in Builds |->
                [stage |-> "waiting", shape |-> FirstShape, next |-> 0, seen |-> file]]

Recorded == {v \in Versions : published[v] # {}}

Latest(v) == v \in Recorded /\ \A w \in Recorded : w <= v

-----------------------------------------------------------------------------
(* The check *)

\* Mutant: a column breaks a reader if it used to be nullable.
ChangesReversed(older, newer) ==
  LET pairs == {p \in older \X newer : p[1].name = p[2].name} IN
       {[change |-> "removed", name |-> n, breaking |-> TRUE] :
          n \in NamesOf(older) \ NamesOf(newer)}
  \cup {[change |-> "retyped", name |-> p[1].name, breaking |-> TRUE] :
          p \in {q \in pairs : q[1].type # q[2].type}}
  \cup {[change |-> "nullability", name |-> p[1].name, breaking |-> p[1].nullable] :
          p \in {q \in pairs : q[1].nullable # q[2].nullable}}

\* catalog.changes: one record per difference, and whether it breaks a reader.
\* A column list is compared by name, type and nullability.
Changes(older, newer) ==
  LET pairs == {p \in older \X newer : p[1].name = p[2].name} IN
       {[change |-> "added", name |-> n, breaking |-> FALSE] :
          n \in NamesOf(newer) \ NamesOf(older)}
  \cup {[change |-> "removed", name |-> n, breaking |-> TRUE] :
          n \in NamesOf(older) \ NamesOf(newer)}
  \cup {[change |-> "retyped", name |-> p[1].name, breaking |-> TRUE] :
          p \in {q \in pairs : q[1].type # q[2].type}}
  \cup {[change |-> "nullability", name |-> p[1].name, breaking |-> p[2].nullable] :
          p \in {q \in pairs : q[1].nullable # q[2].nullable}}

\* pins.readers: a file is listed if it is YAML and its source is the table.
Listed(r) == file[r].form \in {"broken", "parses"}

\* Mutant: a pin the catalog does not have is compared with nothing.
JudgeUnknown(r, shape) ==
  CASE file[r].form = "broken" -> "UNREADABLE"
    [] \E c \in Changes(published[file[r].pin], shape) : c.breaking -> "BREAKS"
    [] OTHER                   -> "BUMP"

\* consumers.judge, for a reader that is listed.
Judge(r, shape) ==
  CASE file[r].form = "broken"            -> "UNREADABLE"
    [] published[file[r].pin] = {}        -> "UNKNOWN PIN"
    [] \E c \in Changes(published[file[r].pin], shape) : c.breaking -> "BREAKS"
    [] OTHER                              -> "BUMP"

\* What the report says of a proposal: exit status 0, or 1 when a verdict fails.
Report(shape, latest) ==
  [stage |-> IF \A r \in Readers : Listed(r) => Judge(r, shape) = "BUMP"
             THEN "passed" ELSE "failed",
   shape |-> shape, next |-> latest + 1, seen |-> file]

\* Mutant: a proposal without columns is taken.
CheckUnvalidated(b) ==
  /\ build[b].stage = "waiting"
  /\ \E shape \in Shapes \cup {{}}, v \in Versions :
        Latest(v) /\ build' = [build EXCEPT ![b] = Report(shape, v)]
  /\ UNCHANGED <<published, file>>

\* main, on the catalog and the descriptors as they are now.
Check(b) ==
  /\ build[b].stage = "waiting"
  /\ \E shape \in Shapes, v \in Versions :
        Latest(v) /\ build' = [build EXCEPT ![b] = Report(shape, v)]
  /\ UNCHANGED <<published, file>>

\* Mutant: whatever the catalog has by now is overwritten.
PublishOver(b) ==
  /\ build[b].stage = "passed"
  /\ build[b].next \in Versions
  /\ published' = [published EXCEPT ![build[b].next] = build[b].shape]
  /\ build' = [build EXCEPT ![b].stage = "released"]
  /\ UNCHANGED file

\* catalog.publish of the version the check was about: a build that passed goes
\* on to release, and is refused if the catalog is there already.
Publish(b) ==
  /\ build[b].stage = "passed"
  /\ build[b].next \in Versions
  /\ \/ /\ \A w \in Recorded : w < build[b].next
        /\ published' = [published EXCEPT ![build[b].next] = build[b].shape]
        /\ build' = [build EXCEPT ![b].stage = "released"]
     \/ /\ \E w \in Recorded : w >= build[b].next
        /\ build' = [build EXCEPT ![b].stage = "refused"]
        /\ UNCHANGED published
  /\ UNCHANGED file

-----------------------------------------------------------------------------
(* The owners of the descriptors *)

\* A pipeline added tomorrow, written against the catalog of that day; or the
\* steps of one that exists, rewritten together with its pin.
Write(r) ==
  /\ r \notin Steady
  /\ \E v \in Versions :
        /\ Latest(v)
        /\ file' = [file EXCEPT ![r] = [form |-> "parses", pin |-> v, written |-> v]]
  /\ UNCHANGED <<published, build>>

\* What SchemaDrift asks for: "Bump the pin to v.. to accept."
Bump(r) ==
  /\ file[r].form = "parses"
  /\ \E v \in Versions : Latest(v) /\ file' = [file EXCEPT ![r].pin = v]
  /\ UNCHANGED <<published, build>>

\* A pin on a version that is still to come, and edits that break the file.
PinAhead(r) ==
  /\ r \notin Steady
  /\ file[r].form = "parses"
  /\ \E v \in Versions \ Recorded : file' = [file EXCEPT ![r].pin = v]
  /\ UNCHANGED <<published, build>>

Spoil(r) ==
  /\ r \notin Steady
  /\ file[r].form = "parses"
  /\ \E f \in {"broken", "garbled"} : file' = [file EXCEPT ![r].form = f]
  /\ UNCHANGED <<published, build>>

Repair(r) ==
  /\ file[r].form \in {"broken", "garbled"}
  /\ file' = [file EXCEPT ![r].form = "parses"]
  /\ UNCHANGED <<published, build>>

Next ==
  \/ \E b \in Builds : Check(b) \/ Publish(b)
  \/ \E r \in Readers : Write(r) \/ Bump(r) \/ PinAhead(r) \/ Spoil(r) \/ Repair(r)

Spec == Init /\ [][Next]_vars

-----------------------------------------------------------------------------
(* What the check is for *)

\* Steps written against one shape get what they rely on from a frame of
\* another: each column, of its type, and no null where there was to be none.
Serves(newer, older) ==
  \A c \in older : \E d \in newer :
     /\ d.name = c.name
     /\ d.type = c.type
     /\ d.nullable => c.nullable

\* catalog.py:245-248 and consumers.py:10-16.  A pipeline whose owner only ever
\* moves the pin goes on working through every release the check let out,
\* however many there were and whenever it moved.
SteadyReadersWork ==
  \A r \in Steady : \A v \in Recorded :
    Serves(published[v], published[file[r].written])

\* consumers.py:17-19, "Either hides what the consumer depends on".  A release
\* had something to compare every descriptor its check read with, and serves it,
\* whatever its owner has done since, if its steps suited the version it pinned.
ReleasesServeWhoTheySaw ==
  \A b \in Builds, r \in Readers :
    LET seen == build[b].seen[r] IN
    build[b].stage = "released" /\ seen.form = "parses" =>
      /\ seen.pin < build[b].next
      /\ Serves(published[seen.pin], published[seen.written]) =>
           Serves(build[b].shape, published[seen.written])

\* catalog.py:392.  Two builds that passed side by side do not both release: what
\* is on record is what the one build proposed, and was checked.
ReleasesAreOnRecord ==
  \A b \in Builds :
    build[b].stage = "released" => published[build[b].next] = build[b].shape

-----------------------------------------------------------------------------
(* Claimed, and not so *)

\* catalog.py:245-248, a change that is not breaking "leaves such a reader
\* correct": also one that reads the table as dms_landing, by its primary key.
KeyedReadersWork ==
  \A r \in Steady \cap Landing : \A v \in Recorded :
    PrimaryKeys(published[file[r].written]) # {} => PrimaryKeys(published[v]) # {}
=============================================================================
