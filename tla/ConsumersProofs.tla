-------------------------- MODULE ConsumersProofs ---------------------------
(***************************************************************************)
(* For any table, any number of builds, descriptors and versions: what the *)
(* producer-side check promises.  The argument is in two steps: a set of   *)
(* changes none of which breaks leaves a reader served (UnbrokenServes),   *)
(* and being served is transitive (ServesTransitive), so that a chain of   *)
(* releases, each checked against wherever the pin then was, serves steps  *)
(* written before the first of them.                                       *)
(***************************************************************************)
EXTENDS Consumers, TLAPS

USE ConsumersAssumption

LEMMA ServesTransitive ==
  ASSUME NEW a, NEW b, NEW c, Serves(c, b), Serves(b, a)
  PROVE  Serves(c, a)
BY DEF Serves

LEMMA UnbrokenServes ==
  ASSUME NEW older \in Shapes, NEW newer \in Shapes,
         \A c \in Changes(older, newer) : ~c.breaking
  PROVE  Serves(newer, older)
<1> SUFFICES ASSUME NEW c \in older
             PROVE  \E d \in newer : /\ d.name = c.name
                                     /\ d.type = c.type
                                     /\ d.nullable => c.nullable
  BY DEF Serves
<1>1. c.name \in NamesOf(newer)
  <2>1. SUFFICES ASSUME c.name \in NamesOf(older) \ NamesOf(newer) PROVE FALSE
    BY DEF NamesOf
  <2>2. [change |-> "removed", name |-> c.name, breaking |-> TRUE] \in Changes(older, newer)
    BY <2>1 DEF Changes
  <2> QED
    BY <2>2
<1>2. PICK d \in newer : d.name = c.name
  BY <1>1 DEF NamesOf
<1> DEFINE pairs   == {p \in older \X newer : p[1].name = p[2].name}
           retyped == {q \in pairs : q[1].type # q[2].type}
           renull  == {q \in pairs : q[1].nullable # q[2].nullable}
           typeChanges == {[change |-> "retyped", name |-> p[1].name, breaking |-> TRUE] :
                             p \in retyped}
           nullChanges == {[change |-> "nullability", name |-> p[1].name,
                            breaking |-> p[2].nullable] : p \in renull}
<1>3. typeChanges \subseteq Changes(older, newer) /\ nullChanges \subseteq Changes(older, newer)
  BY DEF Changes
<1>4. PICK p \in pairs : p[1] = c /\ p[2] = d
  <2>1. <<c, d>> \in pairs /\ <<c, d>>[1] = c /\ <<c, d>>[2] = d
    BY <1>2
  <2> QED
    BY <2>1
<1> HIDE DEF pairs
<1>5. d.type = c.type
  <2>1. SUFFICES ASSUME c.type # d.type PROVE FALSE
    OBVIOUS
  <2>2. p \in retyped
    BY <1>4, <2>1
  <2> HIDE DEF retyped
  <2>3. [change |-> "retyped", name |-> p[1].name, breaking |-> TRUE] \in typeChanges
    BY <2>2
  <2> HIDE DEF typeChanges
  <2> QED
    BY <1>3, <2>3
<1>6. d.nullable => c.nullable
  <2>1. SUFFICES ASSUME d.nullable, ~c.nullable PROVE FALSE
    OBVIOUS
  <2>2. p \in renull
    BY <1>4, <2>1
  <2> HIDE DEF renull
  <2>3. [change |-> "nullability", name |-> p[1].name, breaking |-> p[2].nullable] \in nullChanges
    BY <2>2
  <2> HIDE DEF nullChanges
  <2> QED
    BY <1>3, <1>4, <2>1, <2>3
<1> QED
  BY <1>2, <1>5, <1>6

-----------------------------------------------------------------------------
(* Types *)

LEMMA ReportIsABuild ==
  ASSUME TypeOK, NEW shape \in Shapes, NEW v \in Versions
  PROVE  Report(shape, v) \in Build
BY DEF Report, TypeOK, Build, Versions

LEMMA TypeInductive == TypeOK /\ [Next]_vars => TypeOK'
<1> SUFFICES ASSUME TypeOK, [Next]_vars PROVE TypeOK'
  OBVIOUS
<1>1. ASSUME NEW b \in Builds, Check(b) PROVE TypeOK'
  <2>1. PICK shape \in Shapes, v \in Versions :
          build' = [build EXCEPT ![b] = Report(shape, v)]
    BY <1>1 DEF Check
  <2>2. Report(shape, v) \in Build
    BY ReportIsABuild
  <2> HIDE DEF Build
  <2> QED
    BY <1>1, <2>1, <2>2 DEF Check, TypeOK
<1>2. ASSUME NEW b \in Builds, Publish(b) PROVE TypeOK'
  <2>1. build[b] \in Build /\ build[b].shape \in Shapes
    BY DEF TypeOK, Build
  <2>2. published' \in [Versions -> Shapes \cup {{}}]
    BY <1>2, <2>1 DEF Publish, TypeOK
  <2>3. \A stage \in {"released", "refused"} :
          [build[b] EXCEPT !.stage = stage] \in Build
    BY <2>1 DEF Build
  <2>4. build' \in [Builds -> Build]
    BY <1>2, <2>3 DEF Publish, TypeOK
  <2> QED
    BY <1>2, <2>2, <2>4 DEF Publish, TypeOK
<1>3. ASSUME NEW r \in Readers,
             Write(r) \/ Bump(r) \/ PinAhead(r) \/ Spoil(r) \/ Repair(r)
      PROVE  TypeOK'
  <2>1. file' \in [Readers -> File]
    BY <1>3 DEF Write, Bump, PinAhead, Spoil, Repair, TypeOK, File, Forms, Recorded
  <2> QED
    BY <1>3, <2>1 DEF Write, Bump, PinAhead, Spoil, Repair, TypeOK
<1>4. CASE UNCHANGED vars
  BY <1>4 DEF vars, TypeOK
<1> QED
  BY <1>1, <1>2, <1>3, <1>4 DEF Next

\* Every variable keeps its type: a build holds a shape that was proposed and the
\* descriptors it read, and the catalog holds nothing but proposed shapes.
THEOREM TypeCorrect == Spec => []TypeOK
<1>1. Init => TypeOK
  BY DEF Init, TypeOK, Versions, File, Forms, Build
<1> QED
  BY <1>1, TypeInductive, PTL DEF Spec

-----------------------------------------------------------------------------
(* Steady readers *)

\* A steady reader pins what is on record, and everything on record serves it,
\* as does every proposal that passed and waits to be published.
SteadyInv ==
  \A r \in Steady :
    /\ file[r].form = "parses"
    /\ file[r].pin \in Recorded
    /\ file[r].written \in Recorded
    /\ \A v \in Recorded : Serves(published[v], published[file[r].written])
    /\ \A b \in Builds :
         build[b].stage = "passed" =>
           Serves(build[b].shape, published[file[r].written])

LEMMA CheckedProposalServes ==
  ASSUME TypeOK, SteadyInv, NEW r \in Steady, NEW shape \in Shapes, NEW v,
         Report(shape, v).stage = "passed"
  PROVE  Serves(shape, published[file[r].written])
<1>1. Listed(r) /\ Judge(r, shape) = "BUMP"
  BY DEF Report, SteadyInv, Listed
<1>2. published[file[r].pin] # {} /\ file[r].form # "broken"
  BY DEF SteadyInv, Recorded
<1>3. \A c \in Changes(published[file[r].pin], shape) : ~c.breaking
  BY <1>1, <1>2 DEF Judge
<1>4. published[file[r].pin] \in Shapes
  BY <1>2 DEF TypeOK, SteadyInv, Recorded
<1>5. Serves(shape, published[file[r].pin])
  BY <1>3, <1>4, UnbrokenServes
<1> QED
  BY <1>5, ServesTransitive DEF SteadyInv

LEMMA SteadyInductive == TypeOK /\ SteadyInv /\ [Next]_vars => SteadyInv'
<1> SUFFICES ASSUME TypeOK, SteadyInv, [Next]_vars, NEW r \in Steady
             PROVE  /\ file'[r].form = "parses"
                    /\ file'[r].pin \in Recorded'
                    /\ file'[r].written \in Recorded'
                    /\ \A v \in Recorded' :
                         Serves(published'[v], published'[file'[r].written])
                    /\ \A b \in Builds :
                         build'[b].stage = "passed" =>
                           Serves(build'[b].shape, published'[file'[r].written])
  BY DEF SteadyInv
<1>0. r \in Readers
  OBVIOUS
<1>1. ASSUME NEW b \in Builds, Check(b)
      PROVE  \A c \in Builds : build'[c].stage = "passed" =>
               Serves(build'[c].shape, published[file[r].written])
  <2>1. PICK shape \in Shapes, v \in Versions :
          build' = [build EXCEPT ![b] = Report(shape, v)]
    BY <1>1 DEF Check
  <2>2. Report(shape, v).shape = shape
    BY DEF Report
  <2>3. build'[b] = Report(shape, v) /\ \A c \in Builds \ {b} : build'[c] = build[c]
    BY <2>1 DEF TypeOK
  <2> QED
    BY <2>2, <2>3, CheckedProposalServes DEF SteadyInv
<1>2. ASSUME NEW b \in Builds, Check(b)
      PROVE  UNCHANGED <<published, file>> /\ Recorded' = Recorded
  BY <1>2 DEF Check, Recorded
<1>3. CASE \E b \in Builds : Check(b)
  BY <1>1, <1>2, <1>3 DEF SteadyInv
<1>4. ASSUME NEW b \in Builds, Publish(b)
      PROVE  /\ file' = file
             /\ Recorded \subseteq Recorded'
             /\ \A v \in Recorded : published'[v] = published[v]
             /\ \A v \in Recorded' :
                  Serves(published'[v], published[file[r].written])
             /\ \A c \in Builds : build'[c].stage = "passed" =>
                  build[c].stage = "passed" /\ build'[c].shape = build[c].shape
  <2>1. build[b].stage = "passed" /\ build[b].next \in Versions /\ build[b].shape \in Shapes
    BY <1>4 DEF Publish, TypeOK, Build
  <2>2. \A c \in Builds : build'[c].stage = "passed" =>
          build[c].stage = "passed" /\ build'[c].shape = build[c].shape
    BY <1>4 DEF Publish, TypeOK, Build
  <2>3. CASE UNCHANGED published
    BY <1>4, <2>2, <2>3 DEF Publish, Recorded, SteadyInv
  <2>4. CASE /\ \A w \in Recorded : w < build[b].next
             /\ published' = [published EXCEPT ![build[b].next] = build[b].shape]
    <3>1. build[b].next \notin Recorded
      BY <2>1, <2>4 DEF Recorded, Versions
    <3>2. \A v \in Versions : published'[v] = IF v = build[b].next THEN build[b].shape
                                              ELSE published[v]
      BY <2>1, <2>4 DEF TypeOK
    <3>3. \A v \in Recorded : published'[v] = published[v]
      BY <3>1, <3>2 DEF Recorded
    <3>4. Recorded \subseteq Recorded'
      BY <3>3 DEF Recorded
    <3>5. \A v \in Recorded' : Serves(published'[v], published[file[r].written])
      BY <2>1, <3>2 DEF Recorded, SteadyInv
    <3> QED
      BY <1>4, <2>2, <3>3, <3>4, <3>5 DEF Publish
  <2> QED
    BY <1>4, <2>3, <2>4 DEF Publish
<1>5. CASE \E b \in Builds : Publish(b)
  BY <1>4, <1>5 DEF SteadyInv
<1>6. ASSUME NEW q \in Readers,
             Write(q) \/ Bump(q) \/ PinAhead(q) \/ Spoil(q) \/ Repair(q)
      PROVE  /\ UNCHANGED <<published, build>>
             /\ Recorded' = Recorded
             /\ file'[r].form = "parses"
             /\ file'[r].pin \in Recorded
             /\ file'[r].written = file[r].written
  <2>1. UNCHANGED <<published, build>> /\ Recorded' = Recorded
    BY <1>6 DEF Write, Bump, PinAhead, Spoil, Repair, Recorded
  <2>2. CASE q # r
    BY <1>6, <2>1, <2>2 DEF Write, Bump, PinAhead, Spoil, Repair, TypeOK, SteadyInv
  <2>3. CASE q = r
    BY <1>0, <1>6, <2>1, <2>3
       DEF Write, Bump, PinAhead, Spoil, Repair, TypeOK, SteadyInv, File, Latest
  <2> QED
    BY <2>2, <2>3
<1>7. CASE \E q \in Readers :
             Write(q) \/ Bump(q) \/ PinAhead(q) \/ Spoil(q) \/ Repair(q)
  BY <1>6, <1>7 DEF SteadyInv
<1>8. CASE UNCHANGED vars
  BY <1>8 DEF vars, SteadyInv, Recorded
<1> QED
  BY <1>3, <1>5, <1>7, <1>8 DEF Next

\* catalog.py:245-248 and consumers.py:10-16, for every number of builds, readers
\* and versions: whatever releases the check lets out, however their checks and
\* publications interleave with the moving of pins, a pipeline whose owner does
\* nothing but move the pin is served by every version on record.
THEOREM CheckedReleasesBreakNobody == Spec => []SteadyReadersWork
<1>1. Init => SteadyInv
  <2> SUFFICES ASSUME Init PROVE SteadyInv
    OBVIOUS
  <2>1. Recorded = {1} /\ published[1] = FirstShape
    BY DEF Init, Recorded, Versions
  <2>2. \A r \in Steady : file[r] = [form |-> "parses", pin |-> 1, written |-> 1]
    BY DEF Init
  <2>3. \A b \in Builds : build[b].stage # "passed"
    BY DEF Init
  <2>4. Serves(FirstShape, FirstShape)
    BY DEF Serves
  <2> QED
    BY <2>1, <2>2, <2>3, <2>4 DEF SteadyInv
<1>2. SteadyInv => SteadyReadersWork
  BY DEF SteadyInv, SteadyReadersWork
<1> QED
  BY <1>1, <1>2, TypeCorrect, SteadyInductive, PTL DEF Spec

-----------------------------------------------------------------------------
(* Releases *)

RecordInv ==
  \A b \in Builds :
    build[b].stage = "released" =>
      build[b].next \in Recorded /\ published[build[b].next] = build[b].shape

LEMMA RecordInductive == TypeOK /\ RecordInv /\ [Next]_vars => RecordInv'
<1> SUFFICES ASSUME TypeOK, RecordInv, [Next]_vars, NEW c \in Builds,
                    build'[c].stage = "released"
             PROVE  /\ build'[c].next \in Recorded'
                    /\ published'[build'[c].next] = build'[c].shape
  BY DEF RecordInv
<1>1. ASSUME NEW b \in Builds, Check(b) PROVE build'[c] = build[c] /\ UNCHANGED published
  <2>1. PICK shape \in Shapes, v \in Versions :
          build' = [build EXCEPT ![b] = Report(shape, v)]
    BY <1>1 DEF Check
  <2>2. Report(shape, v).stage # "released"
    BY DEF Report
  <2> QED
    BY <1>1, <2>1, <2>2 DEF Check, TypeOK
<1>2. ASSUME NEW b \in Builds, Publish(b)
      PROVE  /\ build'[c].next \in Recorded'
             /\ published'[build'[c].next] = build'[c].shape
  <2>1. /\ build[b].next \in Versions
        /\ build[b].shape \in Shapes
        /\ build'[c].next = build[c].next
        /\ build'[c].shape = build[c].shape
        /\ c # b => build'[c] = build[c]
    BY <1>2 DEF Publish, TypeOK, Build
  <2>2. CASE build' = [build EXCEPT ![b].stage = "refused"] /\ UNCHANGED published
    <3>1. build[c].stage = "released"
      BY <2>1, <2>2 DEF TypeOK, Build
    <3> QED
      BY <2>1, <2>2, <3>1 DEF RecordInv, Recorded
  <2>3. CASE /\ \A w \in Recorded : w < build[b].next
             /\ published' = [published EXCEPT ![build[b].next] = build[b].shape]
    <3>1. build[b].next \notin Recorded
      BY <2>1, <2>3 DEF Recorded, Versions
    <3>2. \A v \in Versions : published'[v] = IF v = build[b].next THEN build[b].shape
                                              ELSE published[v]
      BY <2>1, <2>3 DEF TypeOK
    <3>3. CASE c = b
      BY <2>1, <3>2, <3>3 DEF Recorded
    <3>4. CASE c # b
      BY <2>1, <3>1, <3>2, <3>4 DEF Recorded, RecordInv
    <3> QED
      BY <3>3, <3>4
  <2> QED
    BY <1>2, <2>2, <2>3 DEF Publish
<1>3. ASSUME UNCHANGED <<published, build>>
      PROVE  /\ build'[c].next \in Recorded'
             /\ published'[build'[c].next] = build'[c].shape
  BY <1>3 DEF RecordInv, Recorded
<1>4. CASE \E b \in Builds : Check(b)
  BY <1>1, <1>4 DEF RecordInv, Recorded
<1> QED
  BY <1>2, <1>3, <1>4 DEF Next, Write, Bump, PinAhead, Spoil, Repair, vars

\* catalog.py:392: of two builds that passed their checks side by side only one
\* releases, and what is on record is the proposal that was checked.
THEOREM ReleasesStayOnRecord == Spec => []ReleasesAreOnRecord
<1>1. Init => RecordInv
  BY DEF Init, RecordInv
<1>2. RecordInv => ReleasesAreOnRecord
  BY DEF RecordInv, ReleasesAreOnRecord
<1> QED
  BY <1>1, <1>2, TypeCorrect, RecordInductive, PTL DEF Spec

-----------------------------------------------------------------------------
(* What a check saw *)

\* Steps were written against a version on record, also those of a broken file.
WrittenInv == \A r \in Readers : file[r].written \in Recorded

\* A build that passed was compared with every descriptor it read: each pin was on
\* record, older than the release to come, and what served it serves on.
SeenInv ==
  \A b \in Builds, r \in Readers :
    LET seen == build[b].seen[r] IN
    build[b].stage \in {"passed", "released"} /\ seen.form = "parses" =>
      /\ seen.pin \in Recorded
      /\ seen.pin < build[b].next
      /\ seen.written \in Recorded
      /\ Serves(published[seen.pin], published[seen.written]) =>
           Serves(build[b].shape, published[seen.written])

\* No step takes a version off record, or changes one.
LEMMA RecordStands ==
  ASSUME TypeOK, [Next]_vars
  PROVE  \A v \in Recorded : v \in Recorded' /\ published'[v] = published[v]
<1>1. ASSUME NEW b \in Builds, Publish(b)
      PROVE  \A v \in Recorded : v \in Recorded' /\ published'[v] = published[v]
  <2>1. build[b].next \in Versions
    BY <1>1 DEF Publish
  <2>2. CASE UNCHANGED published
    BY <2>2 DEF Recorded
  <2>3. CASE /\ \A w \in Recorded : w < build[b].next
             /\ published' = [published EXCEPT ![build[b].next] = build[b].shape]
    <3>1. build[b].next \notin Recorded
      BY <2>1, <2>3 DEF Recorded, Versions
    <3> QED
      BY <2>3, <3>1 DEF TypeOK, Recorded
  <2> QED
    BY <1>1, <2>2, <2>3 DEF Publish
<1>2. CASE UNCHANGED published
  BY <1>2 DEF Recorded
<1> QED
  BY <1>1, <1>2 DEF Next, Check, Write, Bump, PinAhead, Spoil, Repair, vars

LEMMA WrittenInductive == TypeOK /\ WrittenInv /\ [Next]_vars => WrittenInv'
<1> SUFFICES ASSUME TypeOK, WrittenInv, [Next]_vars, NEW r \in Readers
             PROVE  file'[r].written \in Recorded'
  BY DEF WrittenInv
<1>1. file'[r].written \in Recorded
  <2>1. CASE file' = file
    BY <2>1 DEF WrittenInv
  <2>2. ASSUME NEW q \in Readers,
               Write(q) \/ Bump(q) \/ PinAhead(q) \/ Spoil(q) \/ Repair(q)
        PROVE  file'[r].written \in Recorded
    BY <2>2 DEF Write, Bump, PinAhead, Spoil, Repair, TypeOK, File, Latest, WrittenInv
  <2> QED
    BY <2>1, <2>2 DEF Next, Check, Publish, vars
<1> QED
  BY <1>1, RecordStands

LEMMA CheckSees ==
  ASSUME TypeOK, WrittenInv, NEW shape \in Shapes, NEW v \in Versions, Latest(v),
         Report(shape, v).stage = "passed", NEW r \in Readers, file[r].form = "parses"
  PROVE  /\ file[r].pin \in Recorded
         /\ file[r].pin < v + 1
         /\ Serves(published[file[r].pin], published[file[r].written]) =>
              Serves(shape, published[file[r].written])
<1>1. Listed(r) /\ Judge(r, shape) = "BUMP"
  BY DEF Report, Listed
<1>2. published[file[r].pin] # {} /\ \A c \in Changes(published[file[r].pin], shape) : ~c.breaking
  BY <1>1 DEF Judge
<1>3. file[r].pin \in Versions
  BY DEF TypeOK, File
<1>4. file[r].pin \in Recorded /\ published[file[r].pin] \in Shapes
  BY <1>2, <1>3 DEF Recorded, TypeOK
<1>5. file[r].pin < v + 1
  BY <1>3, <1>4 DEF Latest, Versions
<1>6. Serves(shape, published[file[r].pin])
  BY <1>2, <1>4, UnbrokenServes
<1> QED
  BY <1>4, <1>5, <1>6, ServesTransitive

LEMMA SeenInductive == TypeOK /\ WrittenInv /\ SeenInv /\ [Next]_vars => SeenInv'
<1> SUFFICES ASSUME TypeOK, WrittenInv, SeenInv, [Next]_vars, NEW b \in Builds, NEW r \in Readers,
                    build'[b].stage \in {"passed", "released"},
                    build'[b].seen[r].form = "parses"
             PROVE  LET seen == build'[b].seen[r] IN
                    /\ seen.pin \in Recorded'
                    /\ seen.pin < build'[b].next
                    /\ seen.written \in Recorded'
                    /\ Serves(published'[seen.pin], published'[seen.written]) =>
                         Serves(build'[b].shape, published'[seen.written])
  BY DEF SeenInv
<1> DEFINE seen == build'[b].seen[r]
<1>1. /\ seen.pin \in Recorded
      /\ seen.pin < build'[b].next
      /\ seen.written \in Recorded
      /\ Serves(published[seen.pin], published[seen.written]) =>
           Serves(build'[b].shape, published[seen.written])
  <2>1. CASE /\ build[b].stage \in {"passed", "released"}
             /\ build'[b].shape = build[b].shape
             /\ build'[b].next = build[b].next
             /\ build'[b].seen = build[b].seen
    BY <2>1 DEF SeenInv
  <2>2. CASE Check(b)
    <3>1. PICK shape \in Shapes, v \in Versions :
            Latest(v) /\ build' = [build EXCEPT ![b] = Report(shape, v)]
      BY <2>2 DEF Check
    <3>2. build'[b] = Report(shape, v)
      BY <3>1 DEF TypeOK
    <3>3. /\ Report(shape, v).shape = shape
          /\ Report(shape, v).next = v + 1
          /\ Report(shape, v).seen = file
      BY DEF Report
    <3>4. seen = file[r]
      BY <3>2, <3>3
    <3>5. Report(shape, v).stage = "passed"
      BY <3>2 DEF Report
    <3>6. /\ file[r].form = "parses" /\ Latest(v) /\ file[r].written \in Recorded
          /\ build'[b].next = v + 1 /\ build'[b].shape = shape
      BY <3>1, <3>2, <3>3, <3>4 DEF WrittenInv
    <3> QED
      BY <3>4, <3>5, <3>6, CheckSees
  <2>3. ASSUME NEW c \in Builds, Check(c), c # b
        PROVE  build'[b] = build[b]
    BY <2>3 DEF Check, TypeOK
  <2>4. ASSUME NEW c \in Builds, Publish(c)
        PROVE  /\ build[b].stage \in {"passed", "released"}
               /\ build'[b].shape = build[b].shape
               /\ build'[b].next = build[b].next
               /\ build'[b].seen = build[b].seen
    BY <2>4 DEF Publish, TypeOK, Build
  <2>5. CASE build' = build
    BY <2>5, <2>1
  <2> QED
    BY <2>1, <2>2, <2>3, <2>4, <2>5 DEF Next, Write, Bump, PinAhead, Spoil, Repair, vars
<1>2. /\ published'[seen.pin] = published[seen.pin] /\ seen.pin \in Recorded'
      /\ published'[seen.written] = published[seen.written] /\ seen.written \in Recorded'
  BY <1>1, RecordStands
<1> QED
  BY <1>1, <1>2

\* consumers.py:17-19, for every number of builds, readers and versions: a release was
\* compared with the pin of every descriptor its check read, and serves whatever steps
\* that pin served, whoever edits, releases or moves pins between check and release.
THEOREM ReleasesServe == Spec => []ReleasesServeWhoTheySaw
<1>1. Init => WrittenInv /\ SeenInv
  <2> SUFFICES ASSUME Init PROVE WrittenInv /\ SeenInv
    OBVIOUS
  <2>1. 1 \in Recorded
    BY DEF Init, Recorded, Versions
  <2>2. \A r \in Readers : file[r].written = 1
    BY DEF Init
  <2>3. \A b \in Builds : build[b].stage = "waiting"
    BY DEF Init
  <2> QED
    BY <2>1, <2>2, <2>3 DEF WrittenInv, SeenInv
<1>2. SeenInv => ReleasesServeWhoTheySaw
  BY DEF SeenInv, ReleasesServeWhoTheySaw
<1> QED
  BY <1>1, <1>2, TypeCorrect, WrittenInductive, SeenInductive, PTL DEF Spec
=============================================================================
