--------------------------- MODULE ProvenanceProofs ---------------------------
(***************************************************************************)
(* Proofs about Provenance, for every set of places, every vocabulary and  *)
(* every number of changes, commits and events.                            *)
(*                                                                         *)
(* The vocabulary first.  A cached entry carries the modification time it  *)
(* was read under, no time lies ahead of the clock, and so a file that is  *)
(* written again can never match an entry read before.                     *)
(***************************************************************************)
EXTENDS Provenance, TLAPS

TimesInv ==
  /\ \A path \in Candidates : ontologies[path] # None => ontologies[path].mtime <= now
  /\ cache # None => cache \in [key : Candidates \X (0 .. now), words : Vocabularies]

\* A call has seen every word its file has had, and an entry it is about to be
\* served says one of them.
CallInv ==
  /\ call.at \in {"chosen", "stamped"} /\ ontologies[call.path] # None =>
       ontologies[call.path].words \in call.held
  /\ call.at = "stamped" =>
       /\ call.mtime <= now
       /\ cache # None /\ cache.key = Key(call.path, call.mtime) => cache.words \in call.held
  /\ VocabularyIsCurrent

PolicyInv == PolicyTypeOK /\ TimesInv /\ CacheIsOfItsTime /\ CallInv

\* What a step of Provenance does to the vocabulary.
PolicyStep ==
  \/ Choose \/ Stamp \/ Load \/ Govern \/ Restart
  \/ call' = NoCall /\ UNCHANGED <<ontologies, now, cache>>
  \/ Move /\ UNCHANGED <<ontologies, cache, call>>
  \/ UNCHANGED policyVars

LEMMA NoneIsNothing ==
  /\ MaxMoves \in Nat
  /\ None \notin Vocabularies
BY PolicyAssumption DEF PolicyAssumption

LEMMA PathsAreCandidates == ontology_path \in Candidates
BY PolicyAssumption DEF ontology_path, Candidates

LEMMA PolicyStarts == PolicyInit => PolicyInv
<1> SUFFICES ASSUME PolicyInit PROVE PolicyInv
  OBVIOUS
<1> USE NoneIsNothing DEF PolicyInit, File
<1>1. call \in Calls
  BY DEF NoCall, Calls, Candidates
<1>2. ontologies \in [Candidates -> File \cup {None}]
  <2>1. {[mtime |-> 0, words |-> v] : v \in Vocabularies} \subseteq File
    OBVIOUS
  <2> QED BY <2>1
<1>3. \A path \in Candidates : ontologies[path] # None => ontologies[path].mtime <= now
  OBVIOUS
<1>4. call.at = "idle"
  BY DEF NoCall
<1> QED
  BY <1>1, <1>2, <1>3, <1>4 DEF PolicyInv, PolicyTypeOK, TimesInv, CacheIsOfItsTime, CallInv,
     VocabularyIsCurrent

\* The cached vocabulary of a run is current after every step.
LEMMA PolicyKeeps == PolicyInv /\ PolicyStep => PolicyInv'
<1> SUFFICES ASSUME PolicyInv, PolicyStep PROVE PolicyInv'
  OBVIOUS
<1> USE NoneIsNothing, PathsAreCandidates
<1> DEFINE Types ==
      /\ ontologies \in [Candidates -> File \cup {None}]
      /\ now \in 0 .. MaxMoves
      /\ cache = None \/ cache.words \in Vocabularies
      /\ call \in Calls
<1>0. Types
  BY DEF PolicyInv, PolicyTypeOK
<1>1. CASE Choose
  <2>1. Types'
    BY <1>0, <1>1 DEF Choose, Calls, Said, File
  <2>2. TimesInv' /\ CacheIsOfItsTime'
    BY <1>1 DEF Choose, PolicyInv, TimesInv, CacheIsOfItsTime
  <2>3. CallInv'
    BY <1>0, <1>1 DEF Choose, Calls, Said, CallInv, VocabularyIsCurrent
  <2> QED BY <2>1, <2>2, <2>3 DEF PolicyInv, PolicyTypeOK
<1>2. CASE Stamp
  <2> DEFINE file == ontologies[call.path]
  <2>1. file \in File \cup {None} /\ call.path \in Candidates
    BY <1>0 DEF Calls
  <2>2. Types'
    BY <1>0, <1>2, <2>1 DEF Stamp, Calls, File
  <2>3. TimesInv' /\ CacheIsOfItsTime'
    BY <1>2 DEF Stamp, PolicyInv, TimesInv, CacheIsOfItsTime
  <2>4. CASE file = None
    <3>1. call' = [call EXCEPT !.at = "missing"] /\ UNCHANGED <<ontologies, now, cache>>
      BY <1>2, <2>4 DEF Stamp
    <3>2. CallInv'
      BY <1>0, <3>1 DEF Calls, CallInv, VocabularyIsCurrent
    <3> QED BY <2>2, <2>3, <3>2 DEF PolicyInv, PolicyTypeOK
  <2>5. CASE file # None
    <3>1. file.words \in call.held /\ file.mtime <= now
      BY <1>2, <2>1, <2>5 DEF Stamp, PolicyInv, CallInv, TimesInv
    <3>2. cache # None /\ cache.key = Key(call.path, file.mtime) => cache.words = file.words
      BY <2>1, <2>5 DEF PolicyInv, CacheIsOfItsTime
    <3>3. call' = [call EXCEPT !.at = "stamped", !.mtime = file.mtime]
          /\ UNCHANGED <<ontologies, now, cache>>
      BY <1>2, <2>5 DEF Stamp
    <3>4. CallInv'
      BY <1>0, <3>1, <3>2, <3>3 DEF Calls, CallInv, VocabularyIsCurrent
    <3> QED BY <2>2, <2>3, <3>4 DEF PolicyInv, PolicyTypeOK
  <2> QED BY <2>2, <2>3, <2>4, <2>5 DEF PolicyInv, PolicyTypeOK
<1>3. CASE Load
  <2> DEFINE file == ontologies[call.path]
             key == Key(call.path, call.mtime)
             hit == cache # None /\ cache.key = key
             words == IF hit THEN cache.words ELSE IF file = None THEN None ELSE file.words
  <2>1. /\ call.at = "stamped"
        /\ call' = [call EXCEPT !.at = IF words = None THEN "missing" ELSE "answered",
                                !.words = words]
        /\ cache' = IF words = None THEN cache ELSE [key |-> key, words |-> words]
        /\ UNCHANGED <<ontologies, now>>
    BY <1>3 DEF Load
  <2>2. file \in File \cup {None} /\ call.path \in Candidates /\ call.mtime \in 0 .. now
    BY <1>0, <2>1 DEF Calls, PolicyInv, CallInv
  <2>3. words \in call.held \cup {None} /\ words \in Vocabularies \cup {None}
    BY <1>0, <2>1, <2>2 DEF PolicyInv, CallInv, File
  <2>4. key \in Candidates \X (0 .. now)
    BY <2>2 DEF Key
  <2> HIDE DEF key, words
  <2>5. Types'
    BY <1>0, <2>1, <2>3 DEF Calls
  <2>6. TimesInv'
    BY <2>1, <2>3, <2>4 DEF PolicyInv, TimesInv
  <2>7. CacheIsOfItsTime'
    <3>1. CASE words = None
      BY <2>1, <3>1 DEF PolicyInv, CacheIsOfItsTime
    <3>2. CASE words # None
      <4> SUFFICES ASSUME NEW path \in Candidates, ontologies[path] # None,
                          key = Key(path, ontologies[path].mtime)
                   PROVE  words = ontologies[path].words
        BY <2>1, <3>2 DEF CacheIsOfItsTime
      <4>1. path = call.path /\ call.mtime = file.mtime
        BY DEF key, Key
      <4>2. CASE hit
        BY <4>1, <4>2, <2>2 DEF words, key, PolicyInv, CacheIsOfItsTime
      <4>3. CASE ~hit
        BY <4>1, <4>3, <3>2 DEF words
      <4> QED BY <4>2, <4>3
    <3> QED BY <3>1, <3>2
  <2>8. CallInv'
    BY <1>0, <2>1, <2>3 DEF Calls, CallInv, VocabularyIsCurrent
  <2> QED BY <2>5, <2>6, <2>7, <2>8 DEF PolicyInv, PolicyTypeOK
<1>4. CASE Govern
  <2>1. PICK path \in Candidates, words \in Vocabularies \cup {None} :
          LET file == IF words = None THEN None ELSE [mtime |-> now + 1, words |-> words] IN
          /\ ontologies' = [ontologies EXCEPT ![path] = file]
          /\ call' = IF path = call.path /\ call.at # "idle"
                     THEN [call EXCEPT !.held = @ \cup Said(file)] ELSE call
    BY <1>4 DEF Govern
  <2> DEFINE file == IF words = None THEN None ELSE [mtime |-> now + 1, words |-> words]
  <2>2. now < MaxMoves /\ now' = now + 1 /\ cache' = cache
    BY <1>4 DEF Govern, Move
  <2>3. file \in File \cup {None} /\ (file # None => file.mtime = now' /\ file.words = words)
    BY <1>0, <2>2 DEF File
  <2>4. Said(file) \subseteq Vocabularies /\ (file # None => words \in Said(file))
    BY <2>3 DEF Said, File
  <2>5. ontologies' = [ontologies EXCEPT ![path] = file]
        /\ call' = IF path = call.path /\ call.at # "idle"
                   THEN [call EXCEPT !.held = @ \cup Said(file)] ELSE call
    BY <2>1
  <2> HIDE DEF file
  <2>6. call' \in Calls /\ call'.at = call.at /\ call'.path = call.path
        /\ call'.mtime = call.mtime /\ call'.words = call.words /\ call.held \subseteq call'.held
        /\ (path = call.path /\ call.at # "idle" => Said(file) \subseteq call'.held)
    BY <1>0, <2>4, <2>5 DEF Calls
  <2>7. Types'
    BY <1>0, <2>2, <2>3, <2>5, <2>6
  <2>8. TimesInv'
    <3>1. \A q \in Candidates : ontologies'[q] # None => ontologies'[q].mtime <= now'
      BY <1>0, <2>2, <2>3, <2>5 DEF PolicyInv, TimesInv, File
    <3>2. cache # None => cache \in [key : Candidates \X (0 .. now'), words : Vocabularies]
      BY <1>0, <2>2 DEF PolicyInv, TimesInv
    <3> QED BY <2>2, <3>1, <3>2 DEF TimesInv
  <2>9. CacheIsOfItsTime'
    <3> SUFFICES ASSUME cache # None, NEW q \in Candidates, ontologies'[q] # None,
                        cache.key = Key(q, ontologies'[q].mtime)
                 PROVE  cache.words = ontologies'[q].words
      BY <2>2 DEF CacheIsOfItsTime
    <3>1. cache.key[2] <= now /\ cache.key[2] = ontologies'[q].mtime
      BY <1>0 DEF PolicyInv, TimesInv, Key
    <3>2. q # path
      BY <1>0, <2>2, <2>3, <2>5, <3>1
    <3>3. ontologies'[q] = ontologies[q]
      BY <1>0, <2>5, <3>2
    <3> QED BY <3>3 DEF PolicyInv, CacheIsOfItsTime
  <2>10. CallInv'
    <3>1. call.at \in {"chosen", "stamped"} /\ ontologies'[call.path] # None =>
            ontologies'[call.path].words \in call'.held
      BY <1>0, <2>3, <2>4, <2>5, <2>6 DEF PolicyInv, CallInv, Calls
    <3> QED BY <1>0, <2>2, <2>6, <3>1 DEF PolicyInv, CallInv, VocabularyIsCurrent, Calls
  <2> QED BY <2>7, <2>8, <2>9, <2>10 DEF PolicyInv, PolicyTypeOK
<1>5. CASE Restart
  BY <1>0, <1>5 DEF Restart, PolicyInv, PolicyTypeOK, TimesInv, CacheIsOfItsTime, CallInv,
     VocabularyIsCurrent
<1>6. CASE call' = NoCall /\ UNCHANGED <<ontologies, now, cache>>
  BY <1>0, <1>6, PolicyAssumption DEF NoCall, Calls, Candidates, PolicyInv, PolicyTypeOK,
     TimesInv, CacheIsOfItsTime, CallInv, VocabularyIsCurrent
<1>7. CASE Move /\ UNCHANGED <<ontologies, cache, call>>
  <2>1. now' = now + 1 /\ now' \in 0 .. MaxMoves
    BY <1>0, <1>7 DEF Move
  <2>2. Types' /\ CacheIsOfItsTime'
    BY <1>0, <1>7, <2>1 DEF PolicyInv, CacheIsOfItsTime
  <2>3. TimesInv'
    BY <1>0, <1>7, <2>1 DEF PolicyInv, TimesInv, File
  <2>4. CallInv'
    BY <1>0, <1>7, <2>1 DEF PolicyInv, CallInv, VocabularyIsCurrent, Calls
  <2> QED BY <2>2, <2>3, <2>4 DEF PolicyInv, PolicyTypeOK
<1>8. CASE UNCHANGED policyVars
  BY <1>8 DEF policyVars, PolicyInv, PolicyTypeOK, TimesInv, CacheIsOfItsTime, CallInv,
     VocabularyIsCurrent
<1> QED
  BY <1>1, <1>2, <1>3, <1>4, <1>5, <1>6, <1>7, <1>8 DEF PolicyStep

-----------------------------------------------------------------------------
(***************************************************************************)
(* The event next.  The commit a clone names holds what its head holds,    *)
(* commits are only ever added, and who gives the file other bytes before  *)
(* it is hashed is seen to.                                                *)
(***************************************************************************)

HistoryInv ==
  /\ history \in Seq(Commits)
  /\ head \in [Clones -> 1 .. Len(history)]
  /\ bytes \in [Places -> Contents \cup {None}]
  /\ \A n \in 1 .. Len(history) :
       history[n].last \in 1 .. n /\ history[history[n].last].bytes = history[n].bytes

\* What an event says of a commit is so, in this history and in every longer one.
Truthful(h, r) ==
  /\ r.commit \in 1 .. Len(h) \cup {None}
  /\ r.signed = IF r.commit = None THEN None ELSE h[r.commit].signed
  /\ r.commit # None => r.place \in Clones
  /\ r.location # None =>
       /\ r.commit # None
       /\ r.location.url # None /\ r.location.url = _normalize_remote(Origin[r.place])

RightName(r) == r.heard => r.path = Name(r.place, r.place \in Clones)

Held(h, r, b) == r.clean /\ r.commit # None => h[r.commit].bytes = b

Out(h, rs) == \A r \in rs : Truthful(h, r) /\ RightName(r) /\ Held(h, r, r.sha) /\ r.sha # None

EventInv ==
  /\ report \in Report
  /\ step \in {"idle", "resolve", "log", "locate", "hash", "root", "remote"}
  /\ step # "idle" => Truthful(history, report) /\ report.location = None
  /\ step \in {"locate", "hash"} => Held(history, report, bytes[report.place])
  /\ step \in {"hash", "root", "remote"} => RightName(report)
  /\ step \in {"root", "remote"} => Held(history, report, report.sha) /\ report.sha # None
  /\ step = "remote" => report.commit # None
  /\ reports \subseteq Report
  /\ Out(history, reports)

IInv == PolicyInv /\ HistoryInv /\ EventInv

LEMMA Parameters ==
  /\ None \notin Contents /\ None \notin BOOLEAN /\ None \notin Nat
  /\ MaxCommits \in Nat \ {0}
  /\ Clones \subseteq Places /\ Places # {}
  /\ \A p \in Clones : Kind[p] # "top"
BY ProvenanceAssumption DEF ProvenanceAssumption, Clones

LEMMA BlankReport ==
  ASSUME NEW p \in Places
  PROVE  /\ Blank(p) \in Report /\ Blank(p).location = None /\ Blank(p).place = p
         /\ Truthful(history, Blank(p))
BY Parameters DEF Blank, Report, Truthful

LEMMA Starts == Init => IInv
<1> SUFFICES ASSUME Init PROVE IInv
  OBVIOUS
<1>1. PolicyInv
  BY PolicyStarts DEF Init
<1>2. PICK b \in Contents, s \in BOOLEAN : history = <<[bytes |-> b, last |-> 1, signed |-> s]>>
  BY DEF Init
<1>3. HistoryInv
  <2>1. Len(history) = 1 /\ history \in Seq(Commits) /\ history[1].bytes = b /\ history[1].last = 1
    BY <1>2 DEF Commits
  <2> QED BY <2>1 DEF Init, HistoryInv
<1>4. EventInv
  BY Parameters, BlankReport DEF Init, EventInv, Out
<1> QED BY <1>1, <1>3, <1>4 DEF IInv

LEMMA StepsOfThePolicy == IInv /\ [Next]_vars => PolicyStep
<1> SUFFICES ASSUME [Next]_vars PROVE PolicyStep
  OBVIOUS
<1> USE DEF PolicyStep
<1>1. ASSUME NEW p \in Places, Start(p) \/ Edit(p) \/ Commit(p) \/ Checkout(p)
      PROVE  PolicyStep
  BY <1>1 DEF Start, Edit, Commit, Checkout, Quiet
<1>2. CASE Run
  BY <1>2 DEF Run, Vocabulary, Resolved, Hash, GitLog, Locate, Root, Remote
<1>3. CASE Restart \/ Govern
  BY <1>3
<1>4. CASE UNCHANGED vars
  BY <1>4 DEF vars
<1> QED BY <1>1, <1>2, <1>3, <1>4 DEF Next

\* A longer history says the same of what the shorter one held.
Extends(h, k) ==
  /\ Len(h) \in Nat /\ Len(k) \in Nat /\ Len(h) <= Len(k)
  /\ \A n \in 1 .. Len(h) : k[n] = h[n]

Grows == Extends(history, history')

LEMMA HistoryKeeps == IInv /\ [Next]_vars => HistoryInv' /\ Grows
<1> SUFFICES ASSUME IInv, [Next]_vars PROVE HistoryInv' /\ Grows
  OBVIOUS
<1> USE Parameters
<1>0. HistoryInv
  BY DEF IInv
<1>1. ASSUME NEW p \in Places, Edit(p) PROVE HistoryInv' /\ Grows
  BY <1>0, <1>1 DEF Edit, HistoryInv, Grows, Extends
<1>2. ASSUME NEW p \in Places, Commit(p) PROVE HistoryInv' /\ Grows
  <2>1. p \in Clones /\ head[p] = Len(history) /\ Len(history) \in Nat \ {0}
    BY <1>0, <1>2 DEF Commit, Clones, HistoryInv
  <2>2. PICK b \in {bytes[p], history[head[p]].bytes} \ {None}, s \in BOOLEAN :
          history' = Append(history,
                       [bytes |-> b, signed |-> s,
                        last |-> IF b = history[head[p]].bytes THEN history[head[p]].last
                                 ELSE Len(history) + 1])
    BY <1>2 DEF Commit
  <2> DEFINE tip == history[head[p]]
             c == [bytes |-> b, signed |-> s,
                   last |-> IF b = tip.bytes THEN tip.last ELSE Len(history) + 1]
  <2>3. tip \in Commits /\ tip.last \in 1 .. Len(history) /\ history[tip.last].bytes = tip.bytes
    BY <1>0, <2>1 DEF HistoryInv
  <2>4. b \in Contents
    BY <1>0, <2>3 DEF HistoryInv, Commits
  <2>5. c \in Commits /\ c.bytes = b
        /\ c.last = IF b = tip.bytes THEN tip.last ELSE Len(history) + 1
    BY <2>1, <2>3, <2>4 DEF Commits
  <2>6. history' = Append(history, c)
    BY <2>2
  <2> HIDE DEF c, tip
  <2>7. /\ history' \in Seq(Commits) /\ Len(history') = Len(history) + 1
        /\ history'[Len(history) + 1] = c
        /\ \A n \in 1 .. Len(history) : history'[n] = history[n]
    BY <1>0, <2>5, <2>6 DEF HistoryInv
  <2>8. Grows
    BY <2>1, <2>7 DEF Grows, Extends
  <2>9. ASSUME NEW n \in 1 .. Len(history')
        PROVE  history'[n].last \in 1 .. n /\ history'[history'[n].last].bytes = history'[n].bytes
    <3>1. CASE n \in 1 .. Len(history)
      <4>1. history[n].last \in 1 .. n /\ history[n].last \in 1 .. Len(history)
        BY <1>0, <2>1, <3>1 DEF HistoryInv
      <4> QED BY <1>0, <2>1, <2>7, <3>1, <4>1 DEF HistoryInv
    <3>2. CASE n = Len(history) + 1
      BY <2>1, <2>3, <2>5, <2>7, <3>2
    <3> QED BY <2>1, <2>7, <2>9, <3>1, <3>2
  <2>10. head' \in [Clones -> 1 .. Len(history')] /\ bytes' = bytes
    <3>1. head' = [head EXCEPT ![p] = Len(history')] /\ bytes' = bytes
      BY <1>2 DEF Commit
    <3> QED BY <1>0, <2>1, <2>7, <3>1 DEF HistoryInv
  <2> QED BY <1>0, <2>7, <2>8, <2>9, <2>10 DEF HistoryInv
<1>3. ASSUME NEW p \in Places, Checkout(p) PROVE HistoryInv' /\ Grows
  <2>1. PICK n \in 1 .. Len(history) :
          head' = [head EXCEPT ![p] = n] /\ bytes' = [bytes EXCEPT ![p] = history[n].bytes]
    BY <1>3 DEF Checkout
  <2>2. history[n] \in Commits
    BY <1>0 DEF HistoryInv
  <2>3. history[n].bytes \in Contents /\ history' = history
    BY <1>3, <2>2 DEF Commits, Checkout
  <2>4. head' \in [Clones -> 1 .. Len(history)] /\ bytes' \in [Places -> Contents \cup {None}]
    BY <1>0, <2>1, <2>3 DEF HistoryInv
  <2> QED BY <1>0, <2>3, <2>4 DEF HistoryInv, Grows, Extends
<1>4. CASE UNCHANGED <<history, head, bytes>>
  BY <1>0, <1>4 DEF HistoryInv, Grows, Extends
<1>5. \/ UNCHANGED <<history, head, bytes>>
      \/ \E p \in Places : Edit(p) \/ Commit(p) \/ Checkout(p)
  BY DEF Next, Run, Vocabulary, Resolved, Hash, GitLog, Locate, Root, Remote, Start, provVars, vars
<1> QED BY <1>1, <1>2, <1>3, <1>4, <1>5

LEMMA TruthStays ==
  ASSUME NEW h, NEW k, NEW r, Extends(h, k), Truthful(h, r)
  PROVE  Truthful(k, r) /\ \A b : Held(h, r, b) => Held(k, r, b)
BY DEF Extends, Truthful, Held

\* The commit git names holds what the head of that clone holds.
LEMMA LastTouchedHolds ==
  ASSUME HistoryInv, NEW p \in Clones
  PROVE  /\ LastTouched(p) \in 1 .. Len(history)
         /\ history[LastTouched(p)].bytes = history[head[p]].bytes
         /\ history[LastTouched(p)].signed \in BOOLEAN
<1>1. head[p] \in 1 .. Len(history) /\ Len(history) \in Nat
  BY DEF HistoryInv
<1>2. history[head[p]].last \in 1 .. head[p]
      /\ history[history[head[p]].last].bytes = history[head[p]].bytes
  BY <1>1 DEF HistoryInv
<1>3. LastTouched(p) \in 1 .. Len(history)
      /\ history[LastTouched(p)].bytes = history[head[p]].bytes
  BY <1>1, <1>2 DEF LastTouched
<1>4. history[LastTouched(p)] \in Commits
  BY <1>1, <1>3 DEF HistoryInv
<1> QED BY <1>3, <1>4 DEF Commits

\* The events that are out stay true.
LEMMA OutStays ==
  ASSUME NEW h, NEW k, NEW rs, Extends(h, k), Out(h, rs)
  PROVE  Out(k, rs)
BY TruthStays DEF Out

\* Somebody else's step: the file may have changed, and then the event is not clean.
LEMMA OthersKeepEvents ==
  ASSUME IInv, HistoryInv', Grows, NEW p \in Places, Edit(p) \/ Commit(p) \/ Checkout(p)
  PROVE  EventInv'
<1> USE Parameters
<1> DEFINE b == bytes[report.place]
<1>0. EventInv /\ HistoryInv
  BY DEF IInv
<1>1. /\ UNCHANGED <<step, reports>>
      /\ \/ report' = [report EXCEPT !.clean = FALSE]
         \/ report' = report /\ (step \in {"locate", "hash"} => b' = b)
  BY DEF Edit, Commit, Checkout, Quiet, Disturbed
<1>2. Out(history', reports)
  BY <1>0, OutStays DEF Grows, EventInv
<1>3. CASE report' = [report EXCEPT !.clean = FALSE]
  <2>1. /\ report' \in Report /\ ~report'.clean
        /\ report'.commit = report.commit /\ report'.signed = report.signed
        /\ report'.location = report.location /\ report'.path = report.path
        /\ report'.heard = report.heard /\ report'.place = report.place
        /\ report'.sha = report.sha
    BY <1>0, <1>3 DEF EventInv, Report
  <2>2. Truthful(history, report) => Truthful(history', report')
    <3>1. Truthful(history, report) => Truthful(history', report)
      BY TruthStays DEF Grows
    <3> QED BY <2>1, <3>1 DEF Truthful
  <2>3. (RightName(report) => RightName(report')) /\ \A c : Held(history', report', c)
    BY <2>1 DEF RightName, Held
  <2> QED BY <1>0, <1>1, <1>2, <2>1, <2>2, <2>3 DEF EventInv
<1>4. CASE report' = report /\ (step \in {"locate", "hash"} => b' = b)
  <2>1. Truthful(history, report) => Truthful(history', report)
    BY TruthStays DEF Grows
  <2>2. \A c : Truthful(history, report) /\ Held(history, report, c) => Held(history', report, c)
    BY TruthStays DEF Grows
  <2> QED BY <1>0, <1>1, <1>2, <1>4, <2>1, <2>2 DEF EventInv, RightName
<1> QED BY <1>1, <1>3, <1>4

\* What a git call that is not answered leaves of the event.
LEMMA AsleepReport ==
  ASSUME NEW r \in Report, NEW answered \in BOOLEAN
  PROVE  /\ Asleep(r, answered) \in Report
         /\ Asleep(r, answered) = [r EXCEPT !.heard = r.heard /\ answered]
         /\ Asleep(r, answered).heard = (r.heard /\ answered)
         /\ Asleep(r, answered).place = r.place /\ Asleep(r, answered).commit = r.commit
         /\ Asleep(r, answered).signed = r.signed /\ Asleep(r, answered).path = r.path
         /\ Asleep(r, answered).sha = r.sha /\ Asleep(r, answered).location = r.location
         /\ Asleep(r, answered).clean = r.clean
BY DEF Asleep, Report

LEMMA GitLogKeepsEvents ==
  ASSUME IInv, NEW answered \in BOOLEAN, GitLog(answered)
  PROVE  EventInv'
<1> USE Parameters
<1>0. EventInv /\ HistoryInv /\ UNCHANGED <<history, head, bytes, reports>>
  BY DEF IInv, GitLog, provVars
<1> DEFINE p == report.place
           found == _git_provenance(p, answered)
           s == Asleep(report, answered)
<1>1. p \in Places /\ Truthful(history, report) /\ report.location = None
  BY <1>0 DEF GitLog, EventInv, Report
<1>2. CASE answered /\ p \in Clones
  <2>1. /\ found.commit \in 1 .. Len(history) /\ found.signed = history[found.commit].signed
        /\ found.signed \in BOOLEAN
        /\ history[found.commit].bytes = history[head[p]].bytes
    BY <1>0, <1>2, LastTouchedHolds DEF _git_provenance
  <2> HIDE DEF found, s
  <2>2. report' = [s EXCEPT !.commit = found.commit, !.signed = found.signed,
                            !.clean = AsCommitted(p)]
    BY DEF GitLog, found, s
  <2>3. s \in Report /\ s.location = None /\ s.place = p
    BY <1>0, <1>1, AsleepReport DEF EventInv, s
  <2>4. found.commit \in Nat /\ AsCommitted(p) \in BOOLEAN
    BY <1>0, <2>1 DEF HistoryInv, AsCommitted
  <2>5. /\ report' \in Report /\ report'.location = None /\ report'.place = p
        /\ report'.commit = found.commit /\ report'.signed = found.signed
        /\ report'.clean = AsCommitted(p)
    BY <2>1, <2>2, <2>3, <2>4 DEF Report
  <2>6. Truthful(history, report')
    BY <1>2, <2>1, <2>4, <2>5 DEF Truthful
  <2>7. Held(history, report', bytes[p])
    BY <2>1, <2>5 DEF Held, AsCommitted
  <2> QED BY <1>0, <2>5, <2>6, <2>7 DEF GitLog, EventInv
<1>3. CASE ~(answered /\ p \in Clones)
  <2>1. found.commit = None /\ found.signed = None
    BY <1>3 DEF _git_provenance
  <2> HIDE DEF found, s
  <2>2. report' = [s EXCEPT !.commit = found.commit, !.signed = found.signed,
                            !.clean = AsCommitted(p)]
    BY DEF GitLog, found, s
  <2>3. s \in Report /\ s.location = None /\ s.place = p
    BY <1>0, <1>1, AsleepReport DEF EventInv, s
  <2>4. AsCommitted(p) \in BOOLEAN
    BY DEF AsCommitted
  <2>5. /\ report' \in Report /\ report'.location = None /\ report'.place = p
        /\ report'.commit = None /\ report'.signed = None
    BY <2>1, <2>2, <2>3, <2>4 DEF Report
  <2> QED BY <1>0, <2>5 DEF GitLog, EventInv, Truthful, Held
<1> QED BY <1>2, <1>3

LEMMA LocateKeepsEvents ==
  ASSUME IInv, NEW answered \in BOOLEAN, Locate(answered)
  PROVE  EventInv'
<1> USE Parameters
<1>0. EventInv /\ UNCHANGED <<history, head, bytes, reports>> /\ step = "locate" /\ step' = "hash"
  BY DEF IInv, Locate, provVars
<1> DEFINE p == report.place
           s == Asleep(report, answered)
           name == Name(p, WorkTree(p, answered))
<1>1. s \in Report /\ s.heard = (report.heard /\ answered) /\ s.place = p
      /\ s.commit = report.commit /\ s.signed = report.signed /\ s.location = report.location
      /\ s.clean = report.clean
  BY <1>0, AsleepReport DEF EventInv
<1>2. name \in Names /\ (answered => name = Name(p, p \in Clones))
  BY DEF Name, Names, WorkTree
<1>3. report' = [s EXCEPT !.path = name]
  BY DEF Locate
<1> HIDE DEF s, name
<1>4. /\ report' \in Report /\ report'.path = name /\ report'.place = p
      /\ report'.heard = (report.heard /\ answered)
      /\ report'.commit = report.commit /\ report'.signed = report.signed
      /\ report'.location = report.location /\ report'.clean = report.clean
  BY <1>1, <1>2, <1>3 DEF Report
<1>5. Truthful(history, report') /\ report'.location = None /\ RightName(report')
      /\ Held(history, report', bytes[p])
  BY <1>0, <1>2, <1>4 DEF EventInv, Truthful, RightName, Held
<1> QED BY <1>0, <1>4, <1>5 DEF EventInv

LEMMA HashKeepsEvents == IInv /\ Hash => EventInv'
<1> SUFFICES ASSUME IInv, Hash PROVE EventInv'
  OBVIOUS
<1> USE Parameters
<1>0. EventInv /\ HistoryInv /\ UNCHANGED <<history, head, bytes, reports>> /\ step = "hash"
  BY DEF IInv, Hash, provVars
<1> DEFINE b == bytes[report.place]
<1>1. CASE b = None
  BY <1>0, <1>1 DEF Hash, EventInv
<1>2. CASE b # None
  <2>1. b \in Contents
    BY <1>0, <1>2 DEF HistoryInv, EventInv, Report
  <2>2. report' = [report EXCEPT !.sha = b] /\ step' = "root"
    BY <1>2 DEF Hash
  <2> HIDE DEF b
  <2>3. /\ report' \in Report /\ report'.sha = b /\ report'.place = report.place
        /\ report'.commit = report.commit /\ report'.signed = report.signed
        /\ report'.location = report.location /\ report'.path = report.path
        /\ report'.clean = report.clean /\ report'.heard = report.heard
    BY <1>0, <2>1, <2>2 DEF EventInv, Report
  <2>4. Held(history, report, b)
    BY <1>0 DEF EventInv, b
  <2> QED BY <1>0, <1>2, <2>1, <2>2, <2>3, <2>4 DEF EventInv, Truthful, RightName, Held
<1> QED BY <1>1, <1>2

\* An event that is all it should be may go out.
Ready(r) ==
  r \in Report /\ Truthful(history, r) /\ RightName(r) /\ Held(history, r, r.sha) /\ r.sha # None

LEMMA EmitKeepsEvents ==
  ASSUME IInv, NEW r, Ready(r), Emit(r), UNCHANGED <<history, head, bytes>>
  PROVE  EventInv'
BY DEF IInv, EventInv, Emit, Ready, Out

LEMMA AsleepIsReady ==
  ASSUME IInv, step \in {"root", "remote"}, NEW answered \in BOOLEAN
  PROVE  Ready(Asleep(report, answered)) /\ Asleep(report, answered).location = None
<1>1. EventInv
  BY DEF IInv
<1> QED BY <1>1, AsleepReport DEF EventInv, Ready, Truthful, RightName, Held

LEMMA RootKeepsEvents ==
  ASSUME IInv, NEW answered \in BOOLEAN, Root(answered)
  PROVE  EventInv'
<1> DEFINE r == Asleep(report, answered)
<1>1. Ready(r) /\ r.location = None /\ UNCHANGED <<history, head, bytes>> /\ EventInv
  BY AsleepIsReady DEF Root, IInv
<1>2. \/ Emit(r)
      \/ report' = r /\ step' = "remote" /\ r.commit # None /\ UNCHANGED reports
  <2>1. CASE WorkTree(r.place, answered) /\ r.commit # None
    BY <2>1 DEF Root
  <2>2. CASE ~(WorkTree(r.place, answered) /\ r.commit # None)
    BY <2>2 DEF Root
  <2> QED BY <2>1, <2>2
<1> HIDE DEF r
<1>3. CASE Emit(r)
  BY <1>1, <1>3, EmitKeepsEvents
<1>4. CASE report' = r /\ step' = "remote" /\ r.commit # None /\ UNCHANGED reports
  BY <1>1, <1>4 DEF Ready, EventInv
<1> QED BY <1>2, <1>3, <1>4

LEMMA RemoteKeepsEvents ==
  ASSUME IInv, NEW answered \in BOOLEAN, Remote(answered)
  PROVE  EventInv'
<1> USE Parameters
<1> DEFINE r == Asleep(report, answered)
           url == IF answered THEN _normalize_remote(Origin[r.place]) ELSE None
<1>1. Ready(r) /\ r.location = None /\ UNCHANGED <<history, head, bytes>> /\ r.commit # None
  BY AsleepIsReady, AsleepReport DEF Remote, IInv, EventInv
<1>2. Emit(IF url = None THEN r ELSE [r EXCEPT !.location = Location(r, url)])
  BY DEF Remote
<1>3. url \in Url \cup {None} /\ (url # None => url = _normalize_remote(Origin[r.place]))
  <2>1. Origin[r.place] \in [scheme : Schemes, port : Ports, secret : BOOLEAN]
    BY <1>1, ProvenanceAssumption DEF ProvenanceAssumption, Ready, Report
  <2>2. _normalize_remote(Origin[r.place]) \in Url \cup {None}
    BY <2>1 DEF _normalize_remote, Located, Url, Ports
  <2> QED BY <2>2
<1> HIDE DEF r, url
<1>4. CASE url = None
  BY <1>1, <1>2, <1>4, EmitKeepsEvents
<1>5. CASE url # None
  <2> DEFINE s == [r EXCEPT !.location = Location(r, url)]
  <2>1. r \in Report /\ url \in Url
    BY <1>1, <1>3, <1>5 DEF Ready
  <2>2. Location(r, url) \in [url : Url, path : Names \cup {None}, version : Nat \cup {None}]
    BY <2>1 DEF Location, Report
  <2>3. /\ s \in Report /\ s.location = Location(r, url)
        /\ s.place = r.place /\ s.commit = r.commit /\ s.signed = r.signed /\ s.path = r.path
        /\ s.sha = r.sha /\ s.clean = r.clean /\ s.heard = r.heard
    BY <2>1, <2>2 DEF Report
  <2>4. Ready(s)
    BY <1>1, <1>3, <1>5, <2>3 DEF Ready, Truthful, RightName, Held, Location
  <2>5. Emit(s)
    BY <1>2, <1>5
  <2> HIDE DEF s
  <2> QED BY <1>1, <2>4, <2>5, EmitKeepsEvents
<1> QED BY <1>4, <1>5

LEMMA EventsKeep == IInv /\ HistoryInv' /\ Grows /\ [Next]_vars => EventInv'
<1> SUFFICES ASSUME IInv, HistoryInv', Grows, [Next]_vars PROVE EventInv'
  OBVIOUS
<1>0. EventInv
  BY DEF IInv
<1>1. ASSUME NEW p \in Places, Start(p) PROVE EventInv'
  BY <1>0, <1>1, BlankReport, Parameters DEF Start, provVars, EventInv
<1>2. ASSUME NEW p \in Places, Edit(p) \/ Commit(p) \/ Checkout(p) PROVE EventInv'
  BY <1>2, OthersKeepEvents
<1>3. CASE \/ Vocabulary \/ UNCHANGED vars
           \/ (Restart \/ Govern) /\ UNCHANGED <<step, report, provVars>>
  BY <1>0, <1>3 DEF Vocabulary, provVars, vars, EventInv
<1>4. CASE Resolved
  BY <1>0, <1>4 DEF Resolved, provVars, EventInv
<1>5. ASSUME NEW answered \in BOOLEAN,
             GitLog(answered) \/ Locate(answered) \/ Root(answered) \/ Remote(answered)
      PROVE  EventInv'
  BY <1>5, GitLogKeepsEvents, LocateKeepsEvents, RootKeepsEvents, RemoteKeepsEvents
<1>6. CASE Hash
  BY <1>6, HashKeepsEvents
<1>7. CASE Run
  <2>1. CASE Vocabulary \/ Resolved \/ Hash
    BY <1>3, <1>4, <1>6, <2>1
  <2>2. CASE \E answered \in BOOLEAN :
               GitLog(answered) \/ Locate(answered) \/ Root(answered) \/ Remote(answered)
    <3>1. PICK answered \in BOOLEAN :
            GitLog(answered) \/ Locate(answered) \/ Root(answered) \/ Remote(answered)
      BY <2>2, Zenon
    <3> QED BY <1>5, <3>1, Zenon
  <2> QED BY <1>7, <2>1, <2>2 DEF Run
<1>8. CASE Next
  BY <1>1, <1>2, <1>3, <1>7, <1>8 DEF Next
<1> QED BY <1>3, <1>8

-----------------------------------------------------------------------------
(* The theorems *)

LEMMA InvariantHolds == Spec => []IInv
<1>1. Init => IInv
  BY Starts
<1>2. IInv /\ [Next]_vars => IInv'
  BY PolicyKeeps, StepsOfThePolicy, HistoryKeeps, EventsKeep DEF IInv
<1> QED BY <1>1, <1>2, PTL DEF Spec

\* Every variable keeps its type, and no event goes out without a hash.
THEOREM TypesHold == Spec => []TypeOK
<1>1. IInv => TypeOK
  BY DEF IInv, PolicyInv, HistoryInv, EventInv, Out, TypeOK
<1> QED BY <1>1, InvariantHolds, PTL

\* policy.py:47-48.  However governance edits its files while a run reads them, the
\* vocabulary a call answers with is what its file said during that call.
THEOREM VocabularyIsAlwaysCurrent == Spec => []VocabularyIsCurrent
<1>1. IInv => VocabularyIsCurrent
  BY DEF IInv, PolicyInv, CallInv
<1> QED BY <1>1, InvariantHolds, PTL

\* emit.py:334-337.  No verdict travels without the commit it is about.
THEOREM VerdictsAreAlwaysAboutACommit == Spec => []VerdictsAreAboutACommit
<1>1. IInv => VerdictsAreAboutACommit
  BY DEF IInv, EventInv, Out, Truthful, VerdictsAreAboutACommit
<1> QED BY <1>1, InvariantHolds, PTL

\* emit.py:139-142, 325-327.  For every history, and whoever commits or checks out
\* between the two calls: if the file was as committed when git was asked and kept its
\* bytes until it was hashed, the commit the event names holds the bytes of the hash.
THEOREM CommitAlwaysHoldsTheBytes == Spec => []CommitHoldsTheBytes
<1>1. IInv => CommitHoldsTheBytes
  BY DEF IInv, EventInv, Out, Held, CommitHoldsTheBytes
<1> QED BY <1>1, InvariantHolds, PTL

\* emit.py:254-260, 273-278.  Where git answered, any two clones give one name, and
\* so do any two copies outside.
THEOREM MachinesAlwaysAgreeOnTheName == Spec => []MachinesAgreeOnTheName
<1>1. IInv => MachinesAgreeOnTheName
  BY DEF IInv, EventInv, Out, RightName, Name, MachinesAgreeOnTheName
<1> QED BY <1>1, InvariantHolds, PTL

\* emit.py:211-222, 244-245.  Any two clones give one URL, by ssh, by scp's short form or
\* over https with whatever credentials, unless one is reached over plain http or at a
\* port that is not https's own.
THEOREM ClonesAlwaysAgreeOnTheRepository == Spec => []ClonesAgreeOnTheRepository
<1>1. IInv => ClonesAgreeOnTheRepository
  <2> SUFFICES ASSUME IInv, NEW q \in reports, NEW r \in reports,
                      q.location # None, r.location # None,
                      Usual(Origin[q.place]), Usual(Origin[r.place])
               PROVE  q.location.url = r.location.url
    BY DEF ClonesAgreeOnTheRepository
  <2>1. Truthful(history, q) /\ Truthful(history, r)
    BY DEF IInv, EventInv, Out
  <2>2. /\ q.location.url # None /\ q.location.url = _normalize_remote(Origin[q.place])
        /\ r.location.url # None /\ r.location.url = _normalize_remote(Origin[r.place])
    BY <2>1 DEF Truthful
  <2>3. ASSUME NEW p \in Places, Usual(Origin[p]), _normalize_remote(Origin[p]) # None
        PROVE  _normalize_remote(Origin[p]) = [scheme |-> "https", secret |-> FALSE, port |-> None]
    BY <2>3 DEF Usual, _normalize_remote, Located
  <2>4. q.place \in Places /\ r.place \in Places
    BY DEF IInv, EventInv, Report
  <2> QED BY <2>2, <2>3, <2>4
<1> QED BY <1>1, InvariantHolds, PTL
=============================================================================
