-------------------------------- MODULE Policy --------------------------------
(***************************************************************************)
(* The governance vocabulary as a process reads it (policy.py): which file *)
(* it is in, and the one-entry cache that spares a second read of it.      *)
(* Looking for the file, asking when it was changed and reading it are     *)
(* three steps, and governance may replace or remove a file between any    *)
(* two of them.  What a vocabulary does to a contract is in Executor.      *)
(***************************************************************************)
EXTENDS Integers

CONSTANTS
  Vocabularies,   \* what governance may write into an ontology file
  Named,          \* whether CORDATA_ONTOLOGY is set
  MaxMoves,       \* bound: the changes made to files from outside
  None

ASSUME PolicyAssumption ==
  MaxMoves \in Nat /\ Named \in BOOLEAN /\ None \notin Vocabularies

\* Where the variable points, the working directory's example, the package's own.
Candidates == IF Named THEN {"env"} ELSE {"cwd", "package"}

VARIABLES
  ontologies,   \* the file at each candidate path, None where there is none
  now,          \* the changes made so far: the file system's clock
  cache,        \* what lru_cache holds of _load: an arguments-result pair or None
  call          \* the latest call of ontology()

policyVars == <<ontologies, now, cache, call>>

File == [mtime : 0 .. MaxMoves, words : Vocabularies]

\* `held' is a history variable: what the file has said since it was chosen.
Calls == [at : {"idle", "chosen", "stamped", "answered", "missing"},
          path : Candidates, mtime : 0 .. MaxMoves,
          words : Vocabularies \cup {None}, held : SUBSET Vocabularies]

NoCall == [at |-> "idle", path |-> IF Named THEN "env" ELSE "package", mtime |-> 0, words |-> None, held |-> {}]

PolicyInit ==
  /\ ontologies \in [Candidates -> {[mtime |-> 0, words |-> v] : v \in Vocabularies} \cup {None}]
  /\ "package" \in Candidates => ontologies["package"] # None
  /\ now = 0
  /\ cache = None
  /\ call = NoCall

ontology_path ==
  IF Named THEN "env"
  ELSE IF ontologies["cwd"] # None THEN "cwd" ELSE "package"

Said(file) == IF file = None THEN {} ELSE {file.words}

\* ontology(): the path, and that it is a file.
Choose ==
  /\ call' = [call EXCEPT !.at = IF ontologies[ontology_path] = None THEN "missing" ELSE "chosen",
                          !.path = ontology_path, !.words = None,
                          !.held = Said(ontologies[ontology_path])]
  /\ UNCHANGED <<ontologies, now, cache>>

\* path.stat(), which raises as is_file would have when the file is gone by now.
Stamp ==
  /\ call.at = "chosen"
  /\ LET file == ontologies[call.path] IN
       call' = IF file = None THEN [call EXCEPT !.at = "missing"]
               ELSE [call EXCEPT !.at = "stamped", !.mtime = file.mtime]
  /\ UNCHANGED <<ontologies, now, cache>>

\* Mutant: an entry is known by its path alone.
KeyByPath(path, mtime) == <<path>>

Key(path, mtime) == <<path, mtime>>

\* _load: the entry of this path and time, or the file read and remembered.
Load ==
  /\ call.at = "stamped"
  /\ LET key == Key(call.path, call.mtime)
         file == ontologies[call.path]
         hit == cache # None /\ cache.key = key
         words == IF hit THEN cache.words ELSE IF file = None THEN None ELSE file.words IN
       /\ call' = [call EXCEPT !.at = IF words = None THEN "missing" ELSE "answered",
                               !.words = words]
       /\ cache' = IF words = None THEN cache ELSE [key |-> key, words |-> words]
  /\ UNCHANGED <<ontologies, now>>

Move == now < MaxMoves /\ now' = now + 1

\* Governance writes or removes one of the files.
Govern ==
  /\ Move
  /\ \E path \in Candidates, words \in Vocabularies \cup {None} :
       LET file == IF words = None THEN None ELSE [mtime |-> now + 1, words |-> words] IN
       /\ ontologies' = [ontologies EXCEPT ![path] = file]
       /\ call' = IF path = call.path /\ call.at # "idle"
                THEN [call EXCEPT !.held = @ \cup Said(file)] ELSE call
  /\ UNCHANGED cache

\* A new process starts without the other's cache.
Restart ==
  /\ cache' = None
  /\ UNCHANGED <<ontologies, now, call>>

PolicyTypeOK ==
  /\ ontologies \in [Candidates -> File \cup {None}]
  /\ now \in 0 .. MaxMoves
  /\ cache = None \/ cache.words \in Vocabularies
  /\ call \in Calls

\* policy.py:47-48.  Cached or not, what a run resolves its tags against is what
\* the file said at some moment of that very call: an edit is never overlooked,
\* another file's words are never served, and no restart is needed for it.  (As
\* long as an edit changes the modification time, which the model takes as given.)
VocabularyIsCurrent == call.at = "answered" => call.words \in call.held

\* What makes it so: an entry is what its file says for as long as the time in
\* its key is the file's, and the call under way saw every word the file has had.
CacheIsOfItsTime ==
  cache # None =>
    \A path \in Candidates :
      LET file == ontologies[path] IN
      file # None /\ cache.key = Key(path, file.mtime) => cache.words = file.words
=============================================================================
