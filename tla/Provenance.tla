------------------------------ MODULE Provenance ------------------------------
(***************************************************************************)
(* What an event says of the descriptor that ran (emit.py): the commit,    *)
(* its signature, the name of the file, its hash, and the repository.  It  *)
(* is put together when the run is over, by four git subprocesses and one  *)
(* read of the file.  Each subprocess may fail or time out on its own, and *)
(* people edit, commit and check out between them.                         *)
(*                                                                         *)
(* The descriptor is one file of one repository, found at several places:  *)
(* whole and shallow clones, and copies that a wheel or a person put       *)
(* somewhere else.  Its history is linear.                                 *)
(***************************************************************************)
EXTENDS Policy, Sequences, FiniteSets

CONSTANTS
  Places,       \* where a copy of the descriptor lies
  Kind,         \* what each place is
  Origin,       \* origin's URL as each place's git is configured
  Contents,     \* what the descriptor may hold
  MaxCommits,   \* bound: the length of the history
  MaxReports    \* bound: the events remembered

Kinds == {"clone", "shallow", "site-packages", "outside", "top"}

\* "ssh" stands for git and git+ssh too.  None is a URL that gives no port.
Schemes == {"none", "https", "http", "ssh", "scp", "path"}
Ports == (Nat \ {0}) \cup {None}

ASSUME ProvenanceAssumption ==
  /\ Places # {}
  /\ Kind \in [Places -> Kinds]
  /\ Origin \in [Places -> [scheme : Schemes, port : Ports, secret : BOOLEAN]]
  /\ \A p \in Places : Origin[p].scheme = "scp" => Origin[p].port = None
  /\ None \notin Contents \cup BOOLEAN \cup Nat
  /\ MaxCommits \in Nat \ {0} /\ MaxReports \in Nat

VARIABLES
  history,   \* the commits of the repository
  head,      \* the commit each clone has checked out
  bytes,     \* what the file holds at each place, None when it is removed
  step,      \* what the run does next
  report,    \* the event being put together
  reports    \* the events emitted

vars == <<policyVars, history, head, bytes, step, report, reports>>

\* `last' is the newest commit, up to this one, that changed the file.
Commits == [bytes : Contents, last : Nat, signed : BOOLEAN]

Clones == {p \in Places : Kind[p] \in {"clone", "shallow"}}

Names == {"from the work tree", "from the domain", "file name"}
Url == [scheme : {"https", "http"}, port : Ports, secret : BOOLEAN]

\* `clean' and `heard' are history variables: whether the file was as committed
\* when git was asked and kept its bytes until it was hashed, and whether every git
\* call was answered.
Report ==
  [place : Places, commit : Nat \cup {None}, signed : BOOLEAN \cup {None},
   path : Names \cup {None}, sha : Contents \cup {None},
   location : [url : Url, path : Names \cup {None}, version : Nat \cup {None}] \cup {None},
   clean : BOOLEAN, heard : BOOLEAN]

Blank(p) ==
  [place |-> p, commit |-> None, signed |-> None, path |-> None, sha |-> None,
   location |-> None, clean |-> FALSE, heard |-> TRUE]

Init ==
  /\ PolicyInit
  /\ history \in {<<[bytes |-> b, last |-> 1, signed |-> s]>> :
                    b \in Contents, s \in BOOLEAN}
  /\ head = [p \in Clones |-> 1]
  /\ bytes = [p \in Places |-> history[1].bytes]
  /\ step = "idle"
  /\ report = Blank(CHOOSE p \in Places : TRUE)
  /\ reports = {}

provVars == <<history, head, bytes, reports>>

-----------------------------------------------------------------------------
(* What people do meanwhile *)

\* The file at hand is given other bytes between git's answer and its hash.
Disturbed ==
  report' = IF step \in {"locate", "hash"} /\ bytes'[report.place] # bytes[report.place]
            THEN [report EXCEPT !.clean = FALSE] ELSE report

Quiet == UNCHANGED <<ontologies, cache, call, step, reports>>

Edit(p) ==
  /\ Move /\ Quiet
  /\ \E b \in Contents \cup {None} : b # bytes[p] /\ bytes' = [bytes EXCEPT ![p] = b]
  /\ Disturbed
  /\ UNCHANGED <<history, head>>

\* The file as it lies, or some other file while this one stays as it was.
Commit(p) ==
  /\ Kind[p] = "clone" /\ head[p] = Len(history) /\ Len(history) < MaxCommits
  /\ Move /\ Quiet
  /\ \E b \in {bytes[p], history[head[p]].bytes} \ {None}, s \in BOOLEAN :
       LET tip == history[head[p]] IN
       history' = Append(history,
                         [bytes |-> b, signed |-> s,
                          last |-> IF b = tip.bytes THEN tip.last ELSE Len(history) + 1])
  /\ head' = [head EXCEPT ![p] = Len(history')]
  /\ UNCHANGED <<bytes, report>>

Checkout(p) ==
  /\ p \in Clones
  /\ Move /\ Quiet
  /\ \E n \in 1 .. Len(history) :
       /\ head' = [head EXCEPT ![p] = n]
       /\ bytes' = [bytes EXCEPT ![p] = history[n].bytes]
  /\ Disturbed
  /\ UNCHANGED history

-----------------------------------------------------------------------------
(* The run: its tags are resolved before it works, its event comes last *)

Start(p) ==
  /\ step = "idle" /\ Cardinality(reports) < MaxReports
  /\ Choose
  /\ step' = "resolve"
  /\ report' = Blank(p)
  /\ UNCHANGED provVars

Vocabulary ==
  /\ step = "resolve"
  /\ Stamp \/ Load
  /\ UNCHANGED <<step, report, provVars>>

\* A missing vocabulary is no PipelineError: it escapes, and nothing is emitted.
\* A tag it lacks is one, and the FAIL event tells as much as any other.
Resolved ==
  /\ step = "resolve" /\ call.at \in {"answered", "missing"}
  /\ step' = IF call.at = "missing" THEN "idle" ELSE "log"
  /\ call' = NoCall
  /\ UNCHANGED <<ontologies, now, cache, report, provVars>>

\* Mutant: the first commit that touched the file, as without `-1'.
FirstTouched(p) == 1

\* git log -1 -- <name>: the newest commit in the clone's history that changed the
\* file.  The history of a shallow clone begins at its head, which added every file.
LastTouched(p) ==
  IF Kind[p] = "shallow" THEN head[p] ELSE history[head[p]].last

Asleep(r, answered) == [r EXCEPT !.heard = @ /\ answered]

AsCommitted(p) == p \in Clones /\ bytes[p] = history[head[p]].bytes

\* Mutant: a signature verdict about a commit that nothing names.
UnsignedWhenUnknown(p, answered) ==
  IF answered /\ p \in Clones
  THEN [commit |-> LastTouched(p), signed |-> history[LastTouched(p)].signed]
  ELSE [commit |-> None, signed |-> FALSE]

_git_provenance(p, answered) ==
  IF answered /\ p \in Clones
  THEN [commit |-> LastTouched(p), signed |-> history[LastTouched(p)].signed]
  ELSE [commit |-> None, signed |-> None]

GitLog(answered) ==
  /\ step = "log"
  /\ step' = "locate"
  /\ LET found == _git_provenance(report.place, answered) IN
       report' = [Asleep(report, answered) EXCEPT !.commit = found.commit, !.signed = found.signed,
                                                  !.clean = AsCommitted(report.place)]
  /\ UNCHANGED <<policyVars, provVars>>

\* Mutant: the project a virtual environment lies in is the work tree.
AnyWorkTree(p, answered) == answered /\ Kind[p] \in {"clone", "shallow", "site-packages"}

\* _work_tree: under site-packages git is not asked at all.
WorkTree(p, answered) == answered /\ p \in Clones

Name(p, rooted) ==
  IF rooted THEN "from the work tree" ELSE IF Kind[p] = "top" THEN "file name" ELSE "from the domain"

Locate(answered) ==
  /\ step = "locate"
  /\ step' = "hash"
  /\ report' = [Asleep(report, answered) EXCEPT
                  !.path = Name(report.place, WorkTree(report.place, answered))]
  /\ UNCHANGED <<policyVars, provVars>>

\* Mutant: a file that is gone is hashed as if it were empty.
HashAnything ==
  /\ step = "hash"
  /\ step' = "root" /\ report' = [report EXCEPT !.sha = bytes[report.place]]
  /\ UNCHANGED <<policyVars, provVars>>

\* read_bytes raises when the file is gone: the error escapes, and nothing is emitted.
Hash ==
  /\ step = "hash"
  /\ IF bytes[report.place] = None
     THEN step' = "idle" /\ UNCHANGED report
     ELSE step' = "root" /\ report' = [report EXCEPT !.sha = bytes[report.place]]
  /\ UNCHANGED <<policyVars, provVars>>

Emit(r) == report' = r /\ reports' = reports \cup {r} /\ step' = "idle"

\* source_code_location's first half: the work tree once more.
Root(answered) ==
  /\ step = "root"
  /\ LET r == Asleep(report, answered) IN
       IF WorkTree(r.place, answered) /\ r.commit # None
       THEN report' = r /\ step' = "remote" /\ UNCHANGED reports
       ELSE Emit(r)
  /\ UNCHANGED <<policyVars, history, head, bytes>>

\* What urlsplit keeps of a remote that locates a host: the scheme of the web it
\* has or is given, and any port but https's own.
Located(origin, secret) ==
  LET scheme == IF origin.scheme = "http" THEN "http" ELSE "https" IN
  [scheme |-> scheme, secret |-> secret,
   port   |-> IF scheme = "http" \/ origin.port = 443 THEN None ELSE origin.port]

\* Mutant: what stands before the host is left as it is configured.
NormalizeTrusting(origin) ==
  IF origin.scheme \in {"none", "path"} THEN None ELSE Located(origin, origin.secret)

\* A port that was given for ssh stays, on a URL of https.
_normalize_remote(origin) ==
  IF origin.scheme \in {"none", "path"} THEN None ELSE Located(origin, FALSE)

Location(r, url) == [url |-> url, path |-> r.path, version |-> r.commit]

\* The second half: origin's URL, and the facet when there is one to give.
Remote(answered) ==
  /\ step = "remote"
  /\ LET r == Asleep(report, answered)
         url == IF answered THEN _normalize_remote(Origin[r.place]) ELSE None IN
       Emit(IF url = None THEN r ELSE [r EXCEPT !.location = Location(r, url)])
  /\ UNCHANGED <<policyVars, history, head, bytes>>

Run ==
  \/ Vocabulary \/ Resolved \/ Hash
  \/ \E answered \in BOOLEAN :
       GitLog(answered) \/ Locate(answered) \/ Root(answered) \/ Remote(answered)

Next ==
  \/ \E p \in Places : Start(p) \/ Edit(p) \/ Commit(p) \/ Checkout(p)
  \/ Run
  \/ step = "idle" /\ Restart /\ UNCHANGED <<step, report, provVars>>
  \/ Govern /\ UNCHANGED <<step, report, provVars>>

Spec == Init /\ [][Next]_vars

-----------------------------------------------------------------------------

TypeOK ==
  /\ PolicyTypeOK
  /\ history \in Seq(Commits)
  /\ head \in [Clones -> 1 .. Len(history)]
  /\ bytes \in [Places -> Contents \cup {None}]
  /\ step \in {"idle", "resolve", "log", "locate", "hash", "root", "remote"}
  /\ report \in Report
  /\ reports \subseteq {r \in Report : r.sha # None}

\* emit.py:334-337.  A verdict travels with the commit it is about, and with no other.
VerdictsAreAboutACommit ==
  \A r \in reports :
    r.signed = IF r.commit = None THEN None ELSE history[r.commit].signed

\* emit.py:139-142, 325-327.  The commit and the hash are read one after the other,
\* while people edit, commit and check out.  If the file was as committed when git was
\* asked and kept its bytes until it was hashed, the commit the event names holds the
\* very bytes of the hash: in a whole clone, in a shallow one, at any checkout, and
\* whatever is committed there between the two.
CommitHoldsTheBytes ==
  \A r \in reports :
    r.clean /\ r.commit # None => history[r.commit].bytes = r.sha

\* emit.py:254-260, 273-278.  Two machines agree on the name: all clones give one,
\* all copies outside one give another, and no virtual environment gives the name
\* of the project it lies in.
MachinesAgreeOnTheName ==
  \A q, r \in reports :
    /\ q.heard /\ r.heard
    /\ Kind[q.place] # "top" /\ Kind[r.place] # "top"
    /\ q.place \in Clones <=> r.place \in Clones
    => q.path = r.path

\* A remote over ssh or https that gives no port, or https's own.
Usual(origin) == origin.scheme # "http" /\ origin.port \in {None, 443}

\* emit.py:211-222, 244-245, test_lineage.py:287-299.  Two clones of one repository
\* give one URL, whether reached over ssh or with a token over https, as long as
\* neither is reached over plain http or at another port: these stay in the URL, an
\* ssh port on one of https.
ClonesAgreeOnTheRepository ==
  \A q, r \in reports :
    /\ q.location # None /\ r.location # None
    /\ Usual(Origin[q.place]) /\ Usual(Origin[r.place])
    => q.location.url = r.location.url
=============================================================================
