------------------------------- MODULE Claims -------------------------------
(***************************************************************************)
(* What the repository's own text says of a run, stated as it is said.     *)
(* Each of these is refuted by what the code does: the runs over them      *)
(* expect a violation, and the README tells each story.                    *)
(***************************************************************************)
EXTENDS Runtime

\* emit.py:486, "The terminal event - one per run, always": at the least of a
\* run whose rows are in the table.
WrittenRunsReport ==
  \A r \in Runs \ Mortal :
    pc[r] \in Ended /\ data[Table(r)] # None /\ data[Table(r)].by = r =>
      TerminalsOf(r) # {}

\* expectations.py:147-152, a broken rule is "a failed assertion, not a crashed
\* run", so that no typo takes the pipeline down "with no event to show for it":
\* its suite lets no run escape.
BrokenRulesAreFailedRules ==
  [][\A r \in Runs \ Mortal : pc[r] = "validate" => pc'[r] # "escaped"]_vars

\* emit.py:462, "A failed run touched nothing": where a table has been published,
\* the files of the run that published it are still there after another failed.
FailedRunsTouchNothing ==
  Active = {} =>
    \A r \in Runs :
      LET rows == data[DescriptorOf[r].target] IN
      pc[r] = "raised" /\ rows # None => rows.by \in files[DescriptorOf[r].location]

\* emit.py:420-421, source_publication is the release that published the version
\* the run read: not an older one, when the release whose rows it read is on
\* record.
ReleaseShippedTheRows ==
  \A r \in Runs : \A i \in TerminalsOf(r) :
    LET onRecord == {versions[DescriptorOf[r].source][v] : v \in Versions} IN
    job[r].rows \in onRecord \ {None} => events[r][i].release = job[r].rows

\* emit.py:327, "descriptor_sha256 alone proves which bytes ran".
ShaNamesTheBytesThatRan ==
  \A r \in Runs : \A i \in TerminalsOf(r) : events[r][i].sha = job[r].revision
=============================================================================
