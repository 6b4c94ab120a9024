---------------------------- MODULE Expectations ----------------------------
(***************************************************************************)
(* What a declared suite can answer about a frame (expectations.py).  A    *)
(* suite is a set of rules, and a rule is known by how it meets the code:  *)
(*   "checkable"    Great Expectations evaluates it, to true or false;     *)
(*   "raising"      it builds, and raises while it is evaluated;           *)
(*   "unbuildable"  its type is no class of Great Expectations;            *)
(*   "unbaselined"  it names a baseline file the domain does not have.     *)
(* The first two become an assertion of the result.  The other two raise   *)
(* outside validate's try, in _build and in load_suite.                    *)
(***************************************************************************)
Rules == {"checkable", "raising", "unbuildable", "unbaselined"}

Verdict == {"passed", "failed"}

Builds(suite) == suite \cap {"unbuildable", "unbaselined"} = {}

\* The outcomes one rule may have, the frame being whatever it is.
Outcomes(rule) == IF rule = "checkable" THEN BOOLEAN ELSE {FALSE}

\* Validation.success over every combination of the rules' outcomes.
Verdicts(suite) ==
  {IF \A rule \in suite : outcome[rule] THEN "passed" ELSE "failed" :
     outcome \in {f \in [suite -> BOOLEAN] :
                    \A rule \in suite : f[rule] \in Outcomes(rule)}}
=============================================================================
