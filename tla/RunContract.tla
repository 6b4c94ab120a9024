---------------------------- MODULE RunContract -----------------------------
(***************************************************************************)
(* What a run promises whoever watches it from outside, with nothing of    *)
(* how: the part 1 contract the README and run.py's docstring state.       *)
(*                                                                         *)
(* Rows may be placed in the declared target or aside; what is then        *)
(* reported is decided by where they went, and a run that reports failure  *)
(* has placed none.  A report is made at most once, is never withdrawn,    *)
(* and only a reported run tells the outcome of its suite: "failed" beside *)
(* quarantined rows, never "failed" beside a completion the descriptor     *)
(* forbids.  A run may be lost before it reports, wherever its rows are.   *)
(***************************************************************************)
CONSTANTS
  Run,
  Lenient,   \* the runs whose descriptor says on_failure: warn
  Nothing

VARIABLES
  standing,  \* how far each run has got, or what it reported
  told       \* the outcome of the suite each run has reported, or Nothing

Reports == {"completed", "quarantined", "failed"}

Init ==
  /\ standing = [r \in Run |-> "waiting"]
  /\ told = [r \in Run |-> Nothing]

Become(r, from, to) ==
  /\ standing[r] = from
  /\ standing' = [standing EXCEPT ![r] = to]
  /\ UNCHANGED told

Begin(r)      == Become(r, "waiting", "working")
Place(r)      == Become(r, "working", "in place")
PlaceAside(r) == Become(r, "working", "set aside")
Complete(r)   == Become(r, "in place", "completed")
Quarantine(r) == Become(r, "set aside", "quarantined")
Fail(r)       == Become(r, "working", "failed")

Lose(r) ==
  \/ Become(r, "waiting", "lost")
  \/ Become(r, "working", "lost")
  \/ Become(r, "in place", "lost")
  \/ Become(r, "set aside", "lost")

Tell(r) ==
  /\ told[r] = Nothing
  /\ \E outcome \in {"passed", "failed"} :
        /\ standing[r] = "completed" => outcome = "passed" \/ r \in Lenient
        /\ standing[r] \in {"quarantined", "failed"} => outcome = "failed"
        /\ told' = [told EXCEPT ![r] = outcome]
  /\ standing[r] \in Reports
  /\ UNCHANGED standing

Move(r) ==
  \/ Begin(r) \/ Place(r) \/ PlaceAside(r) \/ Complete(r) \/ Quarantine(r)
  \/ Fail(r) \/ Lose(r) \/ Tell(r)

Next == \E r \in Run : Move(r)

Steps == Init /\ [][Next]_<<standing, told>>

\* A run that begins reports or is lost.
Concludes == \A r \in Run :
  standing[r] = "working" ~> standing[r] \in Reports \cup {"lost"}

Spec == Steps /\ Concludes
=============================================================================
