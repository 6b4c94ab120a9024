-------------------------------- MODULE Scripts --------------------------------
(***************************************************************************)
(* The scripts around the executor.  Fixture writes to a directory and     *)
(* Probe to an account: they share nothing, so a behaviour is one of the   *)
(* one or one of the other.                                                *)
(***************************************************************************)
EXTENDS Fixture, Probe

VARIABLE script

vars == <<script, fixtureVars, probeVars>>

Init ==
  /\ script \in {"fixture", "probe"}
  /\ FixtureInit
  /\ ProbeInit
  /\ script = "fixture" => \A p \in Probes : mode[p] = "default" /\ keep[p]

Next ==
  \/ script = "fixture" /\ FixtureNext /\ UNCHANGED <<script, probeVars>>
  \/ script = "probe" /\ ProbeNext /\ UNCHANGED <<script, fixtureVars>>

\* A process that is alive goes on; nobody need raise, kill or crawl.
Fairness ==
  \A p \in Probes :
    WF_vars(script = "probe" /\ Script(p) /\ UNCHANGED <<script, fixtureVars>>)

Spec == Init /\ [][Next]_vars /\ Fairness

TypeOK == FixtureTypeOK /\ ProbeTypeOK

\* EveryProbeEnds, where probes are what runs.
ProbesEnd == script = "probe" => EveryProbeEnds
=============================================================================
