--------------------------- MODULE ContractProofs ---------------------------
(***************************************************************************)
(* What the world may rely on.  The executor implements RunContract, and a *)
(* declared target changes only on behalf of a run whose suite let it      *)
(* publish: two consequences of one invariant, what a run has decided by   *)
(* each stage.  A pin that resolved leads to rows, and a product is named   *)
(* by a domain that writes it, however runs overlap.                       *)
(***************************************************************************)
EXTENDS PlacementProofs

-----------------------------------------------------------------------------
(* The contract *)

\* What has been decided by the time it is bound where a run's rows go.
Decided(r) ==
  /\ job[r].result \in Verdict
  /\ job[r].error = None
  /\ job[r].side <=> job[r].result = "failed" /\ DescriptorOf[r].on_failure = "quarantine"
  /\ job[r].result = "failed" => DescriptorOf[r].on_failure # "block_publish"

\* What a run has reported by the time it tells of its suite.
ReportOf(r) ==
  /\ Blocked(r) => events[r][1].type = "FAIL" /\ events[r][1].outputs = {}
  /\ ~Blocked(r) => /\ Decided(r)
                    /\ events[r][1].type = IF job[r].side THEN "FAIL" ELSE "COMPLETE"
                    /\ events[r][1].outputs # {}

DecisionOf(r) ==
  /\ pc[r] = "prepare" => job[r].result \in Verdict
  /\ pc[r] \in Bound => Decided(r)
  /\ Blocked(r) => job[r].result = "failed"
  /\ pc[r] = "assert" => ReportOf(r)

LEMMA VerdictsType ==
  ASSUME NEW suite
  PROVE  Verdicts(suite) \subseteq Verdict
BY DEF Verdicts, Verdict

LEMMA OwnDecision ==
  ASSUME TypeOK, NEW r \in Runs, EmissionOf(r), PlacementOf(r), DecisionOf(r),
         Parse(r) \/ Step(r) \/ Dies(r) \/ Edit(r)
  PROVE  DecisionOf(r)'
<1> USE DEF TypeOK, ExecutorTypeOK, Goto
<1>0. job[r] \in Job
  OBVIOUS
<1>1. ASSUME NEW e, Raise(r, e), pc[r] \in Clean, e # "PublishBlocked" PROVE DecisionOf(r)'
  BY <1>0, <1>1 DEF Raise, DecisionOf, Bound, Blocked, Job
<1>2. ASSUME Escape(r) PROVE DecisionOf(r)'
  BY <1>2 DEF Escape, DecisionOf, Bound, Blocked
<1>3. ASSUME NEW stage \in {"read", "steps", "policy", "validate"}, Advance(r, stage),
             pc[r] \in Clean, job'[r].error = job[r].error
      PROVE  DecisionOf(r)'
  <2>1. job'[r].error # "PublishBlocked"
    BY <1>3, ExecutorAssumption DEF PlacementOf, Errors
  <2> QED
    BY <1>3, <2>1 DEF Advance, DecisionOf, Bound, Blocked
<1>4. CASE Parse(r)
  <2>1. job'[r].error = None
    BY <1>0, <1>4 DEF Parse, PlacementOf, Clean, Stages, Ended, Job
  <2> QED
    BY <1>4, <2>1, ExecutorAssumption DEF Parse, DecisionOf, Bound, Blocked, Errors
<1>5. CASE Dies(r) \/ Refused(r)
  BY <1>2, <1>5 DEF Dies, Refused
<1>6. CASE Edit(r)
  BY <1>6 DEF Edit, DecisionOf, ReportOf, Decided, Blocked
<1>7. CASE Resolve(r)
  <2>1. pc[r] \in Clean
    BY <1>7 DEF Resolve, Clean, Stages, Ended
  <2>2. CASE Raise(r, "SchemaDrift")
    BY <1>1, <2>1, <2>2
  <2>3. CASE ~Raise(r, "SchemaDrift")
    <3>1. Advance(r, "read") /\ job'[r].error = job[r].error
      BY <1>0, <1>7, <2>3 DEF Resolve, Job
    <3> QED
      BY <1>3, <2>1, <3>1
  <2> QED
    BY <2>2, <2>3
<1>8. CASE Read(r)
  <2>1. pc[r] \in Clean
    BY <1>8 DEF Read, Clean, Stages, Ended
  <2>2. CASE ReadFrame(r)
    <3>1. CASE Raise(r, "SchemaDrift")
      BY <1>1, <2>1, <3>1
    <3>2. CASE ~Raise(r, "SchemaDrift")
      <4>1. Advance(r, "steps") /\ job'[r].error = job[r].error
        BY <1>0, <2>2, <3>2 DEF ReadFrame, Job
      <4> QED
        BY <1>3, <2>1, <4>1
    <3> QED
      BY <3>1, <3>2
  <2> QED
    BY <1>1, <1>2, <1>8, <2>1, <2>2 DEF Read, ReadGlueTable, ReadDmsLanding
<1>9. CASE RunSteps(r) \/ ResolvePolicy(r)
  <2>1. pc[r] \in Clean
    BY <1>9 DEF RunSteps, ResolvePolicy, Clean, Stages, Ended
  <2>2. ASSUME NEW e \in {"PipelineError", "UnknownTag", "UnknownKind"}, Raise(r, e)
        PROVE  DecisionOf(r)'
    BY <1>1, <2>1, <2>2
  <2>3. CASE ~Escape(r) /\ \A e \in {"PipelineError", "UnknownTag", "UnknownKind"} : ~Raise(r, e)
    <3>1. job'[r].error = job[r].error /\ (Advance(r, "policy") \/ Advance(r, "validate"))
      BY <1>0, <1>9, <2>3 DEF RunSteps, ResolvePolicy, Job
    <3> QED
      BY <1>3, <2>1, <3>1
  <2> QED
    BY <1>2, <2>2, <2>3
<1>10. CASE ValidateFrame(r)
  <2>1. CASE Escape(r)
    BY <1>2, <2>1
  <2>2. CASE ~Escape(r)
    <3>1. PICK verdict \in Verdicts(DescriptorOf[r].suite) :
            job' = [job EXCEPT ![r].result = verdict]
      BY <1>10, <2>2 DEF ValidateFrame
    <3>2. job'[r].error = None /\ job'[r].result \in Verdict /\ pc'[r] = "prepare"
      BY <1>0, <1>10, <2>2, <3>1, VerdictsType
      DEF ValidateFrame, Advance, PlacementOf, Clean, Stages, Ended, Job
    <3> QED
      BY <3>2, ExecutorAssumption DEF DecisionOf, Bound, Blocked, Errors
  <2> QED
    BY <2>1, <2>2
<1>11. CASE Prepare(r)
  <2>1. job[r].error = None /\ job[r].result \in Verdict
    BY <1>11 DEF Prepare, PlacementOf, DecisionOf, Clean, Stages, Ended
  <2>2. CASE Raise(r, "UnknownKind")
    BY <1>1, <1>11, <2>2 DEF Prepare, Clean, Stages, Ended
  <2>3. CASE job[r].result = "failed" /\ Raise(r, "PublishBlocked")
    BY <1>0, <2>3 DEF Raise, DecisionOf, Bound, Blocked, Job
  <2>4. CASE ~Raise(r, "UnknownKind") /\ ~(job[r].result = "failed" /\ Raise(r, "PublishBlocked"))
    <3> DEFINE source == DescriptorOf[r].source
               aside  == job[r].result = "failed" /\ DescriptorOf[r].on_failure = "quarantine"
               owner  == Owner(source, DescriptorOf[r].domain)
               tags   == lf_tags[source]
    <3>1. /\ job' = [job EXCEPT ![r].owner = owner, ![r].source_tags = tags, ![r].side = aside]
          /\ Advance(r, "clear")
          /\ ~(job[r].result = "failed" /\ DescriptorOf[r].on_failure = "block_publish")
      BY <1>11, <2>4 DEF Prepare
    <3> HIDE DEF source, owner, tags
    <3>2. /\ job'[r].result = job[r].result
          /\ job'[r].error = job[r].error
          /\ job'[r].side <=> aside
      BY <1>0, <3>1 DEF Job
    <3> QED
      BY <2>1, <3>1, <3>2, ExecutorAssumption
      DEF Advance, DecisionOf, Decided, Bound, Blocked, Errors
  <2> QED
    BY <1>11, <2>2, <2>3, <2>4 DEF Prepare
<1>12. CASE WriteFiles(r)
  <2>1. CASE Raise(r, "PipelineError")
    BY <1>1, <1>12, <2>1 DEF WriteFiles, Clean, Stages, Ended
  <2>2. CASE ~Raise(r, "PipelineError")
    BY <1>12, <2>2 DEF WriteFiles, DecisionOf, Decided, Bound, Blocked
  <2> QED
    BY <2>1, <2>2
<1>13. CASE PublishTable(r) \/ Register(r)
  BY <1>13 DEF PublishTable, Register, DecisionOf, Decided, Bound, Blocked
<1>14. CASE Registering(r)
  BY <1>2, <1>14 DEF Registering, runVars, DecisionOf, Decided, Bound, Blocked
<1>15. CASE EmitTerminal(r)
  <2> DEFINE event == TerminalEvent(r)
  <2>1. /\ event.type = IF job[r].side THEN "FAIL" ELSE "COMPLETE"
        /\ event.outputs # {}
    BY DEF TerminalEvent, Reported
  <2> HIDE DEF event
  <2>2. events'[r] = Append(events[r], event) /\ Len(events[r]) = 0
    BY <1>15 DEF EmitTerminal, Emit, EmissionOf, Ended, event
  <2>3. events'[r][1] = event
    BY <2>2
  <2>4. Decided(r) /\ ~Blocked(r)
    BY <1>15, ExecutorAssumption DEF EmitTerminal, DecisionOf, Bound, Decided, Blocked, Errors
  <2> QED
    BY <1>15, <2>1, <2>3, <2>4 DEF EmitTerminal, DecisionOf, ReportOf, Decided, Bound, Blocked
<1>16. CASE EmitFailure(r)
  <2> DEFINE event == FailureEvent(r)
  <2>1. event.type = "FAIL" /\ event.outputs = {}
    BY DEF FailureEvent
  <2> HIDE DEF event
  <2>2. events'[r] = Append(events[r], event) /\ Len(events[r]) = 0
    BY <1>16 DEF EmitFailure, Emit, EmissionOf, Ended, event
  <2>3. events'[r][1] = event
    BY <2>2
  <2> QED
    BY <1>16, <2>1, <2>3 DEF EmitFailure, DecisionOf, ReportOf, Bound, Blocked
<1>17. CASE EmitAssertions(r)
  BY <1>17 DEF EmitAssertions, DecisionOf, Bound, Blocked
<1>18. CASE Clears(r)
  <2>1. CASE ~Escape(r)
    <3>1. pc[r] \in Bound /\ pc'[r] \in {"unlink", "write"}
      BY <1>18, <2>1, ClearingMoves DEF Clears, ListStale, UnlinkStale, Bound
    <3>2. Decided(r)' /\ ~Blocked(r)'
      BY <1>18, <3>1, ClearingKeeps, ExecutorAssumption
      DEF DecisionOf, Decided, Blocked, Errors
    <3> QED
      BY <3>1, <3>2 DEF DecisionOf
  <2> QED
    BY <1>2, <2>1
<1> QED
  BY <1>4, <1>5, <1>6, <1>7, <1>8, <1>9, <1>10, <1>11, <1>12, <1>13, <1>14, <1>15, <1>16, <1>17,
     <1>18
  DEF Step, Clears

LEMMA DecisionInductive ==
  ASSUME TypeOK, NEW q \in Runs, EmissionOf(q), PlacementOf(q), DecisionOf(q), [Next]_vars
  PROVE  DecisionOf(q)'
<1>1. ASSUME pc'[q] = pc[q], job'[q] = job[q], events'[q] = events[q]
      PROVE  DecisionOf(q)'
  BY <1>1 DEF DecisionOf, ReportOf, Decided, Blocked
<1>2. ASSUME NEW r \in Runs, Parse(r) \/ Step(r) \/ Dies(r) \/ Edit(r)
      PROVE  DecisionOf(q)'
  BY <1>1, <1>2, OwnDecision, OthersStay, OthersSaySame
<1>3. ASSUME NEW a \in Apps, App(a)
      PROVE  DecisionOf(q)'
  BY <1>1, <1>3 DEF App, AppShips, AppPublishes, AppLeaves, runVars
<1> QED
  BY <1>1, <1>2, <1>3 DEF Next, Resting, vars, runVars

ContractInv == \A q \in Runs : EmissionOf(q) /\ PlacementOf(q) /\ DecisionOf(q)

LEMMA ContractInvAlways == Spec => [](TypeOK /\ ContractInv)
<1>1. Init => \A q \in Runs : DecisionOf(q)
  BY ExecutorAssumption
  DEF Init, ExecutorInit, NoJob, DecisionOf, Bound, Blocked, Errors
<1>2. EmissionInv => \A q \in Runs : EmissionOf(q)
  BY DEF EmissionInv, EmissionOf
<1> DEFINE P == \A q \in Runs : PlacementOf(q)
           D == \A q \in Runs : DecisionOf(q)
<1>3. TypeOK /\ EmissionInv /\ P /\ D /\ [Next]_vars => D'
  BY <1>2, DecisionInductive
<1>4. TypeOK /\ EmissionInv /\ P /\ D => TypeOK /\ ContractInv
  BY <1>2 DEF ContractInv
<1>5. Spec => []P
  BY PlacementAlways
<1>6. Init => D
  BY <1>1
<1> HIDE DEF P, D
<1> QED
  BY <1>3, <1>4, <1>5, <1>6, TypeCorrect, EmissionAlways, PTL DEF Spec

\* The stages of a run as the contract sees them, before it has reported.
Working == {"resolve", "read", "steps", "policy", "validate", "prepare", "clear", "unlink",
            "write", "fail"}
Writing == {"create", "register", "registering", "emit"}

\* How a step that emits nothing moves its own run.
StageMove(r) ==
  \/ pc'[r] = pc[r] /\ job'[r].side = job[r].side
  \/ pc[r] \notin Ended /\ pc'[r] = "escaped"
  \/ pc[r] = "idle" /\ pc'[r] = "resolve"
  \/ pc[r] \in Working /\ pc'[r] \in Working
  \/ pc[r] = "write" /\ pc'[r] = "create" /\ job'[r].side = job[r].side
  \/ pc[r] \in Writing /\ pc'[r] \in Writing /\ job'[r].side = job[r].side

LEMMA QuietStages ==
  ASSUME TypeOK, NEW r \in Runs, Parse(r) \/ Step(r) \/ Dies(r) \/ Edit(r), ~Emits(r)
  PROVE  StageMove(r)
<1> USE DEF TypeOK, ExecutorTypeOK, Goto
<1>1. ASSUME NEW e, Raise(r, e), pc[r] \in Working PROVE StageMove(r)
  BY <1>1 DEF Raise, StageMove, Working
<1>2. ASSUME Escape(r), pc[r] \notin Ended PROVE StageMove(r)
  BY <1>2 DEF Escape, StageMove
<1>3. ASSUME NEW stage \in Working, Advance(r, stage), pc[r] \in Working PROVE StageMove(r)
  BY <1>3 DEF Advance, StageMove
<1>4. CASE Parse(r)
  BY <1>4 DEF Parse, StageMove, Ended
<1>5. CASE Dies(r) \/ Refused(r)
  BY <1>2, <1>5 DEF Dies, Refused, Active, Querying, Publishing, Ended
<1>6. CASE Edit(r)
  BY <1>6 DEF Edit, StageMove
<1>7. CASE Resolve(r) \/ Prepare(r)
  BY <1>1, <1>3, <1>7 DEF Resolve, Prepare, Working
<1>8. CASE Read(r) \/ RunSteps(r) \/ ResolvePolicy(r) \/ ValidateFrame(r)
  <2>1. pc[r] \in Working \ Ended
    BY <1>8 DEF Read, RunSteps, ResolvePolicy, ValidateFrame, Working, Ended
  <2>2. \/ \E e : Raise(r, e)
        \/ Escape(r)
        \/ \E stage \in Working : Advance(r, stage)
    BY <1>8
    DEF Read, ReadGlueTable, ReadDmsLanding, ReadFrame, RunSteps, ResolvePolicy, ValidateFrame,
        Working
  <2> QED
    BY <1>1, <1>2, <1>3, <2>1, <2>2
<1>9. CASE WriteFiles(r)
  BY <1>1, <1>9 DEF WriteFiles, StageMove, Working
<1>10. CASE PublishTable(r) \/ Register(r)
  BY <1>10 DEF PublishTable, Register, StageMove, Writing
<1>11. CASE Registering(r)
  BY <1>2, <1>11 DEF Registering, runVars, StageMove, Writing, Ended
<1>12. CASE Clears(r)
  BY <1>2, <1>12, ClearingMoves, ClearingKeeps DEF StageMove, Working, Ended
<1> QED
  BY <1>4, <1>5, <1>6, <1>7, <1>8, <1>9, <1>10, <1>11, <1>12 DEF Step, Emits, Clears

standing == [r \in Runs |-> Standing(r)]
told     == [r \in Runs |-> Told(r)]

\* Standing and Told are those of one run: a step of another leaves them.
LEMMA OthersStand ==
  ASSUME TypeOK, NEW r \in Runs, Parse(r) \/ Step(r) \/ Dies(r) \/ Edit(r),
         NEW q \in Runs \ {r}
  PROVE  Standing(q)' = Standing(q) /\ Told(q)' = Told(q)
BY OthersStay, OthersSaySame DEF Standing, Told

LEMMA OneMoves ==
  ASSUME TypeOK, NEW r \in Runs, Parse(r) \/ Step(r) \/ Dies(r) \/ Edit(r)
  PROVE  /\ standing' = [standing EXCEPT ![r] = Standing(r)']
         /\ told' = [told EXCEPT ![r] = Told(r)']
BY OthersStand DEF standing, told

\* Standing once there is a report, by that report.
LEMMA StandingAfter ==
  ASSUME NEW r \in Runs, events[r] # <<>>
  PROVE  Standing(r) = IF events[r][1].type = "COMPLETE" THEN "completed"
                       ELSE IF events[r][1].outputs # {} THEN "quarantined" ELSE "failed"
BY DEF Standing

LEMMA StandingBefore ==
  ASSUME NEW r \in Runs, EmissionOf(r), TypeOK
  PROVE  /\ Len(events[r]) = 0 <=> events[r] = <<>>
         /\ events[r] = <<>> => Told(r) = None
         /\ events[r] = <<>> =>
              Standing(r) = IF pc[r] = "idle" THEN "waiting"
                            ELSE IF pc[r] = "escaped" THEN "lost"
                            ELSE IF pc[r] \in Writing
                                 THEN IF job[r].side THEN "set aside" ELSE "in place"
                                 ELSE "working"
<1>1. events[r] \in Seq(Event)
  BY DEF TypeOK, ExecutorTypeOK
<1>2. Len(events[r]) = 0 <=> events[r] = <<>>
  BY <1>1
<1>3. ASSUME events[r] = <<>> PROVE Told(r) = None
  BY <1>2, <1>3 DEF Told
<1>4. ASSUME events[r] = <<>>
      PROVE  Standing(r) = IF pc[r] = "idle" THEN "waiting"
                           ELSE IF pc[r] = "escaped" THEN "lost"
                           ELSE IF pc[r] \in Writing
                                THEN IF job[r].side THEN "set aside" ELSE "in place"
                                ELSE "working"
  BY <1>4 DEF Standing, Writing
<1> QED
  BY <1>2, <1>3, <1>4

Same(r) == Standing(r)' = Standing(r) /\ Told(r)' = Told(r)

From(r, one, other) == Standing(r) = one /\ Standing(r)' = other /\ Told(r)' = Told(r)

\* A step that emits nothing begins, places rows, loses the run, or is not seen.
LEMMA QuietContract ==
  ASSUME TypeOK, TypeOK', NEW r \in Runs, EmissionOf(r), EmissionOf(r)',
         Parse(r) \/ Step(r) \/ Dies(r) \/ Edit(r), ~Emits(r)
  PROVE  \/ Same(r)
         \/ From(r, "waiting", "working")
         \/ From(r, "working", "in place") \/ From(r, "working", "set aside")
         \/ \E one \in {"waiting", "working", "in place", "set aside"} : From(r, one, "lost")
<1>1. events'[r] = events[r]
  BY QuietSteps DEF Quiet
<1>2. CASE events[r] # <<>>
  BY <1>1, <1>2 DEF Same, Standing, Told
<1>3. CASE events[r] = <<>>
  <2>1. StageMove(r)
    BY QuietStages
  <2>2. Told(r)' = Told(r)
    BY <1>1 DEF Told
  <2>3. Standing(r) = IF pc[r] = "idle" THEN "waiting"
                      ELSE IF pc[r] = "escaped" THEN "lost"
                      ELSE IF pc[r] \in Writing
                           THEN IF job[r].side THEN "set aside" ELSE "in place"
                           ELSE "working"
    BY <1>3, StandingBefore
  <2>4. Standing(r)' = IF pc'[r] = "idle" THEN "waiting"
                       ELSE IF pc'[r] = "escaped" THEN "lost"
                       ELSE IF pc'[r] \in Writing
                            THEN IF job'[r].side THEN "set aside" ELSE "in place"
                            ELSE "working"
    BY <1>1, <1>3 DEF Standing, Writing
  <2>5. CASE pc[r] \notin Ended /\ pc'[r] = "escaped"
    BY <2>2, <2>3, <2>4, <2>5 DEF From, Ended
  <2>6. CASE ~(pc[r] \notin Ended /\ pc'[r] = "escaped")
    BY <2>1, <2>2, <2>3, <2>4, <2>6 DEF StageMove, Same, From, Working, Writing, Ended
  <2> QED
    BY <2>5, <2>6
<1> QED
  BY <1>2, <1>3

\* The report of a run that wrote, and of one that failed.
LEMMA ReportContract ==
  ASSUME TypeOK, NEW r \in Runs, EmissionOf(r), DecisionOf(r),
         EmitTerminal(r) \/ EmitFailure(r)
  PROVE  \/ From(r, "in place", "completed")
         \/ From(r, "set aside", "quarantined")
         \/ From(r, "working", "failed")
<1>1. events[r] = <<>> /\ Len(events[r]) = 0
  BY StandingBefore DEF EmitTerminal, EmitFailure, EmissionOf, Ended
<1>2. ASSUME NEW event, Emit(r, event)
      PROVE  /\ events'[r] = <<event>>
             /\ Told(r)' = Told(r)
             /\ Standing(r)' = IF event.type = "COMPLETE" THEN "completed"
                               ELSE IF event.outputs # {} THEN "quarantined" ELSE "failed"
  <2>1. events'[r] = <<event>>
    BY <1>1, <1>2 DEF Emit, TypeOK, ExecutorTypeOK
  <2>2. events'[r] # <<>> /\ events'[r][1] = event /\ Len(events'[r]) = 1
    BY <2>1
  <2>3. Told(r)' = None /\ Told(r) = None
    BY <1>1, <2>2 DEF Told
  <2> QED
    BY <2>1, <2>2, <2>3, StandingAfter DEF Standing
<1>3. CASE EmitTerminal(r)
  <2> DEFINE event == TerminalEvent(r)
  <2>1. event.type = (IF job[r].side THEN "FAIL" ELSE "COMPLETE") /\ event.outputs # {}
    BY DEF TerminalEvent, Reported
  <2>2. Emit(r, event) /\ pc[r] = "emit"
    BY <1>3 DEF EmitTerminal
  <2> HIDE DEF event
  <2>3. Standing(r) = IF job[r].side THEN "set aside" ELSE "in place"
    BY <1>1, <2>2, StandingBefore DEF Writing
  <2> QED
    BY <1>2, <2>1, <2>2, <2>3 DEF From
<1>4. CASE EmitFailure(r)
  <2> DEFINE event == FailureEvent(r)
  <2>1. event.type = "FAIL" /\ event.outputs = {}
    BY DEF FailureEvent
  <2>2. Emit(r, event) /\ pc[r] = "fail"
    BY <1>4 DEF EmitFailure
  <2> HIDE DEF event
  <2>3. Standing(r) = "working"
    BY <1>1, <2>2, StandingBefore DEF Writing
  <2> QED
    BY <1>2, <2>1, <2>2, <2>3 DEF From
<1> QED
  BY <1>3, <1>4

\* What it tells of its suite agrees with what it reported.
LEMMA TellContract ==
  ASSUME TypeOK, NEW r \in Runs, EmissionOf(r), DecisionOf(r), EmitAssertions(r)
  PROVE  /\ Standing(r)' = Standing(r)
         /\ Told(r) = None
         /\ Told(r)' \in {"passed", "failed"}
         /\ Standing(r) \in {"completed", "quarantined", "failed"}
         /\ Standing(r) = "completed" =>
              Told(r)' = "passed" \/ DescriptorOf[r].on_failure = "warn"
         /\ Standing(r) \in {"quarantined", "failed"} => Told(r)' = "failed"
<1> DEFINE event == AssertionEvent(r)
<1>1. event.result = job[r].result
  BY DEF AssertionEvent
<1>2. Emit(r, event) /\ pc[r] = "assert"
  BY DEF EmitAssertions
<1> HIDE DEF event
<1>3. events[r] \in Seq(Event) /\ Len(events[r]) = 1 /\ events'[r] = Append(events[r], event)
  BY <1>2 DEF EmissionOf, Emit, TypeOK, ExecutorTypeOK
<1>4. /\ events[r] # <<>> /\ events'[r] # <<>>
      /\ events'[r][1] = events[r][1]
      /\ Len(events'[r]) = 2 /\ events'[r][2] = event
  BY <1>3
<1>5. Standing(r)' = Standing(r) /\ Told(r) = None /\ Told(r)' = job[r].result
  <2>1. Standing(r)' = Standing(r)
    BY <1>4 DEF Standing
  <2> QED
    BY <1>1, <1>3, <1>4, <2>1 DEF Told
<1>6. ReportOf(r)
  BY <1>2 DEF DecisionOf
<1>7. DescriptorOf[r].on_failure \in {"block_publish", "quarantine", "warn"}
  BY ExecutorAssumption DEF Descriptor
<1>8. CASE Blocked(r)
  BY <1>4, <1>5, <1>6, <1>8 DEF ReportOf, DecisionOf, Standing
<1>9. CASE ~Blocked(r)
  <2>1. Standing(r) = IF job[r].side THEN "quarantined" ELSE "completed"
    BY <1>4, <1>6, <1>9 DEF ReportOf, Standing
  <2> QED
    BY <1>5, <1>6, <1>7, <1>9, <2>1 DEF ReportOf, Decided, Verdict
<1> QED
  BY <1>8, <1>9

LEMMA StepImplements ==
  ASSUME TypeOK, TypeOK', NEW r \in Runs, EmissionOf(r), EmissionOf(r)', DecisionOf(r),
         Parse(r) \/ Step(r) \/ Dies(r) \/ Edit(r)
  PROVE  [Contract!Next]_<<standing, told>>
<1> DEFINE Lenient == {q \in Runs : DescriptorOf[q].on_failure = "warn"}
<1>1. /\ standing' = [standing EXCEPT ![r] = Standing(r)']
      /\ told' = [told EXCEPT ![r] = Told(r)']
  BY OneMoves
<1>2. standing[r] = Standing(r) /\ told[r] = Told(r)
  BY DEF standing, told
<1>3. told \in [Runs -> {Told(q) : q \in Runs}] /\ standing \in [Runs -> {Standing(q) : q \in Runs}]
  BY DEF standing, told
<1>4. ASSUME Told(r)' = Told(r) PROVE told' = told
  BY <1>1, <1>2, <1>3, <1>4
<1>5. CASE Same(r)
  BY <1>1, <1>2, <1>3, <1>5 DEF Same
<1>6. ASSUME NEW one, NEW other, From(r, one, other)
      PROVE  standing[r] = one /\ standing' = [standing EXCEPT ![r] = other] /\ told' = told
  BY <1>1, <1>2, <1>4, <1>6 DEF From
<1>7. ASSUME Contract!Move(r)
      PROVE  [Contract!Next]_<<standing, told>>
  BY <1>7 DEF Contract!Next
<1>8. CASE EmitAssertions(r)
  <2>1. Standing(r)' = Standing(r)
    BY <1>8, TellContract
  <2>2. standing' = standing
    BY <1>1, <1>2, <1>3, <2>1
  <2>3. Contract!Tell(r)
    BY <1>1, <1>2, <1>8, <2>2, TellContract DEF Contract!Tell, Contract!Reports, standing, told
  <2> QED
    BY <1>7, <2>3 DEF Contract!Move
<1>9. CASE EmitTerminal(r) \/ EmitFailure(r)
  BY <1>6, <1>7, <1>9, ReportContract
  DEF Contract!Move, Contract!Become, Contract!Complete, Contract!Quarantine, Contract!Fail,
      standing, told
<1>10. CASE ~Emits(r)
  <2>1. CASE From(r, "waiting", "working") \/ From(r, "working", "in place")
             \/ From(r, "working", "set aside")
    BY <1>6, <1>7, <2>1
    DEF Contract!Move, Contract!Become, Contract!Begin, Contract!Place, Contract!PlaceAside,
        standing, told
  <2>2. ASSUME NEW one \in {"waiting", "working", "in place", "set aside"}, From(r, one, "lost")
        PROVE  Contract!Lose(r)
    BY <1>6, <2>2 DEF Contract!Lose, Contract!Become, standing, told
  <2> QED
    BY <1>5, <1>7, <1>10, <2>1, <2>2, QuietContract DEF Contract!Move
<1> QED
  BY <1>8, <1>9, <1>10 DEF Emits

LEMMA StartsAsContract == Init => Contract!Init
<1> SUFFICES ASSUME Init, NEW r \in Runs
             PROVE  Standing(r) = "waiting" /\ Told(r) = None
  BY DEF Contract!Init
<1>1. events[r] = <<>> /\ pc[r] = "idle"
  BY DEF Init, ExecutorInit
<1>2. Len(events[r]) = 0
  BY <1>1
<1>3. Told(r) = None
  BY <1>2 DEF Told
<1> QED
  BY <1>1, <1>3 DEF Standing

\* run.py:41 and 148-172.  The contract of RunContract: for every set of runs, descriptors and
\* releases, and whichever runs die or find the catalog taken, each step of the
\* executor is a step RunContract allows, or one that nobody outside can see.
THEOREM ImplementsTheContract == Spec => Contract!Steps
<1>1. TypeOK /\ ContractInv /\ (TypeOK /\ ContractInv)' /\ [Next]_vars
        => [Contract!Next]_<<standing, told>>
  <2> SUFFICES ASSUME TypeOK, ContractInv, TypeOK', ContractInv', [Next]_vars
               PROVE  [Contract!Next]_<<standing, told>>
    OBVIOUS
  <2>1. ASSUME NEW r \in Runs, Parse(r) \/ Step(r) \/ Dies(r) \/ Edit(r)
        PROVE  [Contract!Next]_<<standing, told>>
    BY <2>1, StepImplements DEF ContractInv
  <2>2. CASE UNCHANGED runVars
    BY <2>2 DEF runVars, standing, told, Standing, Told
  <2>3. ASSUME NEW a \in Apps, App(a) PROVE UNCHANGED runVars
    BY <2>3 DEF App, AppShips, AppPublishes, AppLeaves
  <2> QED
    BY <2>1, <2>2, <2>3 DEF Next, Resting, vars
<1> QED
  BY <1>1, StartsAsContract, ContractInvAlways, PTL DEF Spec, Contract!Steps, standing, told

-----------------------------------------------------------------------------
(* Guarded targets *)

\* A run that is to publish and is not to put its rows aside may publish.
LEMMA BoundRunsMayWrite ==
  ASSUME NEW q \in Runs, DecisionOf(q), pc[q] \in Bound, ~job[q].side
  PROVE  q \in Active /\ Publishable(q)
<1>1. DescriptorOf[q].on_failure \in {"block_publish", "quarantine", "warn"}
  BY ExecutorAssumption DEF Descriptor
<1> QED
  BY <1>1 DEF DecisionOf, Decided, Bound, Active, Ended, Publishable, Verdict

Kept(t, l) == UNCHANGED <<data[t], tables[t], lf_tags[t], files[l]>>

Guarded(t) == \E q \in Active : DescriptorOf[q].target = t /\ Publishable(q)

\* Who writes to a declared target declares it, and may.
LEMMA WriterMay ==
  ASSUME NEW q \in Runs, NEW r \in Runs, DecisionOf(q), pc[q] \in Bound,
         \/ Table(q) = DescriptorOf[r].target
         \/ DescriptorOf[r].location \in Under[Location(q)]
  PROVE  Guarded(DescriptorOf[r].target)
<1>1. ~job[q].side /\ DescriptorOf[q].target = DescriptorOf[r].target
  <2>1. CASE Table(q) = DescriptorOf[r].target
    BY <2>1, WarehouseAssumption DEF Table
  <2>2. CASE DescriptorOf[r].location \in Under[Location(q)]
    BY <2>2, WarehouseAssumption DEF Location
  <2> QED
    BY <2>1, <2>2
<1> QED
  BY <1>1, BoundRunsMayWrite DEF Guarded

\* What each of a run's steps may change: the files under its location, the rows
\* of its table, and through the session it holds what is listed of it.
LEMMA RunGuarded ==
  ASSUME TypeOK, NEW q \in Runs, DecisionOf(q), HeldOf(q), StaleOf(q), NEW r \in Runs,
         Parse(q) \/ Step(q) \/ Dies(q) \/ Edit(q)
  PROVE  Kept(DescriptorOf[r].target, DescriptorOf[r].location)
           \/ Guarded(DescriptorOf[r].target)
<1> DEFINE t == DescriptorOf[r].target
           l == DescriptorOf[r].location
<1>1. t \in Tables /\ l \in Locations /\ Table(q) \in Tables /\ Location(q) \in Locations
  BY DescriptorFields, TargetType
<1>2. UNCHANGED <<data[t], tables[t], lf_tags[t]>> \/ Guarded(t)
  <2>1. CASE PublishTable(q)
    <3>1. pc[q] \in Bound
      BY <2>1 DEF PublishTable, Bound
    <3>2. CASE Table(q) = t
      BY <3>1, <3>2, WriterMay
    <3>3. CASE Table(q) # t
      BY <1>1, <2>1, <3>3 DEF PublishTable, CreateTable, TypeOK, CatalogTypeOK
    <3> QED
      BY <3>2, <3>3
  <2>2. CASE Register(q)
    <3>1. pc[q] \in Bound
      BY <2>2 DEF Register, Bound
    <3>2. CASE Table(q) = t
      BY <3>1, <3>2, WriterMay
    <3>3. CASE Table(q) # t
      BY <1>1, <2>2, <3>3 DEF Register, BeginRegister, TypeOK, CatalogTypeOK
    <3> QED
      BY <3>2, <3>3
  <2>3. CASE InsertColumn(q) \/ DeleteTags(q) \/ InsertTag(q)
    <3>1. pc[q] \in Bound /\ session.table = Table(q)
      BY <2>3 DEF InsertColumn, DeleteTags, InsertTag, Holds, HeldOf, Bound
    <3>2. CASE Table(q) = t
      BY <3>1, <3>2, WriterMay
    <3>3. CASE Table(q) # t
      BY <1>1, <2>3, <3>1, <3>3
      DEF InsertColumn, DeleteTags, InsertTag, TypeOK, CatalogTypeOK
    <3> QED
      BY <3>2, <3>3
  <2>4. UNCHANGED <<tables, lf_tags, data>> \/ PublishTable(q) \/ Register(q)
          \/ InsertColumn(q) \/ DeleteTags(q) \/ InsertTag(q)
    BY CatalogSteps
  <2> QED
    BY <2>1, <2>2, <2>3, <2>4
<1>3. files'[l] = files[l] \/ Guarded(t)
  <2>1. CASE (Clears(q) \/ WriteFiles(q)) /\ ~UNCHANGED files
    <3>1. pc[q] \in Bound
      BY <2>1 DEF Clears, ListStale, UnlinkStale, WriteFiles, Bound
    <3>2. CASE l \in Under[Location(q)]
      BY <3>1, <3>2, WriterMay
    <3>3. CASE l \notin Under[Location(q)]
      <4>1. l # Location(q)
        BY <1>1, <3>3, ExecutorAssumption
      <4> QED
        BY <1>1, <2>1, <3>3, <4>1
        DEF Clears, ListStale, UnlinkStale, Advance, Escape, WriteFiles, Raise, StaleOf, TypeOK,
            ExecutorTypeOK
    <3> QED
      BY <3>2, <3>3
  <2>2. UNCHANGED files \/ Clears(q) \/ WriteFiles(q)
    BY FileSteps
  <2> QED
    BY <2>1, <2>2
<1> QED
  BY <1>2, <1>3 DEF Kept

LEMMA AppGuarded ==
  ASSUME TypeOK, SessionInv, NEW a \in Apps, App(a), NEW r \in Runs
  PROVE  Kept(DescriptorOf[r].target, DescriptorOf[r].location)
<1> DEFINE t == DescriptorOf[r].target
<1>1. t \in Tables \ AppTables
  BY DescriptorFields, TargetsAssumption
<1>2. UNCHANGED files
  BY DEF App, AppShips, AppPublishes, AppLeaves, runVars
<1> QED
  BY <1>1, <1>2, AppStays DEF Kept

\* run.py:148-172, local.py:100-104.  Of any number of runs with any descriptors, none
\* changes the files, rows, shape or tags of a declared target on account of a batch
\* its suite did not let through: not by quarantining it beside the target, and not
\* by failing or dying on the way.
THEOREM TargetsAreAlwaysGuarded == Spec => TargetsAreGuarded
<1> DEFINE Step1 == \A r \in Runs : Kept(DescriptorOf[r].target, DescriptorOf[r].location)
                                      \/ Guarded(DescriptorOf[r].target)
           H == \A q \in Runs : HeldOf(q)
           S == \A q \in Runs : StaleOf(q)
<1>1. TypeOK /\ ContractInv /\ SessionInv /\ H /\ S /\ [Next]_vars => Step1
  <2> SUFFICES ASSUME TypeOK, ContractInv, SessionInv, H, S, [Next]_vars, NEW r \in Runs
               PROVE  Kept(DescriptorOf[r].target, DescriptorOf[r].location)
                        \/ Guarded(DescriptorOf[r].target)
    OBVIOUS
  <2>1. CASE UNCHANGED vars
    BY <2>1 DEF vars, catalogVars, runVars, Kept
  <2>2. ASSUME NEW q \in Runs, Parse(q) \/ Step(q) \/ Dies(q) \/ Edit(q)
        PROVE  Kept(DescriptorOf[r].target, DescriptorOf[r].location)
                 \/ Guarded(DescriptorOf[r].target)
    BY <2>2, RunGuarded DEF ContractInv
  <2> QED
    BY <2>1, <2>2, AppGuarded DEF Next, Resting
<1>2. Step1 => [\A r \in Runs :
       LET t == DescriptorOf[r].target
           l == DescriptorOf[r].location IN
       \/ UNCHANGED <<data[t], tables[t], lf_tags[t], files[l]>>
       \/ \E q \in Active : DescriptorOf[q].target = t /\ Publishable(q)]_vars
  BY DEF Kept, Guarded
<1>3. Spec => []H
  BY HeldAlways
<1>4. Spec => []S
  BY StaleAlways
<1> HIDE DEF Step1, H, S
<1> QED
  BY <1>1, <1>2, <1>3, <1>4, ContractInvAlways, SessionAlways, PTL DEF Spec, TargetsAreGuarded

-----------------------------------------------------------------------------
(* Pins and rows *)

\* What is listed is stored.
StoredInv == \A t \in Tables : data[t] = None =>
               t \notin AppTables /\ \A v \in Versions : tables[t][v] = {}

LEMMA StoredStays ==
  ASSUME TypeOK, [Next]_vars, NEW t \in Tables, data[t] # None
  PROVE  data'[t] # None
<1> USE DEF TypeOK, CatalogTypeOK, ExecutorTypeOK
<1>1. CASE UNCHANGED data
  BY <1>1
<1>2. ASSUME NEW r \in Runs, PublishTable(r) PROVE data'[t] # None
  <2> DEFINE content == [columns |-> job[r].frame, by |-> r]
  <2>1. content \in Content
    BY DEF Job, Content
  <2> HIDE DEF content
  <2>2. data' = [data EXCEPT ![Table(r)] = content]
    BY <1>2 DEF PublishTable, CreateTable, content
  <2> QED
    BY <2>1, <2>2, CatalogAssumption
<1>3. ASSUME NEW r \in Runs, Parse(r) \/ Step(r) \/ Dies(r) \/ Edit(r) PROVE data'[t] # None
  BY <1>1, <1>2, <1>3, CatalogSteps DEF Register, BeginRegister, InsertColumn, DeleteTags, InsertTag
<1>4. ASSUME NEW a \in Apps, App(a) PROVE data'[t] # None
  <2>1. CASE AppShips(a)
    <3>1. PICK u \in AppTables, shape \in Shapes, release \in Releases : Ship(a, u, shape, release)
      BY <2>1, RuntimeAssumption DEF AppShips
    <3> DEFINE content == [columns |-> shape, by |-> release]
    <3>2. content \in Content
      BY CatalogAssumption DEF Content
    <3> HIDE DEF content
    <3>3. data' = [data EXCEPT ![u] = content]
      BY <3>1 DEF Ship, content
    <3> QED
      BY <3>2, <3>3, CatalogAssumption
  <2> QED
    BY <1>1, <1>4, <2>1 DEF App, AppPublishes, AppLeaves, Publish, Disconnect
<1> QED
  BY <1>1, <1>3, <1>4 DEF Next, Resting, vars, catalogVars

\* A table that is being registered has rows, whosever they are.
RowsOf(q) == pc[q] \in {"register", "registering"} => data[Table(q)] # None

LEMMA RowsInductive ==
  ASSUME TypeOK, [Next]_vars, NEW q \in Runs, RowsOf(q)
  PROVE  RowsOf(q)'
<1> USE DEF TypeOK, CatalogTypeOK, ExecutorTypeOK, Goto
<1>0. Table(q) \in Tables /\ job[q] \in Job
  BY TargetType
<1>1. ASSUME pc'[q] = pc[q], job'[q] = job[q] PROVE RowsOf(q)'
  BY <1>0, <1>1, StoredStays DEF RowsOf, Table
<1>2. ASSUME NEW r \in Runs \ {q}, Parse(r) \/ Step(r) \/ Dies(r) \/ Edit(r) PROVE RowsOf(q)'
  BY <1>1, <1>2, OthersStay
<1>3. ASSUME Parse(q) \/ Step(q) \/ Dies(q) \/ Edit(q) PROVE RowsOf(q)'
  <2>1. CASE PublishTable(q)
    <3> DEFINE content == [columns |-> job[q].frame, by |-> q]
    <3>1. content \in Content
      BY <1>0 DEF Job, Content
    <3> HIDE DEF content
    <3>2. data' = [data EXCEPT ![Table(q)] = content] /\ Table(q)' = Table(q)
      BY <2>1 DEF PublishTable, CreateTable, Table, content
    <3> QED
      BY <1>0, <3>1, <3>2, CatalogAssumption DEF RowsOf
  <2>2. CASE pc[q] \in {"register", "registering"} /\ UNCHANGED job
    BY <1>0, <2>2, StoredStays DEF RowsOf, Table
  <2>3. ASSUME pc'[q] \in {"register", "registering"}
        PROVE  PublishTable(q) \/ (pc[q] \in {"register", "registering"} /\ UNCHANGED job)
    BY <1>3, <2>3
    DEF Step, Parse, Dies, Edit, Escape, Refused, Resolve, Raise, Advance, Read, ReadGlueTable,
        ReadDmsLanding, ReadFrame, RunSteps, ResolvePolicy, ValidateFrame, Prepare, ListStale,
        UnlinkStale, WriteFiles, Register, Registering, runVars, EmitTerminal, EmitFailure, EmitAssertions
  <2> QED
    BY <2>1, <2>2, <2>3 DEF RowsOf
<1>4. CASE UNCHANGED runVars
  BY <1>1, <1>4 DEF runVars
<1> QED
  BY <1>2, <1>3, <1>4 DEF Next, Resting, App, AppShips, AppPublishes, AppLeaves, vars

LEMMA StoredInductive ==
  ASSUME TypeOK, SessionInv, \A q \in Runs : HeldOf(q) /\ RowsOf(q), StoredInv, [Next]_vars
  PROVE  StoredInv'
<1> USE DEF TypeOK, CatalogTypeOK, ExecutorTypeOK
<1> SUFFICES ASSUME NEW t \in Tables, data'[t] = None
             PROVE  t \notin AppTables /\ \A v \in Versions : tables'[t][v] = {}
  BY DEF StoredInv
<1>1. data[t] = None /\ t \notin AppTables /\ \A v \in Versions : tables[t][v] = {}
  BY StoredStays DEF StoredInv
<1>2. ASSUME NEW r \in Runs, Register(r) PROVE \A v \in Versions : tables'[t][v] = {}
  BY <1>1, <1>2, TargetType, OneIsAVersion DEF Register, BeginRegister
<1>3. ASSUME NEW r \in Runs, InsertColumn(r) PROVE tables'[t] = tables[t]
  <2>1. session.table = Table(r) /\ pc[r] = "registering"
    BY <1>3 DEF InsertColumn, Holds, HeldOf
  <2>2. data[Table(r)] # None
    BY <2>1 DEF RowsOf
  <2> QED
    BY <1>1, <1>3, <2>1, <2>2 DEF InsertColumn
<1>4. ASSUME NEW r \in Runs, Parse(r) \/ Step(r) \/ Dies(r) \/ Edit(r)
      PROVE  \A v \in Versions : tables'[t][v] = {}
  BY <1>1, <1>2, <1>3, <1>4, CatalogSteps DEF PublishTable, CreateTable, DeleteTags, InsertTag
<1>5. ASSUME NEW a \in Apps, App(a) PROVE \A v \in Versions : tables'[t][v] = {}
  BY <1>1, <1>5, AppStays
<1> QED
  BY <1>1, <1>4, <1>5 DEF Next, Resting, vars, catalogVars

\* A pin that resolved leads to rows that are there.
LedOf(r) == pc[r] = "read" => data[DescriptorOf[r].source] # None

LEMMA LedInductive ==
  ASSUME TypeOK, StoredInv, [Next]_vars, NEW r \in Runs, LedOf(r)
  PROVE  LedOf(r)'
<1> USE DEF TypeOK, ExecutorTypeOK, CatalogTypeOK, Goto
<1>0. DescriptorOf[r].source \in Tables /\ DescriptorOf[r].schema_version \in Versions
  BY DescriptorFields
<1>1. ASSUME pc'[r] = pc[r] PROVE LedOf(r)'
  BY <1>0, <1>1, StoredStays DEF LedOf
<1>2. ASSUME NEW q \in Runs \ {r}, Parse(q) \/ Step(q) \/ Dies(q) \/ Edit(q) PROVE LedOf(r)'
  BY <1>1, <1>2, OthersStay
<1>3. ASSUME Parse(r) \/ Step(r) \/ Dies(r) \/ Edit(r) PROVE LedOf(r)'
  <2>1. CASE AtPin(DescriptorOf[r].source, DescriptorOf[r].schema_version)
    BY <1>0, <2>1, StoredStays DEF AtPin, Recorded, StoredInv, LedOf
  <2>2. CASE Edit(r)
    BY <1>1, <2>2 DEF Edit
  <2>3. ASSUME pc'[r] = "read", ~Edit(r)
        PROVE  AtPin(DescriptorOf[r].source, DescriptorOf[r].schema_version)
    BY <1>3, <2>3
    DEF Step, Parse, Dies, Escape, Refused, Resolve, Raise, Advance, Read, ReadGlueTable,
        ReadDmsLanding, ReadFrame, RunSteps, ResolvePolicy, ValidateFrame, Prepare, ListStale,
        UnlinkStale, WriteFiles, PublishTable, Register, Registering, runVars, EmitTerminal, EmitFailure,
        EmitAssertions, Querying, Publishing
  <2> QED
    BY <2>1, <2>2, <2>3 DEF LedOf
<1>4. CASE UNCHANGED runVars
  BY <1>1, <1>4 DEF runVars
<1> QED
  BY <1>2, <1>3, <1>4 DEF Next, Resting, App, AppShips, AppPublishes, AppLeaves, vars

\* catalog.py:392 and local.py:47.  For every set of runs and releases, however runs
\* overlap, fail and die: a run that has its pin finds rows there to read, because what
\* is listed is stored before it is listed and nobody takes a table away.
THEOREM PinsAlwaysLeadToRows == Spec => []PinsLeadToRows
<1> DEFINE L == \A q \in Runs : LedOf(q)
           R == \A q \in Runs : RowsOf(q)
           H == \A q \in Runs : HeldOf(q)
<1>1. Init => StoredInv /\ L /\ R
  BY CatalogAssumption
  DEF Init, CatalogInit, ExecutorInit, StoredInv, LedOf, RowsOf, Content
<1>2. TypeOK /\ SessionInv /\ H /\ StoredInv /\ L /\ R /\ [Next]_vars => (StoredInv /\ L /\ R)'
  BY StoredInductive, LedInductive, RowsInductive
<1>3. L => PinsLeadToRows
  BY DEF LedOf, PinsLeadToRows
<1> HIDE DEF L, R, H
<1>4. Spec => []H
  BY HeldAlways DEF H
<1> QED
  BY <1>1, <1>2, <1>3, <1>4, TypeCorrect, SessionAlways, PTL DEF Spec

LEMMA NeverRefused ==
  ASSUME Apps = {}, TypeOK, SessionInv, Alone, \A q \in Runs : HeldOf(q), NEW r \in Runs
  PROVE  ~Refused(r)
<1> SUFFICES ASSUME Refused(r) PROVE FALSE
  OBVIOUS
<1>1. r \in Active /\ pc[r] # "registering"
  BY DEF Refused, Querying, Publishing, Active, Ended
<1>2. CASE session # None
  <2>1. session.holder \in Runs
    BY <1>2 DEF SessionInv
  <2>2. pc[session.holder] = "registering" /\ session.holder \in Active
    BY <1>2, <2>1 DEF HeldOf, Active, Ended
  <2> QED
    BY <1>1, <2>2 DEF Alone
<1>3. ASSUME NEW q \in Runs \ {r}, Publishing(q) \/ Querying(q) PROVE FALSE
  <2>1. q \in Active
    BY <1>3 DEF Querying, Publishing, Active, Ended
  <2> QED
    BY <1>1, <1>3, <2>1 DEF Alone
<1> QED
  BY <1>2, <1>3 DEF Refused

\* catalog.py:83.  Where runs do not overlap and no application has the catalog, no run
\* is ever refused it, whatever earlier runs left when they failed or died.
THEOREM AloneNobodyIsRefused ==
  ASSUME IsFiniteSet(Runs), MaxActive = 1, Apps = {}
  PROVE  Spec => [][\A r \in Runs : ~Refused(r)]_vars
<1> DEFINE H == \A q \in Runs : HeldOf(q)
           C == \A r \in Runs : ~Refused(r)
<1>1. TypeOK /\ SessionInv /\ Alone /\ H => C
  BY NeverRefused
<1> HIDE DEF H, C
<1>2. Spec => []H
  BY HeldAlways DEF H
<1>3. Spec => [][C]_vars
  BY <1>1, <1>2, AloneAlways, TypeCorrect, SessionAlways, PTL
<1> QED
  BY <1>3 DEF C

-----------------------------------------------------------------------------
(* Owners of products *)

\* The stages of a run whose table is registered, or will never be.
Late == {"emit", "assert", "returned", "raised", "escaped"}

\* A product's name is a writer's domain, or a writer was cut short.
Vouched(t, name) ==
  \E q \in Runs : /\ Table(q) = t
                  /\ pc[q] \in Late
                  /\ pc[q] = "escaped" \/ DescriptorOf[q].domain = name

\* What a registration has yet to do to the tags.
TaggingOf(q) ==
  pc[q] = "registering" =>
    /\ session # None /\ session.holder = q /\ session.table = Table(q)
    /\ \/ session.stage = "columns" /\ session.tags = DescriptorOf[q].lf_tags
       \/ /\ session.stage = "tags"
          /\ lf_tags[Table(q)] \cup session.tags = DescriptorOf[q].lf_tags

\* Its tags are those of a run that registered it, or somebody was cut short there.
Tagged(t) ==
  \E q \in Runs :
    /\ Table(q) = t
    /\ pc[q] \in Late
    /\ \/ pc[q] = "escaped"
       \/ /\ lf_tags[t] = DescriptorOf[q].lf_tags
          /\ lf_tags[t] # {}
          /\ lf_tags[t] \subseteq Ontology

Reading == {"read", "steps", "policy", "validate", "prepare"}

\* Nobody registered it yet, and so nobody whose pin resolved reads it.
Untouched(t) ==
  /\ \A v \in Versions : tables[t][v] = {}
  /\ \A r \in Runs : DescriptorOf[r].source = t => pc[r] \notin Reading

BeingRegistered(t) == session # None /\ session.table = t

TagsOf(t) == BeingRegistered(t) \/ Tagged(t) \/ Untouched(t)

\* Who reads or writes a product, by the stage he is at.
Lawful == {"validate", "prepare"} \cup Bound

VouchedOf(r) ==
  LET source == DescriptorOf[r].source IN
  /\ pc[r] \in Lawful => DescriptorOf[r].lf_tags \subseteq Ontology
  /\ pc[r] \in Bound /\ source \notin AppTables => Vouched(source, job[r].owner)
  /\ \A i \in DOMAIN events[r] : \A set \in events[r][i].inputs \cup events[r][i].outputs :
       set.name \notin AppTables =>
         Vouched(set.name, set.namespace)

Labelled ==
  \A q \in Runs :
    LET d == DescriptorOf[q] IN
    d.lf_tags # {} /\ d.lf_tags \subseteq Ontology =>
      {g \in d.lf_tags : g.key = "domain"} = {[key |-> "domain", value |-> d.domain]}

\* Where a run writes is settled when it leaves Prepare.
LEMMA SideStays ==
  ASSUME TypeOK, NEW r \in Runs, Parse(r) \/ Step(r) \/ Dies(r) \/ Edit(r), pc[r] # "prepare"
  PROVE  (job'[r].side <=> job[r].side) /\ Table(r)' = Table(r)
<1> USE DEF TypeOK, ExecutorTypeOK, Goto
<1> SUFFICES job'[r].side <=> job[r].side
  BY DEF Table
<1>0. job[r] \in Job
  OBVIOUS
<1>1. ASSUME NEW e, Raise(r, e) PROVE job'[r].side <=> job[r].side
  BY <1>0, <1>1 DEF Raise, Job
<1>2. ASSUME UNCHANGED job PROVE job'[r].side <=> job[r].side
  BY <1>2
<1>3. CASE (Parse(r) \/ RunSteps(r) \/ ValidateFrame(r)) /\ ~Escape(r)
  <2>1. CASE Parse(r)
    BY <1>0, <2>1 DEF Parse, Job
  <2>2. CASE RunSteps(r) /\ ~Escape(r)
    <3>1. (\E e : Raise(r, e)) \/ \E frame : job' = [job EXCEPT ![r].frame = frame]
      BY <2>2 DEF RunSteps
    <3> QED
      BY <1>0, <1>1, <3>1 DEF Job
  <2>3. CASE ValidateFrame(r) /\ ~Escape(r)
    <3>1. PICK verdict : job' = [job EXCEPT ![r].result = verdict]
      BY <2>3 DEF ValidateFrame
    <3> QED
      BY <1>0, <3>1 DEF Job
  <2> QED
    BY <1>3, <2>1, <2>2, <2>3
<1>4. CASE Resolve(r)
  <2> DEFINE schema  == tables[DescriptorOf[r].source][DescriptorOf[r].schema_version]
             release == versions[DescriptorOf[r].source][DescriptorOf[r].schema_version]
  <2>1. \/ job' = [job EXCEPT ![r].schema = schema, ![r].publication = release]
        \/ Raise(r, "SchemaDrift")
    BY <1>4 DEF Resolve
  <2> HIDE DEF schema, release
  <2> QED
    BY <1>0, <1>1, <2>1 DEF Job
<1>5. CASE Read(r)
  <2>1. CASE ReadFrame(r)
    BY <1>0, <1>1, <2>1 DEF ReadFrame, Job
  <2> QED
    BY <1>1, <1>2, <1>5, <2>1 DEF Read, ReadGlueTable, ReadDmsLanding, Escape
<1>6. CASE Escape(r) \/ Dies(r) \/ Edit(r) \/ Refused(r) \/ PublishTable(r) \/ Register(r)
           \/ Registering(r) \/ Emits(r)
  BY <1>2, <1>6 DEF Dies, Edit, Refused, Escape, PublishTable, Register,
     Registering, runVars, Emits, EmitTerminal, EmitFailure, EmitAssertions
<1>7. CASE ResolvePolicy(r) \/ WriteFiles(r)
  BY <1>1, <1>2, <1>6, <1>7 DEF ResolvePolicy, WriteFiles
<1>8. ~Prepare(r)
  BY DEF Prepare
<1>9. CASE Clears(r)
  BY <1>9, ClearingKeeps
<1> QED
  BY <1>3, <1>4, <1>5, <1>6, <1>7, <1>8, <1>9 DEF Step, Emits, Clears, Table

LEMMA LateStays ==
  ASSUME TypeOK, [Next]_vars, NEW q \in Runs, pc[q] \in Late
  PROVE  /\ pc'[q] \in Late /\ Table(q)' = Table(q)
         /\ pc[q] = "escaped" => pc'[q] = "escaped"
<1>1. ASSUME pc'[q] = pc[q], job'[q] = job[q]
      PROVE  pc'[q] = pc[q] /\ Table(q)' = Table(q)
  BY <1>1 DEF Table
<1>2. ASSUME Parse(q) \/ Step(q) \/ Dies(q) \/ Edit(q)
      PROVE  /\ pc'[q] \in Late /\ Table(q)' = Table(q)
             /\ pc[q] = "escaped" => pc'[q] = "escaped"
  <2>1. ~Parse(q) /\ q \in Active
    BY <1>2, ActiveSteps DEF Parse, Late
  <2>2. pc'[q] \in Late
    BY <1>2, <2>1
    DEF TypeOK, ExecutorTypeOK, Goto, Late, Active, Ended, Step, Dies, Edit, Escape, Refused,
        Querying, Publishing, Resolve, Read, RunSteps, ResolvePolicy, ValidateFrame, Prepare,
        ListStale, UnlinkStale, WriteFiles, PublishTable, Register, Registering, EmitTerminal,
        EmitFailure, EmitAssertions
  <2> QED
    BY <1>2, <2>1, <2>2, SideStays DEF Late, Active, Ended
<1>3. ASSUME NEW r \in Runs, r # q, Parse(r) \/ Step(r) \/ Dies(r) \/ Edit(r)
      PROVE  pc'[q] = pc[q] /\ job'[q] = job[q]
  BY <1>3, OthersStay
<1>4. ASSUME NEW a \in Apps, App(a) PROVE pc'[q] = pc[q] /\ job'[q] = job[q]
  BY <1>4 DEF App, AppShips, AppPublishes, AppLeaves, runVars
<1> QED
  BY <1>1, <1>2, <1>3, <1>4 DEF Next, Resting, vars, runVars

LEMMA VouchedStays ==
  ASSUME TypeOK, [Next]_vars, NEW t, NEW name, Vouched(t, name)
  PROVE  Vouched(t, name)'
<1>1. PICK q \in Runs : /\ Table(q) = t
                        /\ pc[q] \in Late
                        /\ pc[q] = "escaped" \/ DescriptorOf[q].domain = name
  BY DEF Vouched
<1>2. /\ Table(q)' = t
      /\ pc'[q] \in Late
      /\ pc'[q] = "escaped" \/ DescriptorOf[q].domain = name
  BY <1>1, LateStays
<1> QED
  BY <1>2 DEF Vouched

\* A session's tags are its holder's alone to write, whoever runs beside it.
LEMMA TaggingInductive ==
  ASSUME TypeOK, SessionInv, [Next]_vars, NEW q \in Runs, TaggingOf(q)
  PROVE  TaggingOf(q)'
<1> USE DEF TypeOK, CatalogTypeOK, ExecutorTypeOK, Goto
<1>0. Table(q) \in Tables /\ DescriptorOf[q].lf_tags \in SUBSET Tag
  BY TargetType, DescriptorFields
<1>1. ASSUME pc'[q] = pc[q], job'[q] = job[q], pc[q] = "registering" => session' = session,
             pc[q] = "registering" => lf_tags'[Table(q)] = lf_tags[Table(q)]
      PROVE  TaggingOf(q)'
  BY <1>1 DEF TaggingOf, Table
<1>2. ASSUME NEW r \in Runs \ {q}, Parse(r) \/ Step(r) \/ Dies(r) \/ Edit(r)
      PROVE  TaggingOf(q)'
  <2>1. pc'[q] = pc[q] /\ job'[q] = job[q]
    BY <1>2, OthersStay
  <2>2. ASSUME pc[q] = "registering" PROVE session' = session /\ lf_tags' = lf_tags
    <3>1. session # None /\ session.holder = q
      BY <2>2 DEF TaggingOf
    <3>2. ~DeleteTags(r) /\ ~InsertTag(r)
      BY <3>1 DEF DeleteTags, InsertTag, Holds
    <3>3. lf_tags' = lf_tags
      BY <1>2, <3>2, CatalogSteps DEF PublishTable, CreateTable, Register, BeginRegister, InsertColumn
    <3> QED
      BY <1>2, <3>1, <3>3, SessionOutlasts
  <2> QED
    BY <1>1, <2>1, <2>2
<1>3. ASSUME Parse(q) \/ Step(q) \/ Dies(q) \/ Edit(q)
      PROVE  TaggingOf(q)'
  <2>1. CASE pc'[q] # "registering"
    BY <2>1 DEF TaggingOf
  <2>2. CASE Edit(q)
    BY <1>1, <2>2 DEF Edit, catalogVars
  <2>3. CASE Register(q)
    <3> DEFINE columns == AsRegistered(job[q].frame)
    <3>1. /\ session'.holder = q /\ session'.table = Table(q) /\ session'.stage = "columns"
          /\ session'.tags = DescriptorOf[q].lf_tags
          /\ Table(q)' = Table(q)
      BY <2>3 DEF Register, BeginRegister, Table
    <3>2. columns \in SUBSET Column
      BY AsRegisteredType DEF Job
    <3>3. session' \in Session
      BY <1>0, <2>3, <3>2 DEF Register, BeginRegister, Session
    <3> QED
      BY <3>1, <3>3, CatalogAssumption DEF TaggingOf
  <2>4. CASE Registering(q) /\ pc'[q] = "registering"
    <3> DEFINE t == Table(q)
    <3>1. /\ session \in Session /\ session.holder = q /\ session.table = t
          /\ t' = t
      BY <2>4 DEF Registering, Escape, runVars, TaggingOf, Table
    <3>2. CASE InsertColumn(q)
      <4>1. PICK c \in session.columns : session' = [session EXCEPT !.columns = @ \ {c}]
        BY <3>2 DEF InsertColumn
      <4>2. /\ session' \in Session /\ session'.holder = q /\ session'.table = t
            /\ session'.stage = session.stage /\ session'.tags = session.tags
        BY <3>1, <4>1 DEF Session
      <4> QED
        BY <2>4, <3>1, <3>2, <4>2, CatalogAssumption DEF InsertColumn, Holds, Registering, TaggingOf
    <3>3. CASE DeleteTags(q)
      <4>1. lf_tags'[t] = {}
        BY <1>0, <3>1, <3>3 DEF DeleteTags
      <4>2. /\ session' \in Session /\ session'.holder = q /\ session'.table = t
            /\ session'.stage = "tags" /\ session'.tags = session.tags
        BY <3>1, <3>3 DEF DeleteTags, Session
      <4>3. session.tags = DescriptorOf[q].lf_tags
        BY <2>4, <3>3 DEF Registering, TaggingOf, DeleteTags, Holds
      <4> QED
        BY <3>1, <4>1, <4>2, <4>3, CatalogAssumption DEF TaggingOf
    <3>4. CASE InsertTag(q)
      <4>1. PICK g \in session.tags :
              /\ lf_tags' = [lf_tags EXCEPT ![t] = @ \cup {g}]
              /\ session' = [session EXCEPT !.tags = @ \ {g}]
        BY <3>1, <3>4 DEF InsertTag
      <4>2. lf_tags'[t] = lf_tags[t] \cup {g}
        BY <1>0, <4>1
      <4>3. /\ session' \in Session /\ session'.tags = session.tags \ {g}
            /\ session'.holder = q /\ session'.table = t /\ session'.stage = session.stage
        BY <3>1, <4>1 DEF Session
      <4>4. lf_tags[t] \cup session.tags = DescriptorOf[q].lf_tags /\ session.stage = "tags"
        BY <2>4, <3>4 DEF Registering, TaggingOf, InsertTag, Holds
      <4> QED
        BY <3>1, <4>2, <4>3, <4>4, CatalogAssumption DEF TaggingOf
    <3> QED
      BY <2>4, <3>2, <3>3, <3>4 DEF Registering, Escape
  <2>5. pc'[q] = "registering" => Edit(q) \/ Register(q) \/ Registering(q)
    BY <1>3
    DEF Step, Parse, Dies, Escape, Refused, Querying, Publishing, Resolve, Raise, Advance, Read,
        ReadGlueTable, ReadDmsLanding, ReadFrame, RunSteps, ResolvePolicy, ValidateFrame, Prepare,
        ListStale, UnlinkStale, WriteFiles, PublishTable, EmitTerminal, EmitFailure, EmitAssertions
  <2> QED
    BY <2>1, <2>2, <2>3, <2>4, <2>5
<1>4. ASSUME NEW a \in Apps, App(a) PROVE TaggingOf(q)'
  <2>1. pc'[q] = pc[q] /\ job'[q] = job[q]
    BY <1>4 DEF App, AppShips, AppPublishes, AppLeaves, runVars
  <2>2. pc[q] # "registering"
    BY <1>4, CatalogAssumption
    DEF TaggingOf, App, AppShips, AppPublishes, AppLeaves, Ship, Publish, Disconnect
  <2> QED
    BY <1>1, <2>1, <2>2
<1>5. CASE UNCHANGED vars
  BY <1>1, <1>5 DEF vars, catalogVars, runVars
<1> QED
  BY <1>2, <1>3, <1>4, <1>5 DEF Next, Resting

LEMMA TaggedStays ==
  ASSUME TypeOK, [Next]_vars, NEW t, Tagged(t), lf_tags'[t] = lf_tags[t]
  PROVE  Tagged(t)'
<1>1. PICK q \in Runs :
        /\ Table(q) = t
        /\ pc[q] \in Late
        /\ \/ pc[q] = "escaped"
           \/ /\ lf_tags[t] = DescriptorOf[q].lf_tags
              /\ lf_tags[t] # {}
              /\ lf_tags[t] \subseteq Ontology
  BY DEF Tagged
<1>2. /\ Table(q)' = t
      /\ pc'[q] \in Late
      /\ pc[q] = "escaped" => pc'[q] = "escaped"
  BY <1>1, LateStays
<1> QED
  BY <1>1, <1>2 DEF Tagged

\* Nobody gets to read what is not listed.
LEMMA ReadingSteps ==
  ASSUME TypeOK, NEW r \in Runs, Parse(r) \/ Step(r) \/ Dies(r) \/ Edit(r), pc'[r] \in Reading,
         \A v \in Versions : tables[DescriptorOf[r].source][v] = {}
  PROVE  pc[r] \in Reading
<1> USE DEF TypeOK, ExecutorTypeOK, Goto, Reading
<1>1. ASSUME NEW e, Raise(r, e) PROVE FALSE
  BY <1>1 DEF Raise
<1>2. CASE Escape(r)
  BY <1>2 DEF Escape
<1>3. CASE Resolve(r)
  BY <1>1, <1>3 DEF Resolve, AtPin, Recorded
<1>4. CASE Edit(r)
  BY <1>4 DEF Edit
<1>5. CASE Parse(r) \/ Emits(r)
  BY <1>5 DEF Parse, Emits, EmitTerminal, EmitFailure, EmitAssertions
<1>6. CASE Dies(r) \/ Refused(r)
  BY <1>2, <1>6 DEF Dies, Refused
<1>7. CASE Read(r) \/ RunSteps(r) \/ ResolvePolicy(r) \/ ValidateFrame(r) \/ Prepare(r)
  BY <1>7 DEF Read, RunSteps, ResolvePolicy, ValidateFrame, Prepare
<1>8. CASE WriteFiles(r) \/ PublishTable(r) \/ Register(r) \/ Registering(r)
  BY <1>1, <1>2, <1>8 DEF WriteFiles, PublishTable, Register, Registering, runVars
<1>9. CASE Clears(r)
  BY <1>2, <1>9, ClearingMoves
<1> QED
  BY <1>3, <1>4, <1>5, <1>6, <1>7, <1>8, <1>9 DEF Step, Emits, Clears

\* While somebody registers a product, the product is his.
LEMMA RegisteringTags ==
  ASSUME TypeOK, [Next]_vars, SessionInv, NEW t \in Tables \ AppTables, BeingRegistered(t),
         \A q \in Runs : HeldOf(q) /\ TaggingOf(q) /\ VouchedOf(q),
         NEW r \in Runs, Parse(r) \/ Step(r) \/ Dies(r) \/ Edit(r)
  PROVE  TagsOf(t)'
<1> USE DEF TypeOK, CatalogTypeOK, ExecutorTypeOK, Goto
<1>1. PICK h \in Runs : session.holder = h
  BY DEF BeingRegistered, SessionInv
<1>2. pc[h] = "registering" /\ Table(h) = t /\ session \in Session
  BY <1>1 DEF BeingRegistered, HeldOf
<1>3. ASSUME session' = session PROVE TagsOf(t)'
  BY <1>3 DEF TagsOf, BeingRegistered
<1>4. CASE r # h
  BY <1>1, <1>3, <1>4, SessionOutlasts DEF BeingRegistered
<1>5. CASE r = h
  <2>1. Table(h)' = t
    BY <1>2, <1>5, SideStays
  <2>2. CASE Escape(h)
    <3>1. pc'[h] = "escaped"
      BY <2>2 DEF Escape
    <3> QED
      BY <2>1, <3>1 DEF TagsOf, Tagged, Late
  <2>3. CASE InsertColumn(h) \/ DeleteTags(h) \/ InsertTag(h)
    <3>1. session' \in Session /\ session'.table = session.table
      <4>1. CASE InsertColumn(h)
        <5>1. PICK c \in session.columns : session' = [session EXCEPT !.columns = @ \ {c}]
          BY <4>1 DEF InsertColumn
        <5> QED
          BY <1>2, <5>1 DEF Session
      <4>2. CASE DeleteTags(h)
        BY <1>2, <4>2 DEF DeleteTags, Session
      <4>3. CASE InsertTag(h)
        <5>1. PICK g \in session.tags : session' = [session EXCEPT !.tags = @ \ {g}]
          BY <4>3 DEF InsertTag
        <5> QED
          BY <1>2, <5>1 DEF Session
      <4> QED
        BY <2>3, <4>1, <4>2, <4>3
    <3> QED
      BY <3>1, CatalogAssumption DEF TagsOf, BeingRegistered
  <2>4. CASE EndRegister(h) /\ DescriptorOf[h].lf_tags # {} /\ pc'[h] = "emit"
    <3>1. session.stage = "tags" /\ session.tags = {} /\ lf_tags' = lf_tags
      BY <2>4 DEF EndRegister, Holds
    <3>2. lf_tags[t] = DescriptorOf[h].lf_tags
      BY <1>2, <3>1 DEF TaggingOf
    <3>3. DescriptorOf[h].lf_tags \subseteq Ontology
      BY <1>2 DEF VouchedOf, Lawful, Bound
    <3> QED
      BY <2>1, <2>4, <3>1, <3>2, <3>3 DEF TagsOf, Tagged, Late
  <2>5. CASE Edit(h)
    BY <1>3, <2>5 DEF Edit, catalogVars
  <2> QED
    BY <1>2, <1>5, <2>2, <2>3, <2>4, <2>5
    DEF Step, Parse, Dies, Refused, Querying, Publishing, Resolve, Read, RunSteps, ResolvePolicy,
        ValidateFrame, Prepare, ListStale, UnlinkStale, WriteFiles, PublishTable, Register, Registering,
        EmitTerminal, EmitFailure, EmitAssertions
<1> QED
  BY <1>4, <1>5

LEMMA RunTags ==
  ASSUME TypeOK, [Next]_vars, SessionInv, NEW t \in Tables \ AppTables, TagsOf(t),
         \A q \in Runs : HeldOf(q) /\ TaggingOf(q) /\ VouchedOf(q),
         NEW r \in Runs, Parse(r) \/ Step(r) \/ Dies(r) \/ Edit(r)
  PROVE  TagsOf(t)'
<1> USE DEF TypeOK, CatalogTypeOK, ExecutorTypeOK
<1>1. CASE BeingRegistered(t)
  BY <1>1, RegisteringTags
<1>2. CASE ~BeingRegistered(t) /\ Tagged(t)
  <2>1. lf_tags'[t] = lf_tags[t]
    BY <1>2, CatalogSteps
    DEF PublishTable, CreateTable, Register, BeginRegister, InsertColumn, DeleteTags, InsertTag,
        Holds, BeingRegistered
  <2> QED
    BY <1>2, <2>1, TaggedStays DEF TagsOf
<1>3. CASE ~BeingRegistered(t) /\ Untouched(t)
  <2>1. CASE Register(r) /\ Table(r) = t
    <3> DEFINE columns == AsRegistered(job[r].frame)
    <3>1. columns \in SUBSET Column /\ DescriptorOf[r].lf_tags \in SUBSET Tag
      BY AsRegisteredType, DescriptorFields DEF Job
    <3>2. session' \in Session /\ session'.table = t
      BY <2>1, <3>1 DEF Register, BeginRegister, Session
    <3> QED
      BY <3>2, CatalogAssumption DEF TagsOf, BeingRegistered
  <2>2. CASE ~(Register(r) /\ Table(r) = t)
    <3>1. tables'[t] = tables[t]
      BY <1>3, <2>2, CatalogSteps
      DEF PublishTable, CreateTable, Register, BeginRegister, InsertColumn, DeleteTags, InsertTag,
          Holds, BeingRegistered
    <3>2. ASSUME NEW q \in Runs, DescriptorOf[q].source = t PROVE pc'[q] \notin Reading
      BY <1>3, <3>2, ReadingSteps, OthersStay DEF Untouched
    <3> QED
      BY <1>3, <3>1, <3>2 DEF Untouched, TagsOf
  <2> QED
    BY <2>1, <2>2
<1> QED
  BY <1>1, <1>2, <1>3 DEF TagsOf

LEMMA AppTags ==
  ASSUME TypeOK, SessionInv, NEW a \in Apps, App(a), NEW t \in Tables \ AppTables, TagsOf(t)
  PROVE  TagsOf(t)'
<1>1. UNCHANGED <<data[t], tables[t], lf_tags[t], pc, job>>
  BY AppStays DEF runVars
<1>2. \A q \in Runs : pc'[q] = pc[q] /\ Table(q)' = Table(q)
  BY <1>1 DEF Table
<1>3. ~BeingRegistered(t)
  BY CatalogAssumption
  DEF BeingRegistered, SessionInv, App, AppShips, AppPublishes, AppLeaves, Ship, Publish, Disconnect
<1> QED
  BY <1>1, <1>2, <1>3 DEF TagsOf, Tagged, Untouched

\* Whoever is about to note the owner of a product finds it tagged by a writer.
LEMMA OwnerIsAWriter ==
  ASSUME Labelled, NEW r \in Runs, pc[r] = "prepare", session = None, NEW t, NEW reader,
         DescriptorOf[r].source = t, TagsOf(t)
  PROVE  Vouched(t, Owner(t, reader))
<1>1. PICK q \in Runs :
        /\ Table(q) = t
        /\ pc[q] \in Late
        /\ \/ pc[q] = "escaped"
           \/ /\ lf_tags[t] = DescriptorOf[q].lf_tags
              /\ lf_tags[t] # {}
              /\ lf_tags[t] \subseteq Ontology
  BY DEF TagsOf, Tagged, BeingRegistered, Untouched, Reading
<1>2. CASE pc[q] = "escaped"
  BY <1>1, <1>2 DEF Vouched
<1>3. CASE pc[q] # "escaped"
  <2> DEFINE tag == [key |-> "domain", value |-> DescriptorOf[q].domain]
  <2>1. {g \in lf_tags[t] : g.key = "domain"} = {tag}
    BY <1>1, <1>3 DEF Labelled
  <2>2. tag.value = DescriptorOf[q].domain
    OBVIOUS
  <2> HIDE DEF tag
  <2>3. tag \in lf_tags[t] /\ tag.key = "domain" /\ (CHOOSE g \in lf_tags[t] : g.key = "domain") = tag
    BY <2>1
  <2>4. Owner(t, reader) = DescriptorOf[q].domain
    BY <2>2, <2>3 DEF Owner
  <2> QED
    BY <1>1, <2>4 DEF Vouched
<1> QED
  BY <1>2, <1>3

\* The stages before Bound, and the way to each.
LEMMA LawfulSteps ==
  ASSUME TypeOK, NEW r \in Runs, Parse(r) \/ Step(r) \/ Dies(r) \/ Edit(r), VouchedOf(r),
         pc'[r] \in Lawful
  PROVE  DescriptorOf[r].lf_tags \subseteq Ontology
<1> USE DEF TypeOK, ExecutorTypeOK, Goto, Lawful, Bound
<1> SUFFICES pc[r] \in Lawful \/ DescriptorOf[r].lf_tags \subseteq Ontology
  BY DEF VouchedOf
<1>1. ~Escape(r) /\ \A e : ~Raise(r, e)
  BY DEF Escape, Raise
<1>2. CASE Parse(r) \/ Emits(r)
  BY <1>2 DEF Parse, Emits, EmitTerminal, EmitFailure, EmitAssertions
<1>3. CASE Dies(r) \/ Refused(r)
  BY <1>1, <1>3 DEF Dies, Refused
<1>4. CASE Edit(r)
  BY <1>4 DEF Edit
<1>5. CASE Resolve(r) \/ Read(r)
  BY <1>1, <1>5 DEF Resolve, Read, ReadGlueTable, ReadDmsLanding, ReadFrame, Advance
<1>6. CASE RunSteps(r) \/ ResolvePolicy(r)
  BY <1>1, <1>6 DEF RunSteps, ResolvePolicy, Advance
<1>7. CASE ValidateFrame(r) \/ Prepare(r)
  BY <1>7 DEF ValidateFrame, Prepare
<1>8. CASE Clears(r) \/ WriteFiles(r) \/ PublishTable(r) \/ Register(r) \/ Registering(r)
  BY <1>8 DEF Clears, ListStale, UnlinkStale, WriteFiles, PublishTable, Register, Registering
<1> QED
  BY <1>2, <1>3, <1>4, <1>5, <1>6, <1>7, <1>8 DEF Step, Emits, Clears

\* What is vouched for once is for ever.
NamesVouched(r) ==
  \A i \in DOMAIN events[r] : \A set \in events[r][i].inputs \cup events[r][i].outputs :
    set.name \notin AppTables => Vouched(set.name, set.namespace)

LEMMA EmittedVouched ==
  ASSUME TypeOK, [Next]_vars, NEW r \in Runs, Emits(r), VouchedOf(r)
  PROVE  NamesVouched(r)'
<1>1. PICK event :
        /\ \A i \in DOMAIN events'[r] :
             \/ events'[r][i] = event
             \/ i \in DOMAIN events[r] /\ events'[r][i] = events[r][i]
        /\ \A set \in event.inputs \cup event.outputs : EmitsSource(r, set) \/ EmitsOutput(r, set)
  BY EmittedDatasets
<1>2. ASSUME NEW set \in event.inputs \cup event.outputs, set.name \notin AppTables
      PROVE  Vouched(set.name, set.namespace)'
  <2>1. CASE EmitsSource(r, set)
    <3>1. Vouched(set.name, set.namespace)
      BY <1>2, <2>1 DEF EmitsSource, VouchedOf, Bound
    <3> QED
      BY <3>1, VouchedStays
  <2>2. CASE EmitsOutput(r, set)
    <3>1. pc'[r] \in Late /\ Table(r)' = Table(r)
      BY <2>2, LateStays DEF EmitsOutput, Late
    <3>2. pc'[r] # "escaped" \/ pc'[r] = "escaped"
      OBVIOUS
    <3> QED
      BY <2>2, <3>1 DEF EmitsOutput, Vouched
  <2> QED
    BY <1>1, <2>1, <2>2
<1>3. ASSUME NEW i \in DOMAIN events[r], NEW set \in events[r][i].inputs \cup events[r][i].outputs,
             set.name \notin AppTables
      PROVE  Vouched(set.name, set.namespace)'
  BY <1>3, VouchedStays DEF VouchedOf
<1> QED
  BY <1>1, <1>2, <1>3 DEF NamesVouched

LEMMA OwnVouched ==
  ASSUME TypeOK, [Next]_vars, Labelled, \A t \in Tables \ AppTables : TagsOf(t),
         NEW r \in Runs, Parse(r) \/ Step(r) \/ Dies(r) \/ Edit(r), VouchedOf(r)
  PROVE  VouchedOf(r)'
<1> DEFINE source == DescriptorOf[r].source
<1>0. source \in Tables
  BY DescriptorFields
<1>1. pc'[r] \in Lawful => DescriptorOf[r].lf_tags \subseteq Ontology
  BY LawfulSteps
<1>2. ASSUME pc'[r] \in Bound, source \notin AppTables
      PROVE  Vouched(source, job[r].owner)'
  <2>1. CASE Prepare(r)
    <3>1. PICK name : name = Owner(source, DescriptorOf[r].domain)
      OBVIOUS
    <3>2. pc[r] = "prepare" /\ session = None
      BY <1>2, <2>1 DEF Prepare, Raise, Goto, TypeOK, ExecutorTypeOK, Bound
    <3>3. Vouched(source, name)
      BY <1>0, <1>2, <3>1, <3>2, OwnerIsAWriter
    <3>4. Vouched(source, name)' /\ job'[r].owner = name
      BY <1>2, <2>1, <3>1, <3>3, VouchedStays, OwnerAsRead
    <3> QED
      BY <3>4 DEF Vouched
  <2>2. CASE ~Prepare(r)
    <3>1. PICK name : name = job[r].owner
      OBVIOUS
    <3>2. pc[r] \in Bound /\ job'[r].owner = name
      BY <1>2, <2>2, <3>1, OwnerKept
    <3>3. Vouched(source, name)'
      BY <1>2, <3>1, <3>2, VouchedStays DEF VouchedOf
    <3> QED
      BY <3>2, <3>3 DEF Vouched
  <2> QED
    BY <2>1, <2>2
<1>3. NamesVouched(r)'
  <2>1. CASE Quiet(r)
    <3>1. ASSUME NEW i \in DOMAIN events[r],
                 NEW set \in events[r][i].inputs \cup events[r][i].outputs,
                 set.name \notin AppTables
          PROVE  Vouched(set.name, set.namespace)'
      BY <3>1, VouchedStays DEF VouchedOf
    <3> QED
      BY <2>1, <3>1 DEF Quiet, NamesVouched
  <2> QED
    BY <2>1, EmittedVouched, QuietSteps
<1> QED
  BY <1>1, <1>2, <1>3 DEF VouchedOf, NamesVouched

LEMMA OthersVouched ==
  ASSUME TypeOK, [Next]_vars, NEW r \in Runs, VouchedOf(r),
         pc'[r] = pc[r], job'[r] = job[r], events'[r] = events[r]
  PROVE  VouchedOf(r)'
<1>1. ASSUME pc'[r] \in Bound, DescriptorOf[r].source \notin AppTables
      PROVE  Vouched(DescriptorOf[r].source, job[r].owner)'
  <2>1. PICK name : name = job[r].owner
    OBVIOUS
  <2>2. Vouched(DescriptorOf[r].source, name)'
    BY <1>1, <2>1, VouchedStays DEF VouchedOf
  <2> QED
    BY <2>1, <2>2 DEF Vouched
<1>2. ASSUME NEW i \in DOMAIN events[r],
             NEW set \in events[r][i].inputs \cup events[r][i].outputs,
             set.name \notin AppTables
      PROVE  Vouched(set.name, set.namespace)'
  BY <1>2, VouchedStays DEF VouchedOf
<1> QED
  BY <1>1, <1>2 DEF VouchedOf

LEMMA VouchedInductive ==
  ASSUME TypeOK, [Next]_vars, Labelled, \A t \in Tables \ AppTables : TagsOf(t),
         NEW r \in Runs, VouchedOf(r)
  PROVE  VouchedOf(r)'
<1>1. ASSUME NEW q \in Runs, Parse(q) \/ Step(q) \/ Dies(q) \/ Edit(q) PROVE VouchedOf(r)'
  BY <1>1, OwnVouched, OthersVouched, OthersStay, OthersSaySame
<1>2. CASE UNCHANGED runVars
  BY <1>2, OthersVouched DEF runVars
<1> QED
  BY <1>1, <1>2 DEF Next, Resting, App, AppShips, AppPublishes, AppLeaves, vars

LEMMA TagsInductive ==
  ASSUME TypeOK, SessionInv, [Next]_vars,
         \A q \in Runs : HeldOf(q) /\ TaggingOf(q) /\ VouchedOf(q),
         NEW t \in Tables \ AppTables, TagsOf(t)
  PROVE  TagsOf(t)'
<1>1. CASE UNCHANGED vars
  <2>1. \A q \in Runs : pc'[q] = pc[q] /\ Table(q)' = Table(q)
    BY <1>1 DEF vars, catalogVars, runVars, Table
  <2> QED
    BY <1>1, <2>1 DEF vars, catalogVars, TagsOf, Tagged, Untouched, BeingRegistered
<1> QED
  BY <1>1, RunTags, AppTags DEF Next, Resting

\* emit.py:462-466, catalog.py:475.  Where a contract whose tags the ontology takes is
\* labelled with its own domain and no other: whoever reads a product, however runs
\* overlap, also while it is being replaced, names it by a domain that writes it, or
\* one of its writers was cut short.
THEOREM ProductsAlwaysKeepTheirOwner ==
  ASSUME Labelled
  PROVE  Spec => []ProductsKeepTheirOwner
<1> DEFINE V == \A q \in Runs : VouchedOf(q)
           T == \A t \in Tables \ AppTables : TagsOf(t)
           G == \A q \in Runs : TaggingOf(q)
           H == \A q \in Runs : HeldOf(q)
<1>1. Init => V /\ T /\ G
  BY DEF Init, CatalogInit, ExecutorInit, VouchedOf, Lawful, Bound, TagsOf, Untouched, Reading,
     TaggingOf
<1>2. TypeOK /\ SessionInv /\ H /\ V /\ T /\ G /\ [Next]_vars => (V /\ T /\ G)'
  BY VouchedInductive, TagsInductive, TaggingInductive
<1>3. V => ProductsKeepTheirOwner
  BY DEF VouchedOf, Vouched, DatasetsOf, ProductsKeepTheirOwner
<1> HIDE DEF V, T, G, H
<1>4. Spec => []H
  BY HeldAlways DEF H
<1> QED
  BY <1>1, <1>2, <1>3, <1>4, TypeCorrect, SessionAlways, PTL DEF Spec
=============================================================================
