---------------------------- MODULE CiPipelineProofs ----------------------------
(***************************************************************************)
(* CiPipeline proved for any size and threshold of the suites.  The        *)
(* invariants say of every job, besides the property, how far it has come: *)
(* a suite that is past its gate without a failure passed it, and what the *)
(* run started belongs to a job that is still on its way to its tear-down. *)
(***************************************************************************)
EXTENDS CiPipeline, TLAPS

AssertAt(j) == IF j = "unit" THEN 5 ELSE 7

\* Where the steps are that the properties speak of.
LEMMA WhereStepsAre ==
  /\ \A j \in Jobs : Len(Steps[j]) \in Nat
  /\ \A j \in Suites : /\ Len(Steps[j]) >= AssertAt(j)
                       /\ \A i \in 1 .. Len(Steps[j]) :
                            /\ Steps[j][i] = "assert" <=> i = AssertAt(j)
                            /\ Steps[j][i] = "pytest" <=> i = AssertAt(j) - 1
  /\ \A j \in Jobs : \A i \in 1 .. Len(Steps[j]) :
       /\ Steps[j][i] = "up"    <=> j = "integration" /\ i = 4
       /\ Steps[j][i] = "down"  <=> j = "integration" /\ i = 8
       /\ Steps[j][i] = "start" <=> j = "image" /\ i = 3
       /\ Steps[j][i] = "stop"  <=> j = "image" /\ i = 6
  /\ Len(Steps["integration"]) = 8 /\ Len(Steps["image"]) = 6
<1>1. /\ Len(Steps["quality"]) = 4 /\ Len(Steps["unit"]) = 5
      /\ Len(Steps["integration"]) = 8 /\ Len(Steps["security"]) = 5
      /\ Len(Steps["image"]) = 6
  BY DEF Steps
<1>2. \A i \in 1 .. 4 : Steps["quality"][i] \notin {"up", "down", "start", "stop"}
  BY DEF Steps
<1>3. \A i \in 1 .. 5 : /\ Steps["unit"][i] \notin {"up", "down", "start", "stop"}
                        /\ Steps["unit"][i] = "assert" <=> i = 5
                        /\ Steps["unit"][i] = "pytest" <=> i = 4
  BY DEF Steps
<1>4. \A i \in 1 .. 8 : /\ Steps["integration"][i] \notin {"start", "stop"}
                        /\ Steps["integration"][i] = "up" <=> i = 4
                        /\ Steps["integration"][i] = "down" <=> i = 8
                        /\ Steps["integration"][i] = "assert" <=> i = 7
                        /\ Steps["integration"][i] = "pytest" <=> i = 6
  BY DEF Steps
<1>5. \A i \in 1 .. 5 : Steps["security"][i] \notin {"up", "down", "start", "stop"}
  BY DEF Steps
<1>6. \A i \in 1 .. 6 : /\ Steps["image"][i] \notin {"up", "down"}
                        /\ Steps["image"][i] = "start" <=> i = 3
                        /\ Steps["image"][i] = "stop" <=> i = 6
  BY DEF Steps
<1>7. \A j \in Jobs : \/ j = "quality" \/ j = "unit" \/ j = "integration"
                        \/ j = "security" \/ j = "image"
  BY DEF Jobs
<1>8. \A j \in Jobs : Len(Steps[j]) \in Nat
  BY <1>1, <1>7
<1>9. ASSUME NEW j \in Suites
      PROVE  /\ Len(Steps[j]) >= AssertAt(j)
             /\ \A i \in 1 .. Len(Steps[j]) :
                  /\ Steps[j][i] = "assert" <=> i = AssertAt(j)
                  /\ Steps[j][i] = "pytest" <=> i = AssertAt(j) - 1
  <2>1. CASE j = "unit"
    BY <2>1, <1>1, <1>3 DEF AssertAt
  <2>2. CASE j = "integration"
    BY <2>2, <1>1, <1>4 DEF AssertAt
  <2>. QED
    BY <2>1, <2>2 DEF Suites
<1>10. ASSUME NEW j \in Jobs, NEW i \in 1 .. Len(Steps[j])
       PROVE  /\ Steps[j][i] = "up"    <=> j = "integration" /\ i = 4
              /\ Steps[j][i] = "down"  <=> j = "integration" /\ i = 8
              /\ Steps[j][i] = "start" <=> j = "image" /\ i = 3
              /\ Steps[j][i] = "stop"  <=> j = "image" /\ i = 6
  <2>1. CASE j = "quality"
    BY <2>1, <1>1, <1>2
  <2>2. CASE j = "unit"
    BY <2>2, <1>1, <1>3
  <2>3. CASE j = "integration"
    BY <2>3, <1>1, <1>4
  <2>4. CASE j = "security"
    BY <2>4, <1>1, <1>5
  <2>5. CASE j = "image"
    BY <2>5, <1>1, <1>6
  <2>. QED
    BY <2>1, <2>2, <2>3, <2>4, <2>5, <1>7
<1>. QED
  BY <1>1, <1>8, <1>9, <1>10


-----------------------------------------------------------------------------
\* Every variable keeps its type, and no suite executes a negative number of tests.
THEOREM CiTypeCorrect == CiSpec => []CiTypeOK
<1>. USE CiAssumption
<1>1. CiInit => CiTypeOK
  <2>. SUFFICES ASSUME CiInit PROVE CiTypeOK
    OBVIOUS
  <2>1. Missing \in Report
    BY DEF Missing, Report
  <2>2. report \in [Suites -> Report] /\ \A j \in Suites : report[j] = Missing
    BY <2>1 DEF CiInit
  <2>3. done \in [Jobs -> Nat] /\ \A j \in Jobs : done[j] <= Len(Steps[j])
    BY WhereStepsAre DEF CiInit
  <2>. QED
    BY <2>2, <2>3 DEF CiInit, CiTypeOK, Concluded
<1>2. CiTypeOK /\ [CiNext]_ciVars => CiTypeOK'
  <2>. SUFFICES ASSUME CiTypeOK, [CiNext]_ciVars PROVE CiTypeOK'
    OBVIOUS
  <2>1. ASSUME NEW j \in Jobs, NEW ok, Advance(j, ok), AtStep(j)
        PROVE  /\ done' \in [Jobs -> Nat] /\ \A k \in Jobs : done'[k] <= Len(Steps[k])
               /\ failed' \subseteq Jobs /\ cancelled' \in BOOLEAN
               /\ job' \in [Jobs -> {"waiting", "running"} \cup Concluded]
    BY <2>1, WhereStepsAre DEF Advance, AtStep, CiTypeOK
  <2>2. ASSUME NEW j \in Jobs, GoOn(j)
        PROVE  CiTypeOK'
    <3>1. ASSUME StartJob(j) PROVE CiTypeOK'
      BY <3>1 DEF StartJob, CiTypeOK, Executed, Counted
    <3>2. ASSUME SkipJob(j) PROVE CiTypeOK'
      BY <3>2 DEF SkipJob, CiTypeOK, Concluded, Executed, Counted
    <3>3. ASSUME PassOver(j) PROVE CiTypeOK'
      BY <3>3, <2>1 DEF PassOver, CiTypeOK, Executed, Counted
    <3>4. ASSUME Conclude(j) PROVE CiTypeOK'
      BY <3>4 DEF Conclude, CiTypeOK, Concluded, Executed, Counted
    <3>5. ASSUME NEW worked \in BOOLEAN, Perform(j, worked) PROVE CiTypeOK'
      <4>1. /\ postgres' \in {"absent", "up", "gone", "kept"}
            /\ container' \in {"absent", "up", "kept"}
        BY <3>5 DEF Perform, Started, Removed, CiTypeOK
      <4>. QED
        BY <3>5, <4>1, <2>1 DEF Perform, CiTypeOK, Executed, Counted
    <3>6. ASSUME j \in Suites, Assert(j) PROVE CiTypeOK'
      <4>1. asserted' \in [Suites -> {-1, 0, 1}]
        BY <3>6 DEF Assert, GateCode, CiTypeOK
      <4>. QED
        BY <3>6, <4>1, <2>1 DEF Assert, CiTypeOK, Executed, Counted
    <3>7. ASSUME NEW t \in 0 .. MaxTests, NEW s \in 0 .. MaxTests, NEW b \in 0 .. MaxTests,
                 j \in Suites, Pytest(j, [total |-> t, skipped |-> s, bad |-> b])
          PROVE  CiTypeOK'
      <4>. DEFINE r == [total |-> t, skipped |-> s, bad |-> b]
      <4>1. r \in Report /\ r.total - r.skipped \in Nat
        BY <3>7 DEF Report, Pytest, MayReport
      <4>2. report' = [report EXCEPT ![j] = r]
        BY <3>7 DEF Pytest
      <4>. HIDE DEF r
      <4>3. report' \in [Suites -> Report]
        BY <3>7, <4>1, <4>2 DEF CiTypeOK
      <4>4. \A k \in Suites : report'[k] # Missing =>
              report'[k].total - report'[k].skipped \in Nat
        BY <3>7, <4>1, <4>2 DEF CiTypeOK, Executed, Counted
      <4>. QED
        BY <3>7, <4>3, <4>4, <2>1 DEF Pytest, CiTypeOK, Executed, Counted
    <3>. QED
      BY <2>2, <3>1, <3>2, <3>3, <3>4, <3>5, <3>6, <3>7 DEF GoOn
  <2>3. CASE Cancel
    BY <2>3 DEF Cancel, CiTypeOK, Executed, Counted
  <2>4. CASE PostgresGone
    BY <2>4 DEF PostgresGone, CiTypeOK, Executed, Counted
  <2>5. CASE UNCHANGED ciVars
    BY <2>5 DEF ciVars, CiTypeOK, Executed, Counted
  <2>. QED
    BY <2>2, <2>3, <2>4, <2>5 DEF CiNext
<1>. QED
  BY <1>1, <1>2, PTL DEF CiSpec

-----------------------------------------------------------------------------
\* What a step may do to the jobs and how far they are: only one moves.  Either
\* it is running and one step further, or it begins, because what it needs has
\* succeeded, or is passed over or concluded.
StepDone(j) ==
  /\ job[j] = "running" /\ done'[j] = done[j] + 1 /\ done[j] < Len(Steps[j])
  /\ job' = job /\ cancelled' = cancelled
  /\ failed \subseteq failed' /\ failed' \subseteq failed \cup {j}
  /\ \A k \in Jobs \ {j} : done'[k] = done[k]

JobMoved(j) ==
  /\ done' = done /\ failed' = failed /\ cancelled' = cancelled
  /\ postgres' = postgres /\ container' = container /\ report' = report
  /\ \A k \in Jobs \ {j} : job'[k] = job[k]
  /\ \/ job[j] = "waiting" /\ job'[j] = "running" /\ NeedsMet(j)
     \/ job[j] = "waiting" /\ job'[j] \in {"skipped", "cancelled"}
     \/ /\ job[j] = "running" /\ done[j] = Len(Steps[j])
        /\ job'[j] \in {"success", "failure", "cancelled"}
        /\ job'[j] = "success" => j \notin failed /\ ~cancelled

JobsMove(j) == StepDone(j) \/ JobMoved(j)

LEMMA EveryMove ==
  ASSUME CiTypeOK, NEW j \in Jobs, GoOn(j)
  PROVE  JobsMove(j)
<1>0. /\ job \in [Jobs -> {"waiting", "running"} \cup Concluded]
      /\ done \in [Jobs -> Nat] /\ \A k \in Jobs : done[k] <= Len(Steps[k])
  BY DEF CiTypeOK
<1>1. ASSUME NEW ok, Advance(j, ok), AtStep(j)
      PROVE  JobsMove(j)
  BY <1>0, <1>1, WhereStepsAre DEF Advance, AtStep, JobsMove, StepDone
<1>2. ASSUME StartJob(j) PROVE JobsMove(j)
  BY <1>0, <1>2 DEF StartJob, JobsMove, JobMoved
<1>3. ASSUME SkipJob(j) PROVE JobsMove(j)
  BY <1>0, <1>3 DEF SkipJob, JobsMove, JobMoved
<1>4. ASSUME PassOver(j) PROVE JobsMove(j)
  BY <1>1, <1>4 DEF PassOver
<1>5. ASSUME Conclude(j) PROVE JobsMove(j)
  BY <1>0, <1>5 DEF Conclude, JobsMove, JobMoved
<1>6. ASSUME NEW worked \in BOOLEAN, Perform(j, worked) PROVE JobsMove(j)
  BY <1>1, <1>6 DEF Perform
<1>7. ASSUME Assert(j) PROVE JobsMove(j)
  BY <1>1, <1>7 DEF Assert
<1>8. ASSUME NEW r, Pytest(j, r) PROVE JobsMove(j)
  BY <1>1, <1>8 DEF Pytest
<1>. QED
  BY <1>2, <1>3, <1>4, <1>5, <1>6, <1>7, <1>8 DEF GoOn

-----------------------------------------------------------------------------
Tested(j) == report[j] # Missing /\ ~Problems(j, report[j])

\* A suite that went past its gate, in a run nobody cancelled, without a failed
\* step, was let through by it; one that succeeded was.
GatePassed(j) ==
  /\ done[j] >= AssertAt(j) /\ j \notin failed /\ ~cancelled => Tested(j)
  /\ job[j] = "success" => Tested(j) /\ done[j] = Len(Steps[j])

\* A job that succeeds has executed the tests that were asked for, whatever their
\* number, whatever the suite skipped and whenever the database went away.
THEOREM SuccessMeansTestedHolds == CiSpec => []SuccessMeansTested
<1>. DEFINE Inv == \A j \in Suites : GatePassed(j)
<1>0. Suites \subseteq Jobs
  BY DEF Suites, Jobs
<1>1. CiInit => Inv
  BY <1>0 DEF CiInit, GatePassed, AssertAt
<1>2. CiTypeOK /\ Inv /\ [CiNext]_ciVars => Inv'
  <2>. SUFFICES ASSUME CiTypeOK, Inv, [CiNext]_ciVars, NEW k \in Suites
                PROVE  GatePassed(k)'
    OBVIOUS
  <2>0. k \in Jobs /\ done[k] \in 0 .. Len(Steps[k]) /\ Len(Steps[k]) >= AssertAt(k)
        /\ Len(Steps[k]) \in Nat /\ AssertAt(k) \in Nat \ {0}
    BY <1>0, WhereStepsAre DEF CiTypeOK, AssertAt
  <2>1. ASSUME NEW j \in Jobs, GoOn(j) PROVE GatePassed(k)'
    <3>1. JobsMove(j)
      BY <2>1, EveryMove
    <3>2. CASE report'[k] = report[k] /\ ~(j = k /\ Assert(j)) /\ ~(j = k /\ PassOver(j))
      <4>1. Tested(k) => Tested(k)'
        BY <3>2 DEF Tested, Problems, Executed, Counted
      <4>2. done'[k] >= AssertAt(k) => done[k] >= AssertAt(k)
        <5>1. CASE done'[k] = done[k]
          BY <5>1
        <5>2. CASE done'[k] # done[k]
          <6>1. j = k /\ done'[k] = done[k] + 1 /\ AtStep(k)
            BY <3>1, <5>2, <2>0 DEF JobsMove, StepDone, JobMoved, AtStep
          <6>2. Current(k) # "assert"
            <7>1. ASSUME NEW worked, Perform(k, worked) PROVE Current(k) # "assert"
              BY <7>1 DEF Perform
            <7>2. ASSUME NEW r, Pytest(k, r) PROVE Current(k) # "assert"
              BY <7>2 DEF Pytest
            <7>3. ~StartJob(k) /\ ~SkipJob(k) /\ ~Conclude(k)
              BY <5>2 DEF StartJob, SkipJob, Conclude
            <7>. QED
              BY <2>1, <3>2, <6>1, <7>1, <7>2, <7>3 DEF GoOn
          <6>3. done[k] + 1 # AssertAt(k)
            BY <6>1, <6>2, <2>0, WhereStepsAre DEF Current, AtStep
          <6>. QED
            BY <6>1, <6>3, <2>0
        <5>. QED
          BY <5>1, <5>2
      <4>3. k \notin failed' /\ ~cancelled' => k \notin failed /\ ~cancelled
        BY <3>1 DEF JobsMove, StepDone, JobMoved
      <4>4. job'[k] = "success" =>
              \/ job[k] = "success" /\ done'[k] = done[k]
              \/ done[k] = Len(Steps[k]) /\ done' = done /\ k \notin failed /\ ~cancelled
        BY <3>1, <2>0 DEF JobsMove, StepDone, JobMoved
      <4>5. Tested(k)' \/ ~(done[k] >= AssertAt(k) /\ k \notin failed /\ ~cancelled)
        BY <4>1 DEF GatePassed
      <4>6. job'[k] = "success" => Tested(k)' /\ done'[k] = Len(Steps[k])
        BY <4>1, <4>4, <4>5, <2>0 DEF GatePassed
      <4>. QED
        BY <4>2, <4>3, <4>5, <4>6 DEF GatePassed
    <3>3. ASSUME Assert(k) PROVE GatePassed(k)'
      <4>1. job[k] = "running" /\ UNCHANGED <<job, report>>
            /\ (k \notin failed' => GateCode(k) = 0)
        BY <3>3 DEF Assert, Advance, AtStep
      <4>2. GateCode(k) = 0 => Tested(k)
        BY DEF GateCode, Tested
      <4>3. Tested(k) => Tested(k)'
        BY <4>1 DEF Tested, Problems, Executed, Counted
      <4>. QED
        BY <4>1, <4>2, <4>3 DEF GatePassed
    <3>4. ASSUME PassOver(k) PROVE GatePassed(k)'
      <4>1. job[k] = "running" /\ UNCHANGED <<job, cancelled>> /\ failed \subseteq failed'
        BY <3>4 DEF PassOver, Advance, AtStep
      <4>2. k \in failed \/ cancelled
        BY <3>4 DEF PassOver, Runs
      <4>. QED
        BY <4>1, <4>2 DEF GatePassed
    <3>5. ASSUME NEW r, Pytest(k, r) PROVE GatePassed(k)'
      <4>1. job[k] = "running" /\ job' = job /\ done'[k] = done[k] + 1
            /\ done[k] + 1 = AssertAt(k) - 1
        <5>1. AtStep(k) /\ Current(k) = "pytest" /\ Advance(k, Passes(r))
          BY <3>5 DEF Pytest
        <5>2. done'[k] = done[k] + 1 /\ job' = job
          BY <5>1, <2>0 DEF Advance, CiTypeOK
        <5>3. done[k] + 1 = AssertAt(k) - 1
          BY <5>1, <2>0, WhereStepsAre DEF Current, AtStep
        <5>. QED
          BY <5>1, <5>2, <5>3 DEF AtStep
      <4>. QED
        BY <4>1, <2>0 DEF GatePassed
    <3>6. report'[k] # report[k] => j = k /\ \E r : Pytest(k, r)
      <4>1. ASSUME NEW r, Pytest(j, r) PROVE j = k \/ report'[k] = report[k]
        BY <4>1 DEF Pytest, CiTypeOK
      <4>. QED
        BY <2>1, <4>1 DEF GoOn, StartJob, SkipJob, PassOver, Conclude, Perform, Assert
    <3>. QED
      BY <3>2, <3>3, <3>4, <3>5, <3>6
  <2>2. CASE Cancel
    <3>1. Tested(k) => Tested(k)'
      BY <2>2 DEF Cancel, Tested, Problems, Executed, Counted
    <3>. QED
      BY <2>2, <3>1 DEF Cancel, GatePassed
  <2>3. CASE PostgresGone
    <3>1. Tested(k) => Tested(k)'
      BY <2>3 DEF PostgresGone, Tested, Problems, Executed, Counted
    <3>. QED
      BY <2>3, <3>1 DEF PostgresGone, GatePassed
  <2>4. CASE UNCHANGED ciVars
    <3>1. Tested(k) => Tested(k)'
      BY <2>4 DEF ciVars, Tested, Problems, Executed, Counted
    <3>. QED
      BY <2>4, <3>1 DEF ciVars, GatePassed
  <2>. QED
    BY <2>1, <2>2, <2>3, <2>4 DEF CiNext
<1>3. CiTypeOK /\ Inv => SuccessMeansTested
  <2>. SUFFICES ASSUME CiTypeOK, Inv, NEW j \in Suites, job[j] = "success"
                PROVE  Vouched(j)
    BY DEF SuccessMeansTested
  <2>1. ~Problems(j, report[j])
    BY DEF GatePassed, Tested
  <2>2. report[j] \in Report /\ MinTests[j] \in Nat
    BY CiAssumption DEF CiTypeOK
  <2>. QED
    BY <2>1, <2>2, CiAssumption DEF Vouched, Problems, Executed, Counted, Report
<1>. QED
  BY <1>1, <1>2, <1>3, CiTypeCorrect, PTL DEF CiSpec

-----------------------------------------------------------------------------
\* How far the jobs are: one that has begun has all it needs behind it, and one
\* that succeeded took every step and failed none.
InOrder ==
  \A j \in Jobs :
    /\ job[j] = "running" \/ done[j] > 0 => \A k \in Needs[j] : job[k] = "success"
    /\ job[j] = "success" => done[j] = Len(Steps[j]) /\ j \notin failed

\* From the image back to the first job, along the edges of the workflow.
LEMMA BackFromTheImage ==
  ASSUME InOrder, done["image"] > 0
  PROVE  \A j \in Jobs \ {"image"} : job[j] = "success"
<1>1. ASSUME NEW j \in Jobs, NEW k \in Jobs, k \in Needs[j], done[j] > 0,
             Len(Steps[k]) > 0
      PROVE  job[k] = "success" /\ done[k] > 0
  BY <1>1 DEF InOrder
<1>2. /\ "security" \in Needs["image"] /\ "integration" \in Needs["security"]
      /\ "unit" \in Needs["integration"] /\ "quality" \in Needs["unit"]
  BY DEF Needs
<1>3. /\ Len(Steps["quality"]) > 0 /\ Len(Steps["unit"]) > 0
      /\ Len(Steps["integration"]) > 0 /\ Len(Steps["security"]) > 0
  BY DEF Steps
<1>4. /\ "quality" \in Jobs /\ "unit" \in Jobs /\ "integration" \in Jobs
      /\ "security" \in Jobs /\ "image" \in Jobs
  BY DEF Jobs
<1>5. job["security"] = "success" /\ done["security"] > 0
  BY <1>1, <1>2, <1>3, <1>4
<1>6. job["integration"] = "success" /\ done["integration"] > 0
  BY <1>1, <1>2, <1>3, <1>4, <1>5
<1>7. job["unit"] = "success" /\ done["unit"] > 0
  BY <1>1, <1>2, <1>3, <1>4, <1>6
<1>8. job["quality"] = "success"
  BY <1>1, <1>2, <1>3, <1>4, <1>7
<1>. QED
  BY <1>5, <1>6, <1>7, <1>8 DEF Jobs

\* When the image's job has taken a step, every other job of the workflow took all
\* of its steps without a failure and both suites executed what was asked for, for
\* any thresholds.
THEOREM EveryGateBlocksHolds == CiSpec => []EveryGateBlocks
<1>1. CiInit => InOrder
  BY DEF CiInit, InOrder
<1>2. CiTypeOK /\ InOrder /\ [CiNext]_ciVars => InOrder'
  <2>. SUFFICES ASSUME CiTypeOK, InOrder, [CiNext]_ciVars PROVE InOrder'
    OBVIOUS
  <2>0. \A j \in Jobs : Needs[j] \subseteq Jobs
    BY DEF Needs, Jobs
  <2>1. ASSUME NEW j \in Jobs, GoOn(j) PROVE InOrder'
    <3>1. JobsMove(j)
      BY <2>1, EveryMove
    <3>2. \A k \in Jobs : job[k] = "success" =>
            job'[k] = "success" /\ done'[k] = done[k] /\ (k \in failed' => k \in failed)
      BY <3>1 DEF JobsMove, StepDone, JobMoved
    <3>3. \A k \in Jobs : job'[k] = "running" \/ done'[k] > 0 =>
                            job[k] = "running" \/ done[k] > 0 \/ (k = j /\ NeedsMet(j))
      <4>. SUFFICES ASSUME NEW k \in Jobs, job'[k] = "running" \/ done'[k] > 0
                    PROVE  job[k] = "running" \/ done[k] > 0 \/ (k = j /\ NeedsMet(j))
        OBVIOUS
      <4>1. CASE StepDone(j)
        BY <4>1 DEF StepDone
      <4>2. CASE JobMoved(j)
        <5>1. CASE k = j
          BY <4>2, <5>1 DEF JobMoved
        <5>2. CASE k # j
          BY <4>2, <5>2 DEF JobMoved
        <5>. QED
          BY <5>1, <5>2
      <4>. QED
        BY <3>1, <4>1, <4>2 DEF JobsMove
    <3>4. \A k \in Jobs : job'[k] = "success" /\ job[k] # "success" =>
            done'[k] = Len(Steps[k]) /\ k \notin failed'
      <4>. SUFFICES ASSUME NEW k \in Jobs, job'[k] = "success", job[k] # "success"
                    PROVE  done'[k] = Len(Steps[k]) /\ k \notin failed'
        OBVIOUS
      <4>1. JobMoved(j)
        BY <3>1 DEF JobsMove, StepDone
      <4>2. k = j
        BY <4>1 DEF JobMoved
      <4>. QED
        BY <4>1, <4>2 DEF JobMoved
    <3>5. ASSUME NEW k \in Jobs, job'[k] = "running" \/ done'[k] > 0
          PROVE  \A n \in Needs[k] : job'[n] = "success"
      BY <2>0, <3>2, <3>3, <3>5 DEF NeedsMet, InOrder
    <3>6. ASSUME NEW k \in Jobs, job'[k] = "success"
          PROVE  done'[k] = Len(Steps[k]) /\ k \notin failed'
      BY <3>2, <3>4, <3>6 DEF InOrder
    <3>. QED
      BY <3>5, <3>6 DEF InOrder
  <2>2. CASE Cancel
    BY <2>2 DEF Cancel, InOrder
  <2>3. CASE PostgresGone
    BY <2>3 DEF PostgresGone, InOrder
  <2>4. CASE UNCHANGED ciVars
    BY <2>4 DEF ciVars, InOrder
  <2>. QED
    BY <2>1, <2>2, <2>3, <2>4 DEF CiNext
<1>3. InOrder /\ SuccessMeansTested => EveryGateBlocks
  <2>. SUFFICES ASSUME InOrder, SuccessMeansTested, done["image"] > 0
                PROVE  /\ \A j \in Jobs \ {"image"} : done[j] = Len(Steps[j]) /\ j \notin failed
                       /\ \A j \in Suites : Vouched(j)
    BY DEF EveryGateBlocks
  <2>1. Suites \subseteq Jobs \ {"image"}
    BY DEF Suites, Jobs
  <2>. QED
    BY <2>1, BackFromTheImage DEF InOrder, SuccessMeansTested
<1>. QED
  BY <1>1, <1>2, <1>3, CiTypeCorrect, SuccessMeansTestedHolds, PTL DEF CiSpec

-----------------------------------------------------------------------------
\* What runs belongs to a job between the step that starts it and the one that
\* removes it.
OnTheWay ==
  /\ postgres \in {"up", "gone"} =>
       job["integration"] = "running" /\ done["integration"] \in 4 .. 7
  /\ container = "up" => job["image"] = "running" /\ done["image"] \in 3 .. 5

\* Services that could not be removed made their job fail.
KeptFails ==
  /\ postgres = "kept" => "integration" \in failed
  /\ job["integration"] = "success" => "integration" \notin failed

\* A job that has begun to start something reaches the step that removes it before
\* it concludes.
LEMMA OnTheWayHolds == CiSpec => []OnTheWay
<1>1. CiInit => OnTheWay
  BY DEF CiInit, OnTheWay
<1>2. CiTypeOK /\ OnTheWay /\ [CiNext]_ciVars => OnTheWay'
  <2>. SUFFICES ASSUME CiTypeOK, OnTheWay, [CiNext]_ciVars PROVE OnTheWay'
    OBVIOUS
  <2>0. /\ "integration" \in Jobs /\ "image" \in Jobs
        /\ Len(Steps["integration"]) = 8 /\ Len(Steps["image"]) = 6
        /\ \A k \in Jobs : done[k] \in 0 .. Len(Steps[k]) /\ Len(Steps[k]) \in Nat
    BY WhereStepsAre DEF Jobs, CiTypeOK
  <2>1. ASSUME NEW j \in Jobs, GoOn(j) PROVE OnTheWay'
    <3>0. JobsMove(j)
      BY <2>1, EveryMove
    <3>1. CASE UNCHANGED done
      <4>1. \A k \in Jobs : job[k] = "running" /\ done[k] < Len(Steps[k]) =>
                             job'[k] = "running"
        <5>. SUFFICES ASSUME NEW k \in Jobs, job[k] = "running", done[k] < Len(Steps[k])
                      PROVE  job'[k] = "running"
          OBVIOUS
        <5>1. CASE k = j
          BY <3>0, <3>1, <5>1, <2>0 DEF JobsMove, StepDone, JobMoved
        <5>2. CASE k # j
          BY <3>0, <5>2 DEF JobsMove, StepDone, JobMoved
        <5>. QED
          BY <5>1, <5>2
      <4>2. ~StepDone(j)
        BY <3>1, <2>0 DEF StepDone
      <4>3. postgres' = postgres /\ container' = container
        BY <3>0, <4>2 DEF JobsMove, JobMoved
      <4>4. job["integration"] = "running" /\ done["integration"] \in 4 .. 7 =>
              (job'["integration"] = "running" /\ done'["integration"] \in 4 .. 7)
        <5>. SUFFICES ASSUME job["integration"] = "running", done["integration"] \in 4 .. 7
                      PROVE  job'["integration"] = "running" /\ done'["integration"] \in 4 .. 7
          OBVIOUS
        <5>1. done["integration"] < Len(Steps["integration"])
          BY <2>0
        <5>2. job'["integration"] = "running"
          BY <5>1, <4>1, <2>0
        <5>. QED
          BY <5>2, <3>1
      <4>5. job["image"] = "running" /\ done["image"] \in 3 .. 5 =>
              (job'["image"] = "running" /\ done'["image"] \in 3 .. 5)
        <5>. SUFFICES ASSUME job["image"] = "running", done["image"] \in 3 .. 5
                      PROVE  job'["image"] = "running" /\ done'["image"] \in 3 .. 5
          OBVIOUS
        <5>1. done["image"] < Len(Steps["image"])
          BY <2>0
        <5>2. job'["image"] = "running"
          BY <5>1, <4>1, <2>0
        <5>. QED
          BY <5>2, <3>1
      <4>. QED
        BY <4>3, <4>4, <4>5 DEF OnTheWay
    <3>2. CASE done' # done
      <4>1. /\ AtStep(j) /\ done'[j] = done[j] + 1 /\ job' = job
            /\ \A k \in Jobs \ {j} : done'[k] = done[k]
        BY <3>0, <3>2 DEF JobsMove, StepDone, JobMoved, AtStep
      <4>2. done[j] + 1 \in 1 .. Len(Steps[j])
        BY <4>1, <2>0 DEF AtStep
      <4>3. CASE \E worked \in BOOLEAN : Perform(j, worked)
        <5>1. PICK worked \in BOOLEAN : Perform(j, worked)
          BY <4>3
        <5>2. postgres' \in {"up", "gone"} =>
                \/ Current(j) = "up"
                \/ postgres \in {"up", "gone"} /\ Current(j) # "down"
          BY <5>1 DEF Perform, Started, Removed
        <5>3. container' = "up" =>
                Current(j) = "start" \/ (container = "up" /\ Current(j) # "stop")
          BY <5>1 DEF Perform, Started, Removed
        <5>4. /\ Current(j) = "up"    => j = "integration" /\ done[j] = 3
              /\ Current(j) # "down"  => ~(j = "integration" /\ done[j] = 7)
              /\ Current(j) = "start" => j = "image" /\ done[j] = 2
              /\ Current(j) # "stop"  => ~(j = "image" /\ done[j] = 5)
          BY <4>2, <2>0, WhereStepsAre DEF Current
        <5>5. job[j] = "running"
          BY <4>1 DEF AtStep
        <5>6. ASSUME postgres' \in {"up", "gone"}
              PROVE  job'["integration"] = "running" /\ done'["integration"] \in 4 .. 7
          <6>1. CASE Current(j) = "up"
            BY <6>1, <4>1, <5>4, <5>5
          <6>2. CASE postgres \in {"up", "gone"} /\ Current(j) # "down"
            BY <6>2, <4>1, <5>4, <2>0 DEF OnTheWay
          <6>. QED
            BY <5>2, <5>6, <6>1, <6>2
        <5>7. ASSUME container' = "up"
              PROVE  job'["image"] = "running" /\ done'["image"] \in 3 .. 5
          <6>1. CASE Current(j) = "start"
            BY <6>1, <4>1, <5>4, <5>5
          <6>2. CASE container = "up" /\ Current(j) # "stop"
            <7>1. job["image"] = "running" /\ done["image"] \in 3 .. 5
              BY <6>2 DEF OnTheWay
            <7>. QED
              BY <6>2, <7>1, <4>1, <5>4, <2>0
          <6>. QED
            BY <5>3, <5>7, <6>1, <6>2
        <5>. QED
          BY <5>6, <5>7 DEF OnTheWay
      <4>4. CASE ~\E worked \in BOOLEAN : Perform(j, worked)
        <5>1. UNCHANGED <<postgres, container>>
          BY <2>1, <3>2, <4>4 DEF GoOn, StartJob, SkipJob, PassOver, Conclude, Assert, Pytest
        <5>2. Current(j) \notin {"down", "stop"}
          <6>1. ~StartJob(j) /\ ~SkipJob(j) /\ ~Conclude(j)
            BY <3>2 DEF StartJob, SkipJob, Conclude
          <6>2. PassOver(j) => Current(j) \notin {"down", "stop"}
            BY DEF PassOver, Runs, Always
          <6>3. Assert(j) => Current(j) = "assert"
            BY DEF Assert
          <6>4. \A r : Pytest(j, r) => Current(j) = "pytest"
            BY DEF Pytest
          <6>. QED
            BY <2>1, <4>4, <6>1, <6>2, <6>3, <6>4 DEF GoOn
        <5>. QED
          BY <4>1, <4>2, <5>1, <5>2, <2>0, WhereStepsAre DEF Current, AtStep, OnTheWay
      <4>. QED
        BY <4>3, <4>4
    <3>. QED
      BY <3>1, <3>2
  <2>2. CASE Cancel
    BY <2>2 DEF Cancel, OnTheWay
  <2>3. CASE PostgresGone
    BY <2>3 DEF PostgresGone, OnTheWay
  <2>4. CASE UNCHANGED ciVars
    BY <2>4 DEF ciVars, OnTheWay
  <2>. QED
    BY <2>1, <2>2, <2>3, <2>4 DEF CiNext
<1>. QED
  BY <1>1, <1>2, CiTypeCorrect, PTL DEF CiSpec

\* Services that could not be removed are a failed step of their job, and a job
\* with a failed step does not succeed.
LEMMA KeptFailsHolds == CiSpec => []KeptFails
<1>1. CiInit => KeptFails
  BY DEF CiInit, KeptFails
<1>2. CiTypeOK /\ KeptFails /\ [CiNext]_ciVars => KeptFails'
  <2>. SUFFICES ASSUME CiTypeOK, KeptFails, [CiNext]_ciVars PROVE KeptFails'
    OBVIOUS
  <2>0. "integration" \in Jobs
    BY DEF Jobs
  <2>1. ASSUME NEW j \in Jobs, GoOn(j) PROVE KeptFails'
    <3>1. JobsMove(j)
      BY <2>1, EveryMove
    <3>2. failed \subseteq failed'
      BY <3>1 DEF JobsMove, StepDone, JobMoved
    <3>3. job'["integration"] = "success" => "integration" \notin failed'
      <4>1. CASE StepDone(j)
        BY <4>1, <2>0 DEF StepDone, KeptFails
      <4>2. CASE JobMoved(j)
        BY <4>2, <2>0 DEF JobMoved, KeptFails
      <4>. QED
        BY <3>1, <4>1, <4>2 DEF JobsMove
    <3>4. ASSUME postgres' = "kept", postgres # "kept" PROVE "integration" \in failed'
      <4>1. PICK worked \in BOOLEAN : Perform(j, worked)
        BY <2>1, <3>4 DEF GoOn, StartJob, SkipJob, PassOver, Conclude, Assert, Pytest
      <4>2. Current(j) = "down" /\ ~worked
        BY <4>1, <3>4 DEF Perform, Started, Removed
      <4>3. done[j] + 1 \in 1 .. Len(Steps[j])
        BY <4>1, WhereStepsAre DEF Perform, AtStep, CiTypeOK
      <4>4. j = "integration"
        BY <4>2, <4>3, WhereStepsAre DEF Current
      <4>5. ~(worked \/ Current(j) \in Forgiven)
        BY <4>2 DEF Forgiven
      <4>. QED
        BY <4>1, <4>4, <4>5 DEF Perform, Advance
    <3>. QED
      BY <3>2, <3>3, <3>4 DEF KeptFails
  <2>2. CASE Cancel
    BY <2>2 DEF Cancel, KeptFails
  <2>3. CASE PostgresGone
    BY <2>3 DEF PostgresGone, KeptFails
  <2>4. CASE UNCHANGED ciVars
    BY <2>4 DEF ciVars, KeptFails
  <2>. QED
    BY <2>1, <2>2, <2>3, <2>4 DEF CiNext
<1>. QED
  BY <1>1, <1>2, CiTypeCorrect, PTL DEF CiSpec

\* No job concludes without having tried to remove what it started, and services
\* that stay make their job fail, whichever steps fail and whenever the run is
\* cancelled.
THEOREM TornDownHolds == CiSpec => []TornDown
<1>1. CiTypeOK /\ OnTheWay /\ KeptFails => TornDown
  BY DEF CiTypeOK, OnTheWay, KeptFails, TornDown, Concluded
<1>. QED
  BY <1>1, CiTypeCorrect, OnTheWayHolds, KeptFailsHolds, PTL
=============================================================================
