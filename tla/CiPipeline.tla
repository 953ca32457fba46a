------------------------------- MODULE CiPipeline -------------------------------
(***************************************************************************)
(* One run of .github/workflows/ci.yml: five jobs that need each other,    *)
(* the steps of each, the services and the container they start, and the   *)
(* gate of scripts/assert_test_run.py behind each suite.  A suite skips    *)
(* what it cannot run (tests/integration/conftest.py), and pytest calls    *)
(* that a success.                                                         *)
(***************************************************************************)
EXTENDS Integers, Sequences

CONSTANTS MaxTests,  \* bound: tests a suite may have
          MinTests   \* MinTests[j]: --min-tests of the suite of job j

Jobs   == {"quality", "unit", "integration", "security", "image"}
Suites == {"unit", "integration"}

ASSUME CiAssumption == /\ MaxTests \in Nat
                       /\ MinTests \in [Suites -> Nat \ {0}]

\* Mutant: the security job lost its edge to the integration tests.
NeedsSkippingOne ==
  [quality |-> {}, unit |-> {"quality"}, integration |-> {"unit"},
   security |-> {"unit"}, image |-> {"security"}]

\* The "needs" of a job.
Needs == [quality |-> {}, unit |-> {"quality"}, integration |-> {"unit"},
          security |-> {"integration"}, image |-> {"security"}]

\* The steps of every job; neighbours that only succeed or fail are one step.
Steps == [quality     |-> <<"checkout", "lock", "install", "lint">>,
          unit        |-> <<"checkout", "lock", "install", "pytest", "assert">>,
          integration |-> <<"checkout", "lock", "install", "up", "check", "pytest", "assert", "down">>,
          security    |-> <<"checkout", "lock", "install", "audit", "scan">>,
          image       |-> <<"checkout", "build", "start", "probe", "refuse", "stop">>]

\* Mutant: the tear-down steps lost their "if: always()".
NoAlways == {}

\* Steps with "if: always()".
Always == {"down", "stop"}

\* Mutant: the tear-down of the services got the "|| true" of the other.
ForgivenBoth == {"down", "stop"}

\* Steps that end in "|| true" and succeed whatever became of their work.
Forgiven == {"stop"}

VARIABLES
  job,       \* state of every job
  done,      \* how many steps of it are behind it
  failed,    \* the jobs with a failed step
  cancelled, \* a newer run of the same ref cancelled this one
  postgres,  \* the database service: absent, up, gone (stopped answering), or
             \* kept: the step that should remove it failed to
  container, \* the image's container: absent, up, kept
  report,    \* the JUnit report of every suite
  asserted   \* what the gate said of it: none, or its exit code

ciVars == <<job, done, failed, cancelled, postgres, container, report, asserted>>

Report  == [total : Int, skipped : 0 .. MaxTests, bad : 0 .. MaxTests]
Missing == [total |-> -1, skipped |-> 0, bad |-> 0]
Concluded == {"success", "failure", "cancelled", "skipped"}

CiInit ==
  /\ job = [j \in Jobs |-> "waiting"] /\ done = [j \in Jobs |-> 0]
  /\ failed = {} /\ cancelled = FALSE
  /\ postgres = "absent" /\ container = "absent"
  /\ report = [j \in Suites |-> Missing] /\ asserted = [j \in Suites |-> -1]

-----------------------------------------------------------------------------
(***************************************************************************)
(* assert_test_run.py                                                      *)
(***************************************************************************)
\* Mutant: "tests" is read as if it left out the skipped ones.
CountedApart(r) == [r EXCEPT !.total = @ - r.skipped]

\* The counts, summed over the suites of the report.
Counted(r) == r

Executed(r) == Counted(r).total - Counted(r).skipped

\* Mutant: what was collected is taken for what was executed.
ProblemsCollected(j, r) == Counted(r).total < MinTests[j] \/ r.bad > 0

\* What makes the gate fail; only the integration suite says --no-skips.
Problems(j, r) ==
  \/ Counted(r).total < MinTests[j] \/ Executed(r) < MinTests[j]
  \/ r.bad > 0
  \/ j = "integration" /\ r.skipped > 0

GateCode(j) == IF report[j] = Missing \/ Problems(j, report[j]) THEN 1 ELSE 0

-----------------------------------------------------------------------------
(***************************************************************************)
(* pytest, and the fixture that skips the layer.                           *)
(***************************************************************************)
\* The integration suite skips all of its tests when the database does not answer.
MayReport(j, r) ==
  /\ r.total \in 0 .. MaxTests /\ r.skipped + r.bad <= r.total
  /\ j = "integration" /\ postgres # "up" => r.skipped = r.total

\* pytest's exit code: no tests and failures are failures, skips are not.
Passes(r) == r.total > 0 /\ r.bad = 0

-----------------------------------------------------------------------------
(***************************************************************************)
(* The runner.                                                             *)
(***************************************************************************)
NeedsMet(j) == \A k \in Needs[j] : job[k] = "success"

StartJob(j) ==
  /\ job[j] = "waiting" /\ ~cancelled /\ NeedsMet(j)
  /\ job' = [job EXCEPT ![j] = "running"]
  /\ UNCHANGED <<done, failed, cancelled, postgres, container, report, asserted>>

\* Mutant: a skipped job does not skip the jobs that need it.
SkipJobOnce(j) ==
  /\ job[j] = "waiting"
  /\ cancelled \/ \E k \in Needs[j] : job[k] = "failure"
  /\ job' = [job EXCEPT ![j] = IF cancelled THEN "cancelled" ELSE "skipped"]
  /\ UNCHANGED <<done, failed, cancelled, postgres, container, report, asserted>>

SkipJob(j) ==
  /\ job[j] = "waiting"
  /\ cancelled \/ \E k \in Needs[j] : job[k] \in Concluded \ {"success"}
  /\ job' = [job EXCEPT ![j] = IF cancelled THEN "cancelled" ELSE "skipped"]
  /\ UNCHANGED <<done, failed, cancelled, postgres, container, report, asserted>>

Current(j) == Steps[j][done[j] + 1]
Runs(j)    == Current(j) \in Always \/ (j \notin failed /\ ~cancelled)

Advance(j, ok) ==
  /\ done' = [done EXCEPT ![j] = @ + 1]
  /\ failed' = IF ok THEN failed ELSE failed \cup {j}
  /\ UNCHANGED <<job, cancelled>>

AtStep(j) == job[j] = "running" /\ done[j] < Len(Steps[j])

PassOver(j) ==
  /\ AtStep(j) /\ ~Runs(j)
  /\ Advance(j, TRUE)
  /\ UNCHANGED <<postgres, container, report, asserted>>

\* What a command that starts, or removes, a service x may leave of it: one that
\* fails has done its work, or not.
Started(worked) == IF worked THEN {"up"} ELSE {"up", "absent"}
Removed(x, worked) == IF worked \/ x = "absent" THEN {"absent"} ELSE {"absent", "kept"}

\* A step that starts or removes something, or only succeeds or fails.
Perform(j, worked) ==
  LET s == Current(j)
  IN  /\ AtStep(j) /\ Runs(j) /\ s \notin {"pytest", "assert"}
      /\ s = "check" /\ worked => postgres = "up"
      /\ s = "probe" /\ worked => container = "up"
      /\ \/ s = "up" /\ postgres' \in Started(worked)
         \/ s = "down" /\ postgres' \in Removed(postgres, worked)
         \/ s \notin {"up", "down"} /\ UNCHANGED postgres
      /\ \/ s = "start" /\ container' \in Started(worked)
         \/ s = "stop" /\ container' \in Removed(container, worked)
         \/ s \notin {"start", "stop"} /\ UNCHANGED container
      /\ Advance(j, worked \/ s \in Forgiven)
      /\ UNCHANGED <<report, asserted>>

Pytest(j, r) ==
  /\ AtStep(j) /\ Runs(j) /\ Current(j) = "pytest"
  /\ MayReport(j, r)
  /\ report' = [report EXCEPT ![j] = r]
  /\ Advance(j, Passes(r))
  /\ UNCHANGED <<postgres, container, asserted>>

Assert(j) ==
  /\ AtStep(j) /\ Runs(j) /\ Current(j) = "assert"
  /\ asserted' = [asserted EXCEPT ![j] = GateCode(j)]
  /\ Advance(j, GateCode(j) = 0)
  /\ UNCHANGED <<postgres, container, report>>

Conclude(j) ==
  /\ job[j] = "running" /\ done[j] = Len(Steps[j])
  /\ job' = [job EXCEPT ![j] = IF cancelled THEN "cancelled"
                               ELSE IF j \in failed THEN "failure" ELSE "success"]
  /\ UNCHANGED <<done, failed, cancelled, postgres, container, report, asserted>>

\* concurrency, cancel-in-progress
Cancel ==
  /\ ~cancelled /\ \E j \in Jobs : job[j] \notin Concluded
  /\ cancelled' = TRUE
  /\ UNCHANGED <<job, done, failed, postgres, container, report, asserted>>

PostgresGone ==
  /\ postgres = "up" /\ postgres' = "gone"
  /\ UNCHANGED <<job, done, failed, cancelled, container, report, asserted>>

GoOn(j) ==
  \/ StartJob(j) \/ SkipJob(j) \/ PassOver(j) \/ Conclude(j)
  \/ \E worked \in BOOLEAN : Perform(j, worked)
  \/ j \in Suites /\ \/ Assert(j)
                     \/ \E t, s, b \in 0 .. MaxTests :
                          Pytest(j, [total |-> t, skipped |-> s, bad |-> b])

CiNext == (\E j \in Jobs : GoOn(j)) \/ Cancel \/ PostgresGone

CiSpec == CiInit /\ [][CiNext]_ciVars /\ \A j \in Jobs : WF_ciVars(GoOn(j))

-----------------------------------------------------------------------------
\* Every variable keeps its type; nobody executes fewer than no tests.
CiTypeOK ==
  /\ job \in [Jobs -> {"waiting", "running"} \cup Concluded]
  /\ done \in [Jobs -> Nat] /\ \A j \in Jobs : done[j] <= Len(Steps[j])
  /\ failed \subseteq Jobs /\ cancelled \in BOOLEAN
  /\ postgres \in {"absent", "up", "gone", "kept"} /\ container \in {"absent", "up", "kept"}
  /\ report \in [Suites -> Report] /\ asserted \in [Suites -> {-1, 0, 1}]
  /\ \A j \in Suites : report[j] # Missing => Executed(report[j]) \in Nat

\* A suite executed as many tests as were asked for, none of them failed, and the
\* integration suite skipped none.
Vouched(j) ==
  /\ report[j].total - report[j].skipped >= MinTests[j] /\ report[j].bad = 0
  /\ j = "integration" => report[j].skipped = 0

\* "8 skipped must never read as success in CI": a job that succeeds has executed
\* as many tests as were asked for and none of them failed, and the integration
\* tests were executed against a database, whenever the database went away.
SuccessMeansTested == \A j \in Suites : job[j] = "success" => Vouched(j)

\* "Every one of them blocks": by the time the first step of the image's job is
\* behind it, every step of every other job of the workflow has been taken without
\* a failure, and both suites executed what was asked for; along whatever edges
\* the jobs are ordered.
EveryGateBlocks ==
  done["image"] > 0 =>
    /\ \A j \in Jobs \ {"image"} : done[j] = Len(Steps[j]) /\ j \notin failed
    /\ \A j \in Suites : Vouched(j)

\* Whatever fails, and also when the run is cancelled half-way, a job does not
\* conclude before its tear-down was tried: what it started is then gone, or the
\* command that removes it failed.  A services job that could not remove its
\* services does not succeed; the job of the image may ("|| true").
TornDown ==
  /\ job["integration"] \in Concluded => postgres \in {"absent", "kept"}
  /\ job["integration"] = "success" => postgres = "absent"
  /\ job["image"] \in Concluded => container \in {"absent", "kept"}

\* A run concludes every job.
RunEnds == <>(\A j \in Jobs : job[j] \in Concluded)
=============================================================================
