----------------------------- MODULE TestRunner ------------------------------
(***************************************************************************)
(* test.py, which runs the test suites and the examples: the main thread   *)
(* puts a job per test and then one break job per worker on a queue, the   *)
(* workers run the jobs as processes and put them back on a second queue,  *)
(* and the main thread counts the results, writes the XML report and waits *)
(* for the workers.  A SIGINT only sets thread_exit.  An exception in a    *)
(* worker (Popen fails) ends that thread alone; an exception in the main   *)
(* thread ends run_tests, and the interpreter then waits for the workers.  *)
(* MaxFaults bounds the exceptions; nothing else is bounded.               *)
(*                                                                         *)
(* Definitions whose comment starts with "Deliberately wrong" are no part  *)
(* of the model: each replaces a definition of it to test a property.      *)
(***************************************************************************)
EXTENDS Integers, Sequences, FiniteSets

CONSTANTS NumSuites, NumExamples,    (* the tests there are                *)
          SkipJobs,                  (* those that set_is_skip marks       *)
          Workers, MaxFaults

Jobs == 1 .. NumSuites + NumExamples
BreakJob == 0

ASSUME RunnerAssumption ==
  /\ NumSuites \in Nat /\ NumExamples \in Nat /\ MaxFaults \in Nat
  /\ SkipJobs \subseteq Jobs
  /\ IsFiniteSet(Workers) /\ Workers # {} /\ BreakJob \notin Jobs

(* 139 stands for every exit code but 0, 1 and 2.                          *)
ExitCodes == {0, 1, 2, 139}
NotRun == -1
Statuses == {"PASS", "FAIL", "VALGR", "CRASH", "SKIP"}

VARIABLES
  main,        (* where the main thread is, and how the run ended          *)
  first, jobs, (* the first job of the list, the number of jobs dispatched *)
  input, output,                 (* the queues                             *)
  worker,      (* a worker waits, runs a process, is gone, or has died     *)
  holds,       (* the job a worker has taken off the input queue           *)
  thread_exit,                   (* SIGINT has come                        *)
  isBreak, returncode,           (* what the workers write into the jobs   *)
  ran, file,   (* how the process of a job really ended, its XML file      *)
  collected,   (* the jobs the result loop has taken                       *)
  count,       (* passed_tests, failed_tests, valgrind_errors, ...         *)
  report,      (* the entry of each job in the results file                *)
  faults

queues == <<input, output>>
results == <<isBreak, returncode, ran, file>>
tally == <<collected, count, report>>
vars == <<main, first, jobs, queues, worker, holds, thread_exit, results, tally, faults>>

IsSuite(j) == j <= NumSuites
Dispatched == first .. first + jobs - 1

Status(j) ==
  IF j \in SkipJobs THEN "SKIP"
  ELSE CASE returncode[j] = 0 -> "PASS"
         [] returncode[j] = 1 -> "FAIL"
         [] returncode[j] = 2 -> "VALGR"
         [] OTHER -> "CRASH"

Init ==
  /\ main = "list" /\ first = 1 /\ jobs = 0
  /\ input = <<>> /\ output = <<>>
  /\ worker = [w \in Workers |-> "waiting"] /\ holds = [w \in Workers |-> BreakJob]
  /\ thread_exit = FALSE
  /\ isBreak = [j \in Jobs |-> FALSE] /\ returncode = [j \in Jobs |-> 0]
  /\ ran = [j \in Jobs |-> NotRun] /\ file = [j \in Jobs |-> "none"]
  /\ collected = {} /\ count = [s \in Statuses |-> 0] /\ report = [j \in Jobs |-> "none"]
  /\ faults = 0

-----------------------------------------------------------------------------
(* The main thread: dispatching.                                           *)

(* The names of the suites are the output of a process whose exit code     *)
(* nobody looks at: when it fails there are no suites to run.              *)
ListSuites ==
  /\ main = "list" /\ main' = "dispatch"
  /\ first' \in {1, NumSuites + 1}
  /\ UNCHANGED <<jobs, queues, worker, holds, thread_exit, results, tally, faults>>

Dispatch ==
  /\ main = "dispatch" /\ first + jobs \in Jobs
  /\ input' = Append(input, first + jobs) /\ jobs' = jobs + 1
  /\ UNCHANGED <<main, first, output, worker, holds, thread_exit, results, tally, faults>>

(* The condition of an example is evaluated as Python and may raise.       *)
DispatchRaises ==
  /\ main = "dispatch" /\ first + jobs \in Jobs /\ ~IsSuite(first + jobs)
  /\ faults < MaxFaults /\ faults' = faults + 1
  /\ main' = "raised"
  /\ UNCHANGED <<first, jobs, queues, worker, holds, thread_exit, results, tally>>

(* Deliberately wrong: one break job too few.                              *)
OneBreakShort == [i \in 1 .. Cardinality(Workers) - 1 |-> BreakJob]

BreakJobs == [i \in 1 .. Cardinality(Workers) |-> BreakJob]
DispatchBreaks ==
  /\ main = "dispatch" /\ first + jobs \notin Jobs
  /\ input' = input \o BreakJobs /\ main' = "collect"
  /\ UNCHANGED <<first, jobs, output, worker, holds, thread_exit, results, tally, faults>>

-----------------------------------------------------------------------------
(* A worker thread.                                                        *)

Takes(w) == worker[w] = "waiting" /\ input # <<>> /\ input' = Tail(input)

Stop(w) ==
  /\ Takes(w) /\ Head(input) = BreakJob
  /\ worker' = [worker EXCEPT ![w] = "gone"]
  /\ UNCHANGED <<main, first, jobs, output, holds, thread_exit, results, tally, faults>>

(* Deliberately wrong: an interrupted worker throws its job away.          *)
ThrowAway(w) ==
  /\ Takes(w) /\ Head(input) # BreakJob /\ thread_exit
  /\ UNCHANGED <<main, first, jobs, output, worker, holds, thread_exit, results, tally, faults>>

(* thread_exit is read after the job is taken, and before anything else.   *)
HandBack(w) ==
  /\ Takes(w) /\ Head(input) # BreakJob /\ thread_exit
  /\ isBreak' = [isBreak EXCEPT ![Head(input)] = TRUE]
  /\ output' = Append(output, Head(input))
  /\ UNCHANGED <<main, first, jobs, worker, holds, thread_exit, returncode, ran, file, tally, faults>>

Skip(w) ==
  /\ Takes(w) /\ Head(input) # BreakJob /\ ~thread_exit /\ Head(input) \in SkipJobs
  /\ output' = Append(output, Head(input))
  /\ UNCHANGED <<main, first, jobs, worker, holds, thread_exit, results, tally, faults>>

Launch(w) ==
  /\ Takes(w) /\ Head(input) # BreakJob /\ ~thread_exit /\ Head(input) \notin SkipJobs
  /\ worker' = [worker EXCEPT ![w] = "running"]
  /\ holds' = [holds EXCEPT ![w] = Head(input)]
  /\ UNCHANGED <<main, first, jobs, output, thread_exit, results, tally, faults>>

(* The process ends with code c.  Output that cannot be decoded turns the  *)
(* code into 1.  A suite that ends by itself has written its XML file, one *)
(* that crashes has written a part of it or nothing.                       *)
FilesLeft(j, c) ==
  IF ~IsSuite(j) THEN {"none"} ELSE IF c \in 0 .. 2 THEN {"whole"} ELSE {"none", "part"}

(* Deliberately wrong: output that cannot be decoded leaves no return code.*)
NoReturnCode(c, decodable) == IF decodable THEN c ELSE NotRun

ReturnCode(c, decodable) == IF decodable THEN c ELSE 1

Finish(w, c, decodable) ==
  LET j == holds[w] IN
  /\ worker[w] = "running"
  /\ worker' = [worker EXCEPT ![w] = "waiting"]
  /\ holds' = [holds EXCEPT ![w] = BreakJob]
  /\ ran' = [ran EXCEPT ![j] = c]
  /\ returncode' = [returncode EXCEPT ![j] = ReturnCode(c, decodable)]
  /\ \E f \in FilesLeft(j, c): file' = [file EXCEPT ![j] = f]
  /\ output' = Append(output, j)
  /\ UNCHANGED <<main, first, jobs, input, thread_exit, isBreak, tally, faults>>

(* Popen raises: the thread ends, and the job it holds with it.            *)
WorkerDies(w) ==
  /\ worker[w] = "running" /\ faults < MaxFaults /\ faults' = faults + 1
  /\ worker' = [worker EXCEPT ![w] = "dead"]
  /\ UNCHANGED <<main, first, jobs, queues, holds, thread_exit, results, tally>>

Interrupt ==
  /\ ~thread_exit /\ main \notin {"success", "failure", "aborted"}
  /\ thread_exit' = TRUE
  /\ UNCHANGED <<main, first, jobs, queues, worker, holds, results, tally, faults>>

-----------------------------------------------------------------------------
(* The main thread: results.                                               *)

(* The entry of a job that was run or skipped.  A suite with exit code 0,  *)
(* 1 or 2 gets the content of its file.                                    *)
Entry(j) == IF IsSuite(j) /\ Status(j) \notin {"SKIP", "CRASH"} THEN file[j] ELSE Status(j)

Taken(j) == output' = Tail(output) /\ collected' = collected \cup {j}
Collects(j) == main = "collect" /\ output # <<>> /\ j = Head(output)

CollectBreak(j) ==
  /\ Collects(j) /\ isBreak[j]
  /\ Taken(j)
  /\ UNCHANGED <<main, first, jobs, input, worker, holds, thread_exit, results, count, report, faults>>

CollectResult(j) ==
  /\ Collects(j) /\ ~isBreak[j]
  /\ Taken(j)
  /\ count' = [count EXCEPT ![Status(j)] = @ + 1]
  /\ report' = [report EXCEPT ![j] = Entry(j)]
  (* opening a file that is not there raises                               *)
  /\ main' = IF Entry(j) = "none" THEN "raised" ELSE main
  /\ UNCHANGED <<first, jobs, input, worker, holds, thread_exit, results, faults>>

(* The loop has taken as many jobs as were dispatched; after it run_tests  *)
(* joins every thread, and returns.                                        *)
AllJoined == \A w \in Workers: worker[w] \in {"gone", "dead"}

(* Deliberately wrong: a run without failures or crashes is a success.     *)
NothingFailed == IF count["FAIL"] + count["CRASH"] = 0 THEN "success" ELSE "failure"

Outcome == IF count["PASS"] + count["SKIP"] = jobs THEN "success" ELSE "failure"

(* Deliberately wrong: run_tests stops reading when the queue is empty.    *)
ReturnWhenEmpty ==
  /\ main = "collect" /\ output = <<>> /\ AllJoined
  /\ main' = Outcome
  /\ UNCHANGED <<first, jobs, queues, worker, holds, thread_exit, results, tally, faults>>

Return ==
  /\ main = "collect" /\ Cardinality(collected) = jobs /\ AllJoined
  /\ main' = Outcome
  /\ UNCHANGED <<first, jobs, queues, worker, holds, thread_exit, results, tally, faults>>

(* After an exception in the main thread the interpreter waits for the     *)
(* workers, which are not daemons.                                         *)
ExitAfterException ==
  /\ main = "raised" /\ AllJoined /\ main' = "aborted"
  /\ UNCHANGED <<first, jobs, queues, worker, holds, thread_exit, results, tally, faults>>

-----------------------------------------------------------------------------
Collect == \E j \in Jobs: CollectBreak(j) \/ CollectResult(j)
Main == ListSuites \/ Dispatch \/ DispatchBreaks \/ Collect \/ Return \/ ExitAfterException
Work(w) ==
  \/ Stop(w) \/ HandBack(w) \/ Skip(w) \/ Launch(w)
  \/ \E c \in ExitCodes, d \in BOOLEAN: Finish(w, c, d)
Next ==
  \/ Main \/ DispatchRaises \/ Interrupt
  \/ \E w \in Workers: Work(w) \/ WorkerDies(w)

(* Every thread that can go on does, and every test ends.                  *)
Spec ==
  /\ Init /\ [][Next]_vars
  /\ WF_vars(Main) /\ \A w \in Workers: WF_vars(Work(w))

-----------------------------------------------------------------------------
TypeOK ==
  /\ main \in {"list", "dispatch", "collect", "raised", "success", "failure", "aborted"}
  /\ first \in Nat /\ jobs \in Nat
  /\ input \in Seq(Jobs \cup {BreakJob}) /\ output \in Seq(Jobs)
  /\ worker \in [Workers -> {"waiting", "running", "gone", "dead"}]
  /\ holds \in [Workers -> Jobs \cup {BreakJob}]
  /\ thread_exit \in BOOLEAN
  /\ isBreak \in [Jobs -> BOOLEAN] /\ returncode \in [Jobs -> ExitCodes]
  /\ ran \in [Jobs -> ExitCodes \cup {NotRun}] /\ file \in [Jobs -> {"none", "part", "whole"}]
  /\ collected \subseteq Jobs /\ count \in [Statuses -> Nat]
  /\ report \in [Jobs -> Statuses \cup {"none", "part", "whole"}]
  /\ faults \in Nat

Elements(q) == {q[i]: i \in 1 .. Len(q)}
Held == {holds[w]: w \in Workers} \ {BreakJob}
OnlyOnce(q) == \A i, k \in 1 .. Len(q): i # k /\ q[i] = q[k] => q[i] = BreakJob

(* No job is lost and no job is seen twice: a dispatched job is on one of  *)
(* the queues, with one worker (a dead one too), or collected, in exactly  *)
(* one of these places and once.                                           *)
JobsInOnePlace ==
  /\ (Elements(input) \cup Held \cup Elements(output) \cup collected) \ {BreakJob} = Dispatched
  /\ OnlyOnce(input) /\ OnlyOnce(output)
  /\ \A v, w \in Workers: v # w /\ holds[v] = holds[w] => holds[v] = BreakJob
  /\ Elements(input) \cap (Held \cup Elements(output) \cup collected) = {}
  /\ Held \cap (Elements(output) \cup collected) = {}
  /\ Elements(output) \cap collected = {}

Counted(s) == {j \in collected: ~isBreak[j] /\ Status(j) = s}

(* The numbers of the summary are the numbers of jobs with that status;    *)
(* jobs handed back after an interrupt are in none of them.                *)
CountsAreTrue == \A s \in Statuses: count[s] = Cardinality(Counted(s))

(* A run is a success only if every test that was dispatched, without      *)
(* exception, was skipped on purpose or ran to exit code 0: not when it    *)
(* was interrupted, nor when a worker died.                                *)
SuccessIsEarned ==
  main = "success" => \A j \in Dispatched: ~isBreak[j] /\ (j \in SkipJobs \/ ran[j] = 0)

(* "If the return code is 0, 1, or 2, we have a valid xml file": the entry *)
(* of a suite with one of these codes is the whole of its results file.    *)
ReportIsWhole ==
  \A j \in collected:
    IsSuite(j) /\ ~isBreak[j] /\ j \notin SkipJobs /\ returncode[j] \in 0 .. 2
      => report[j] = "whole"

(* No worker leaves while there is a job to run.                           *)
LastOneOut ==
  (\E w \in Workers: worker[w] = "gone") => \A i \in 1 .. Len(input): input[i] = BreakJob

(* The run comes to an end, interrupted or not, unless an exception ended  *)
(* a worker or the dispatching.                                            *)
Terminates == <>(main \in {"success", "failure", "aborted"} \/ faults > 0)

(* The main thread and the workers together do what one thread would.      *)
Verdict ==
  [j \in Jobs |-> IF j \notin collected THEN "none" ELSE IF isBreak[j] THEN "BREAK" ELSE Status(j)]
Ended == IF main \in {"success", "failure", "aborted"} THEN main ELSE "open"
Campaign == INSTANCE TestCampaign
              WITH Tests <- Jobs, asked <- Dispatched, verdict <- Verdict, outcome <- Ended
OneVerdictEach == Campaign!Spec
=============================================================================
