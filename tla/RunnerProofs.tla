---------------------------- MODULE RunnerProofs -----------------------------
(***************************************************************************)
(* Theorems about TestRunner, for every number of tests and workers: no job*)
(* is lost or seen twice, the summary counts what was collected, success   *)
(* is earned, and the run implements TestCampaign.                         *)
(***************************************************************************)
EXTENDS TestRunner, FiniteSetTheorems, SequenceTheorems, TLAPS

(* The dispatched jobs are jobs of the list.                               *)
ListInv ==
  /\ first \in {1, NumSuites + 1}
  /\ first + jobs <= NumSuites + NumExamples + 1
  /\ main = "list" => jobs = 0

(* A worker holds a job exactly while it runs it, or has died with it, and *)
(* when the run has ended there is no worker left.                         *)
WorkerInv ==
  /\ \A w \in Workers: holds[w] # BreakJob <=> worker[w] \in {"running", "dead"}
  /\ main \in {"success", "failure", "aborted"} => AllJoined

(* What a job that has come back says of its process, and when jobs can    *)
(* come back.                                                              *)
ResultInv ==
  /\ \A j \in Elements(output) \cup collected:
       isBreak[j] \/ j \in SkipJobs \/ returncode[j] = ran[j] \/ returncode[j] = 1
  /\ collected # {} => main \notin {"list", "dispatch"}

IInv ==
  /\ TypeOK /\ ListInv /\ WorkerInv /\ JobsInOnePlace
  /\ ResultInv /\ CountsAreTrue /\ SuccessIsEarned

-----------------------------------------------------------------------------
(* Queues.                                                                 *)

LEMMA AppendOnce ==
  ASSUME NEW S, NEW q \in Seq(S), NEW x \in S, OnlyOnce(q), x \notin Elements(q)
  PROVE  /\ Append(q, x) \in Seq(S)
         /\ OnlyOnce(Append(q, x))
         /\ Elements(Append(q, x)) = Elements(q) \cup {x}
<1> DEFINE r == Append(q, x)
<1>1. /\ r \in Seq(S) /\ Len(q) \in Nat /\ Len(r) = Len(q) + 1
      /\ \A i \in 1 .. Len(q): r[i] = q[i]
      /\ r[Len(q) + 1] = x
      OBVIOUS
<1> HIDE DEF r
<1>2. OnlyOnce(r) BY <1>1 DEF OnlyOnce, Elements
<1>3. Elements(r) = Elements(q) \cup {x} BY <1>1 DEF Elements
<1>4. QED BY <1>1, <1>2, <1>3 DEF r

LEMMA TailOnce ==
  ASSUME NEW S, NEW q \in Seq(S), q # <<>>, OnlyOnce(q)
  PROVE  /\ Head(q) \in S /\ Tail(q) \in Seq(S)
         /\ OnlyOnce(Tail(q))
         /\ Elements(q) = Elements(Tail(q)) \cup {Head(q)}
         /\ Head(q) # BreakJob => Head(q) \notin Elements(Tail(q))
<1> DEFINE r == Tail(q)
<1>1. /\ Head(q) \in S /\ r \in Seq(S) /\ Len(r) = Len(q) - 1 /\ Len(q) \in Nat /\ Len(q) > 0
      /\ \A i \in 1 .. Len(r): r[i] = q[i + 1]
      /\ Head(q) = q[1]
      BY HeadTailProperties
<1> HIDE DEF r
<1>2. OnlyOnce(r) BY <1>1 DEF OnlyOnce
<1>3. Elements(q) = Elements(r) \cup {Head(q)}
  <2>1. \A i \in 1 .. Len(q): i = 1 \/ (i - 1 \in 1 .. Len(r) /\ q[i] = r[i - 1])
        BY <1>1
  <2>2. \A i \in 1 .. Len(r): i + 1 \in 1 .. Len(q) /\ r[i] = q[i + 1]
        BY <1>1
  <2>3. ASSUME NEW e \in Elements(q) PROVE e \in Elements(r) \cup {Head(q)}
        BY <1>1, <2>1 DEF Elements
  <2>4. ASSUME NEW e \in Elements(r) \cup {Head(q)} PROVE e \in Elements(q)
        BY <1>1, <2>2 DEF Elements
  <2>5. QED BY <2>3, <2>4
<1>4. ASSUME Head(q) # BreakJob, Head(q) \in Elements(r) PROVE FALSE
  <2>1. PICK i \in 1 .. Len(r): r[i] = Head(q)
        BY <1>4 DEF Elements
  <2>2. /\ 1 \in 1 .. Len(q) /\ i + 1 \in 1 .. Len(q) /\ 1 # i + 1
        /\ q[i + 1] = q[1] /\ q[1] # BreakJob
        BY <1>1, <1>4, <2>1
  <2>3. QED BY <2>2 DEF OnlyOnce
<1>5. QED BY <1>1, <1>2, <1>3, <1>4 DEF r

LEMMA WorkersCounted == Cardinality(Workers) \in Nat \ {0}
  BY FS_CardinalityType, FS_EmptySet, RunnerAssumption

LEMMA BreaksType ==
  BreakJobs \in Seq(Jobs \cup {BreakJob}) /\ Len(BreakJobs) = Cardinality(Workers)
  BY WorkersCounted DEF BreakJobs

LEMMA BreaksAppended ==
  ASSUME NEW q \in Seq(Jobs \cup {BreakJob})
  PROVE  /\ q \o BreakJobs \in Seq(Jobs \cup {BreakJob})
         /\ Len(q) \in Nat /\ Cardinality(Workers) \in Nat \ {0}
         /\ Len(q \o BreakJobs) = Len(q) + Cardinality(Workers)
         /\ \A i \in 1 .. Len(q): (q \o BreakJobs)[i] = q[i]
         /\ \A i \in Len(q) + 1 .. Len(q) + Cardinality(Workers): (q \o BreakJobs)[i] = BreakJob
<1> DEFINE n == Cardinality(Workers)
           r == q \o BreakJobs
<1>1. Len(BreakJobs) = n /\ n \in Nat \ {0}
      BY WorkersCounted, BreaksType
<1>2. \A i \in 1 .. n: BreakJobs[i] = BreakJob
      BY DEF BreakJobs
<1>3. /\ r \in Seq(Jobs \cup {BreakJob}) /\ Len(q) \in Nat /\ Len(r) = Len(q) + n
      /\ \A i \in 1 .. Len(q) + n: r[i] = IF i <= Len(q) THEN q[i] ELSE BreakJobs[i - Len(q)]
  <2>1. /\ r \in Seq(Jobs \cup {BreakJob}) /\ Len(q) \in Nat /\ Len(r) = Len(q) + Len(BreakJobs)
        /\ \A i \in 1 .. Len(q) + Len(BreakJobs):
             r[i] = IF i <= Len(q) THEN q[i] ELSE BreakJobs[i - Len(q)]
        BY BreaksType
  <2>2. QED BY <1>1, <2>1
<1> HIDE DEF r, n
<1>4. \A i \in 1 .. Len(q): i \in 1 .. Len(q) + n /\ i <= Len(q)
      BY <1>1, <1>3
<1>5. \A i \in Len(q) + 1 .. Len(q) + n:
        i \in 1 .. Len(q) + n /\ ~(i <= Len(q)) /\ i - Len(q) \in 1 .. n
      BY <1>1, <1>3
<1>6. /\ \A i \in 1 .. Len(q): r[i] = q[i]
      /\ \A i \in Len(q) + 1 .. Len(q) + n: r[i] = BreakJob
      BY <1>2, <1>3, <1>4, <1>5
<1>7. QED BY <1>1, <1>3, <1>6 DEF r, n

LEMMA BreaksOnce ==
  ASSUME NEW q \in Seq(Jobs \cup {BreakJob}), OnlyOnce(q)
  PROVE  /\ q \o BreakJobs \in Seq(Jobs \cup {BreakJob})
         /\ OnlyOnce(q \o BreakJobs)
         /\ Elements(q \o BreakJobs) = Elements(q) \cup {BreakJob}
<1> DEFINE n == Cardinality(Workers)
           r == q \o BreakJobs
<1>1. /\ r \in Seq(Jobs \cup {BreakJob}) /\ Len(q) \in Nat /\ n \in Nat \ {0} /\ Len(r) = Len(q) + n
      /\ \A i \in 1 .. Len(q): r[i] = q[i]
      /\ \A i \in Len(q) + 1 .. Len(q) + n: r[i] = BreakJob
      BY BreaksAppended
<1> HIDE DEF r, n
<1>2. OnlyOnce(r)
      BY <1>1 DEF OnlyOnce, Elements
<1>3. Elements(r) = Elements(q) \cup {BreakJob}
  <2>1. ASSUME NEW e \in Elements(q) PROVE e \in Elements(r)
        BY <1>1 DEF Elements
  <2>2. BreakJob \in Elements(r)
    <3>1. Len(q) + 1 \in 1 .. Len(r) /\ r[Len(q) + 1] = BreakJob
          BY <1>1
    <3>2. QED BY <3>1 DEF Elements
  <2>3. ASSUME NEW e \in Elements(r) PROVE e \in Elements(q) \cup {BreakJob}
        BY <1>1 DEF Elements
  <2>4. QED BY <2>1, <2>2, <2>3
<1>4. QED BY <1>1, <1>2, <1>3 DEF r

LEMMA NoElements == Elements(<<>>) = {} /\ OnlyOnce(<<>>)
  BY DEF Elements, OnlyOnce

-----------------------------------------------------------------------------
(* Types.                                                                  *)

LEMMA TypeInit == Init => TypeOK
<1> SUFFICES ASSUME Init PROVE TypeOK
    OBVIOUS
<1>1. input \in Seq(Jobs \cup {BreakJob}) /\ output \in Seq(Jobs)
      BY DEF Init
<1>2. holds \in [Workers -> Jobs \cup {BreakJob}] /\ worker \in [Workers -> {"waiting", "running", "gone", "dead"}]
      BY DEF Init
<1>3. isBreak \in [Jobs -> BOOLEAN] /\ returncode \in [Jobs -> ExitCodes]
      BY DEF Init, ExitCodes
<1>4. ran \in [Jobs -> ExitCodes \cup {NotRun}] /\ file \in [Jobs -> {"none", "part", "whole"}]
      BY DEF Init
<1>5. collected \subseteq Jobs /\ count \in [Statuses -> Nat]
      BY DEF Init
<1>6. report \in [Jobs -> Statuses \cup {"none", "part", "whole"}]
      BY DEF Init
<1>7. QED BY <1>1, <1>2, <1>3, <1>4, <1>5, <1>6 DEF Init, TypeOK

LEMMA StatusType ==
  ASSUME NEW j
  PROVE  /\ Status(j) \in Statuses
         /\ Status(j) = "SKIP" <=> j \in SkipJobs
         /\ Status(j) = "PASS" => returncode[j] = 0
  BY DEF Status, Statuses

(* What a worker takes is a job or a break job.                            *)
LEMMA TakesType ==
  ASSUME TypeOK, NEW w \in Workers, Takes(w)
  PROVE  /\ Head(input) \in Jobs \cup {BreakJob}
         /\ input' \in Seq(Jobs \cup {BreakJob})
  BY HeadTailProperties DEF TypeOK, Takes

LEMMA TypeStep == TypeOK /\ WorkerInv /\ ListInv /\ [Next]_vars => TypeOK'
<1> SUFFICES ASSUME TypeOK, WorkerInv, ListInv, [Next]_vars PROVE TypeOK'
    OBVIOUS
<1> USE RunnerAssumption
<1>1. CASE ListSuites
      BY <1>1 DEF ListSuites, TypeOK, queues, results, tally
<1>2. CASE Dispatch
      BY <1>2 DEF Dispatch, TypeOK, results, tally
<1>3. CASE DispatchRaises
      BY <1>3 DEF DispatchRaises, TypeOK, queues, results, tally
<1>4. CASE DispatchBreaks
  <2>1. input' \in Seq(Jobs \cup {BreakJob})
        BY <1>4, BreaksType, ConcatProperties DEF DispatchBreaks, TypeOK
  <2>2. QED BY <1>4, <2>1 DEF DispatchBreaks, TypeOK, results, tally
<1>5. ASSUME NEW w \in Workers, Stop(w) PROVE TypeOK'
      BY <1>5, TakesType DEF Stop, TypeOK, results, tally
<1>6. ASSUME NEW w \in Workers, HandBack(w) PROVE TypeOK'
  <2>1. Head(input) \in Jobs /\ input' \in Seq(Jobs \cup {BreakJob})
        BY <1>6, TakesType DEF HandBack
  <2>2. QED BY <1>6, <2>1 DEF HandBack, TypeOK, tally
<1>7. ASSUME NEW w \in Workers, Skip(w) PROVE TypeOK'
  <2>1. Head(input) \in Jobs /\ input' \in Seq(Jobs \cup {BreakJob})
        BY <1>7, TakesType DEF Skip
  <2>2. QED BY <1>7, <2>1 DEF Skip, TypeOK, results, tally
<1>8. ASSUME NEW w \in Workers, Launch(w) PROVE TypeOK'
  <2>1. Head(input) \in Jobs /\ input' \in Seq(Jobs \cup {BreakJob})
        BY <1>8, TakesType DEF Launch
  <2>2. QED BY <1>8, <2>1 DEF Launch, TypeOK, results, tally
<1>9. ASSUME NEW w \in Workers, NEW c \in ExitCodes, NEW d \in BOOLEAN, Finish(w, c, d)
      PROVE TypeOK'
  <2>1. holds[w] \in Jobs
        BY <1>9 DEF Finish, WorkerInv, TypeOK
  <2>2. ReturnCode(c, d) \in ExitCodes /\ FilesLeft(holds[w], c) \subseteq {"none", "part", "whole"}
        BY DEF ReturnCode, FilesLeft, ExitCodes
  <2>3. QED BY <1>9, <2>1, <2>2 DEF Finish, TypeOK, tally
<1>10. ASSUME NEW w \in Workers, WorkerDies(w) PROVE TypeOK'
      BY <1>10 DEF WorkerDies, TypeOK, queues, results, tally
<1>11. CASE Interrupt
      BY <1>11 DEF Interrupt, TypeOK, queues, results, tally
<1>12. ASSUME NEW j \in Jobs, CollectBreak(j) PROVE TypeOK'
  <2>1. output' \in Seq(Jobs)
        BY <1>12, HeadTailProperties DEF CollectBreak, Collects, Taken, TypeOK
  <2>2. QED BY <1>12, <2>1 DEF CollectBreak, Taken, TypeOK, results
<1>13. ASSUME NEW j \in Jobs, CollectResult(j) PROVE TypeOK'
  <2>1. output' \in Seq(Jobs)
        BY <1>13, HeadTailProperties DEF CollectResult, Collects, Taken, TypeOK
  <2>2. Status(j) \in Statuses
        BY StatusType
  <2>3. Entry(j) \in Statuses \cup {"none", "part", "whole"}
        BY <2>2 DEF Entry, TypeOK
  <2>4. collected' \subseteq Jobs
        BY <1>13 DEF CollectResult, Taken, TypeOK
  <2>5. QED BY <1>13, <2>1, <2>2, <2>3, <2>4 DEF CollectResult, TypeOK, results
<1>14. CASE Return
      BY <1>14 DEF Return, Outcome, TypeOK, queues, results, tally
<1>15. CASE ExitAfterException
      BY <1>15 DEF ExitAfterException, TypeOK, queues, results, tally
<1>16. CASE UNCHANGED vars
      BY <1>16 DEF vars, TypeOK, queues, results, tally
<1>17. QED
      BY <1>1, <1>2, <1>3, <1>4, <1>5, <1>6, <1>7, <1>8, <1>9, <1>10, <1>11, <1>12, <1>13,
         <1>14, <1>15, <1>16 DEF Next, Main, Work, Collect

-----------------------------------------------------------------------------
(* Where the jobs are.                                                     *)

LEMMA Taking ==
  ASSUME TypeOK, JobsInOnePlace, NEW w \in Workers, Takes(w)
  PROVE  /\ OnlyOnce(input')
         /\ Elements(input) = Elements(input') \cup {Head(input)}
         /\ Head(input) # BreakJob =>
              /\ Head(input) \in Jobs /\ Head(input) \in Elements(input)
              /\ Head(input) \notin Elements(input') \cup Held \cup Elements(output) \cup collected
<1>1. /\ OnlyOnce(Tail(input)) /\ Head(input) \in Jobs \cup {BreakJob}
      /\ Elements(input) = Elements(Tail(input)) \cup {Head(input)}
      /\ Head(input) # BreakJob => Head(input) \notin Elements(Tail(input))
      BY TailOnce DEF Takes, TypeOK, JobsInOnePlace
<1>2. Head(input) \notin Held \cup Elements(output) \cup collected
      BY <1>1 DEF JobsInOnePlace
<1>3. QED BY <1>1, <1>2 DEF Takes

LEMMA Returning ==
  ASSUME TypeOK, JobsInOnePlace, NEW j \in Jobs, j \notin Elements(output),
         output' = Append(output, j)
  PROVE  OnlyOnce(output') /\ Elements(output') = Elements(output) \cup {j}
  BY AppendOnce DEF TypeOK, JobsInOnePlace

LEMMA Collecting ==
  ASSUME TypeOK, JobsInOnePlace, NEW j \in Jobs, Collects(j), Taken(j)
  PROVE  /\ OnlyOnce(output')
         /\ Elements(output) = Elements(output') \cup {j}
         /\ j \notin Elements(output') /\ j \notin collected
         /\ collected' = collected \cup {j}
<1>1. /\ OnlyOnce(Tail(output))
      /\ Elements(output) = Elements(Tail(output)) \cup {j}
      /\ j \notin Elements(Tail(output))
      BY TailOnce, RunnerAssumption DEF Collects, TypeOK, JobsInOnePlace
<1>2. j \notin collected
      BY <1>1 DEF JobsInOnePlace
<1>3. QED BY <1>1, <1>2 DEF Taken

LEMMA HeldGrows ==
  ASSUME TypeOK, NEW w \in Workers, NEW j \in Jobs, holds[w] = BreakJob, JobsInOnePlace, j \notin Held,
         holds' = [holds EXCEPT ![w] = j]
  PROVE  /\ Held' = Held \cup {j}
         /\ \A u, v \in Workers: u # v /\ holds'[u] = holds'[v] => holds'[u] = BreakJob
<1>1. j # BreakJob /\ holds'[w] = j /\ \A u \in Workers: u # w => holds'[u] = holds[u]
      BY RunnerAssumption DEF TypeOK
<1>2. QED BY <1>1 DEF Held, JobsInOnePlace

LEMMA HeldShrinks ==
  ASSUME TypeOK, NEW w \in Workers, holds[w] # BreakJob, JobsInOnePlace,
         holds' = [holds EXCEPT ![w] = BreakJob]
  PROVE  /\ Held = Held' \cup {holds[w]} /\ holds[w] \notin Held'
         /\ \A u, v \in Workers: u # v /\ holds'[u] = holds'[v] => holds'[u] = BreakJob
<1>1. holds'[w] = BreakJob /\ \A u \in Workers: u # w => holds'[u] = holds[u]
      BY DEF TypeOK
<1>2. holds[w] \notin Held'
      BY <1>1 DEF Held, JobsInOnePlace
<1>3. Held = Held' \cup {holds[w]}
      BY <1>1 DEF Held
<1>4. QED BY <1>1, <1>2, <1>3 DEF JobsInOnePlace

LEMMA PlacesInit == Init => JobsInOnePlace
<1> SUFFICES ASSUME Init PROVE JobsInOnePlace
    OBVIOUS
<1>1. Dispatched = {}
      BY DEF Init, Dispatched
<1>2. Held = {}
      BY DEF Init, Held
<1>3. QED BY <1>1, <1>2, NoElements DEF Init, JobsInOnePlace

LEMMA PlacesSame ==
  ASSUME JobsInOnePlace, UNCHANGED <<first, jobs, input, output, holds, collected>>
  PROVE  JobsInOnePlace'
<1>1. Dispatched' = Dispatched /\ Held' = Held
      BY DEF Dispatched, Held
<1>2. QED BY <1>1 DEF JobsInOnePlace

LEMMA PlacesStep == TypeOK /\ ListInv /\ WorkerInv /\ JobsInOnePlace /\ [Next]_vars => JobsInOnePlace'
<1> SUFFICES ASSUME TypeOK, ListInv, WorkerInv, JobsInOnePlace, [Next]_vars PROVE JobsInOnePlace'
    OBVIOUS
<1>0. BreakJob \notin Jobs /\ Elements(output) \subseteq Jobs /\ collected \subseteq Jobs
      BY RunnerAssumption, ElementOfSeq DEF TypeOK, Elements
<1>1. CASE ListSuites
  <2>1. Dispatched' = {} /\ Dispatched = {}
    <3>1. jobs = 0 /\ jobs' = 0 /\ first \in Nat /\ first' \in Nat
          BY <1>1, RunnerAssumption DEF ListSuites, ListInv, TypeOK
    <3>2. \A k \in Nat: k .. k + 0 - 1 = {}
          OBVIOUS
    <3>3. QED BY <3>1, <3>2 DEF Dispatched
  <2>2. /\ Elements(input)' = Elements(input) /\ Elements(output)' = Elements(output) /\ Held' = Held
        /\ OnlyOnce(input)' = OnlyOnce(input) /\ OnlyOnce(output)' = OnlyOnce(output)
        BY <1>1 DEF ListSuites, queues, Elements, OnlyOnce, Held
  <2>3. QED BY <1>1, <2>1, <2>2 DEF ListSuites, tally, queues, JobsInOnePlace
<1>2. CASE Dispatch
  <2> DEFINE j == first + jobs
  <2>1. j \in Jobs /\ j # BreakJob /\ j \notin Dispatched /\ Dispatched' = Dispatched \cup {j}
        BY <1>2, RunnerAssumption DEF Dispatch, Dispatched, ListInv, TypeOK, BreakJob
  <2>2. j \notin Elements(input) \cup Held \cup Elements(output) \cup collected
        BY <2>1 DEF JobsInOnePlace
  <2>3. OnlyOnce(input') /\ Elements(input') = Elements(input) \cup {j}
        BY <1>2, <2>1, <2>2, AppendOnce DEF Dispatch, TypeOK, JobsInOnePlace
  <2> HIDE DEF j
  <2>4. Held' = Held /\ UNCHANGED <<output, holds, collected>>
        BY <1>2 DEF Dispatch, Held, tally
  <2>5. QED BY <2>1, <2>2, <2>3, <2>4 DEF JobsInOnePlace
<1>3. CASE DispatchRaises
      BY <1>3, PlacesSame DEF DispatchRaises, queues, tally
<1>4. CASE DispatchBreaks
  <2>1. OnlyOnce(input') /\ Elements(input') = Elements(input) \cup {BreakJob}
        BY <1>4, BreaksOnce DEF DispatchBreaks, TypeOK, JobsInOnePlace
  <2>2. Held' = Held /\ Dispatched' = Dispatched /\ UNCHANGED <<output, holds, collected>>
        BY <1>4 DEF DispatchBreaks, Held, Dispatched, tally
  <2>3. BreakJob \notin Held \cup Elements(output) \cup collected
        BY <1>0 DEF Held
  <2>4. QED BY <2>1, <2>2, <2>3 DEF JobsInOnePlace
<1>5. ASSUME NEW w \in Workers, Stop(w) PROVE JobsInOnePlace'
  <2>1. OnlyOnce(input') /\ Elements(input) = Elements(input') \cup {BreakJob}
        BY <1>5, Taking DEF Stop
  <2>2. Held' = Held /\ Dispatched' = Dispatched /\ UNCHANGED <<output, holds, collected>>
        BY <1>5 DEF Stop, Held, Dispatched, tally
  <2>3. QED BY <2>1, <2>2 DEF JobsInOnePlace
<1>6. ASSUME NEW w \in Workers, HandBack(w) \/ Skip(w) PROVE JobsInOnePlace'
  <2> DEFINE j == Head(input)
  <2>1. /\ OnlyOnce(input') /\ Elements(input) = Elements(input') \cup {j} /\ j \in Jobs
        /\ j \notin Elements(input') \cup Held \cup Elements(output) \cup collected
        BY <1>6, Taking DEF HandBack, Skip
  <2>2. OnlyOnce(output') /\ Elements(output') = Elements(output) \cup {j}
        BY <1>6, <2>1, Returning DEF HandBack, Skip
  <2> HIDE DEF j
  <2>3. Held' = Held /\ Dispatched' = Dispatched /\ UNCHANGED <<holds, collected>>
        BY <1>6 DEF HandBack, Skip, Held, Dispatched, tally
  <2>4. QED BY <2>1, <2>2, <2>3 DEF JobsInOnePlace
<1>7. ASSUME NEW w \in Workers, Launch(w) PROVE JobsInOnePlace'
  <2> DEFINE j == Head(input)
  <2>1. /\ OnlyOnce(input') /\ Elements(input) = Elements(input') \cup {j} /\ j \in Jobs
        /\ j \notin Elements(input') \cup Held \cup Elements(output) \cup collected
        BY <1>7, Taking DEF Launch
  <2>2. holds[w] = BreakJob
        BY <1>7 DEF Launch, Takes, WorkerInv
  <2>3. /\ Held' = Held \cup {j}
        /\ \A u, v \in Workers: u # v /\ holds'[u] = holds'[v] => holds'[u] = BreakJob
        BY <1>7, <2>1, <2>2, HeldGrows DEF Launch
  <2> HIDE DEF j
  <2>4. Dispatched' = Dispatched /\ UNCHANGED <<output, collected>>
        BY <1>7 DEF Launch, Dispatched, tally
  <2>5. QED BY <2>1, <2>3, <2>4 DEF JobsInOnePlace
<1>8. ASSUME NEW w \in Workers, NEW c \in ExitCodes, NEW d \in BOOLEAN, Finish(w, c, d)
      PROVE JobsInOnePlace'
  <2> DEFINE j == holds[w]
  <2>1. j \in Jobs /\ j # BreakJob
        BY <1>8 DEF Finish, WorkerInv, TypeOK
  <2>2. /\ Held = Held' \cup {j} /\ j \notin Held'
        /\ \A u, v \in Workers: u # v /\ holds'[u] = holds'[v] => holds'[u] = BreakJob
        BY <1>8, <2>1, HeldShrinks DEF Finish
  <2>3. j \notin Elements(output)
        BY <2>2 DEF JobsInOnePlace
  <2>4. OnlyOnce(output') /\ Elements(output') = Elements(output) \cup {j}
        BY <1>8, <2>1, <2>3, Returning DEF Finish
  <2> HIDE DEF j
  <2>5. Dispatched' = Dispatched /\ UNCHANGED <<input, collected>>
        BY <1>8 DEF Finish, Dispatched, tally
  <2>6. QED BY <2>1, <2>2, <2>4, <2>5 DEF JobsInOnePlace
<1>9. ASSUME NEW w \in Workers, WorkerDies(w) PROVE JobsInOnePlace'
      BY <1>9, PlacesSame DEF WorkerDies, queues, tally
<1>10. ASSUME NEW j \in Jobs, CollectBreak(j) \/ CollectResult(j) PROVE JobsInOnePlace'
  <2>1. /\ OnlyOnce(output') /\ Elements(output) = Elements(output') \cup {j}
        /\ j \notin Elements(output') /\ collected' = collected \cup {j}
        BY <1>10, Collecting DEF CollectBreak, CollectResult
  <2>2. Held' = Held /\ Dispatched' = Dispatched /\ UNCHANGED <<input, holds>>
        BY <1>10 DEF CollectBreak, CollectResult, Held, Dispatched
  <2>3. QED BY <2>1, <2>2 DEF JobsInOnePlace
<1>11. CASE Interrupt \/ Return \/ ExitAfterException \/ UNCHANGED vars
      BY <1>11, PlacesSame DEF Interrupt, Return, ExitAfterException, vars, queues, tally
<1>12. QED
      BY <1>1, <1>2, <1>3, <1>4, <1>5, <1>6, <1>7, <1>8, <1>9, <1>10, <1>11 DEF Next, Main, Work, Collect

-----------------------------------------------------------------------------
(* The other parts of the invariant.                                       *)

LEMMA ListStep == TypeOK /\ ListInv /\ [Next]_vars => ListInv'
<1> SUFFICES ASSUME TypeOK, ListInv, [Next]_vars PROVE ListInv'
    OBVIOUS
<1>1. CASE ListSuites
  <2>1. jobs' = 0 /\ first' \in {1, NumSuites + 1} /\ main' = "dispatch"
        BY <1>1 DEF ListSuites, ListInv
  <2>2. first' + 0 <= NumSuites + NumExamples + 1
    <3>1. NumSuites \in Nat /\ NumExamples \in Nat
          BY RunnerAssumption
    <3>2. first' = 1 \/ first' = NumSuites + 1
          BY <2>1
    <3>3. QED BY <3>1, <3>2
  <2>3. QED BY <2>1, <2>2 DEF ListInv
<1>2. CASE Dispatch
      BY <1>2, RunnerAssumption DEF Dispatch, ListInv, TypeOK, Jobs
<1>3. CASE DispatchRaises \/ DispatchBreaks \/ Interrupt
      BY <1>3 DEF DispatchRaises, DispatchBreaks, Interrupt, ListInv
<1>4. CASE Collect \/ Return \/ ExitAfterException
  <2>1. UNCHANGED <<first, jobs>> /\ main' # "list"
        BY <1>4 DEF Collect, CollectBreak, CollectResult, Collects, Return, Outcome, ExitAfterException
  <2>2. QED BY <2>1 DEF ListInv
<1>5. ASSUME NEW w \in Workers, Work(w) \/ WorkerDies(w) PROVE ListInv'
      BY <1>5 DEF Work, Stop, HandBack, Skip, Launch, Finish, WorkerDies, ListInv
<1>6. CASE UNCHANGED vars
      BY <1>6 DEF vars, ListInv
<1>7. QED BY <1>1, <1>2, <1>3, <1>4, <1>5, <1>6 DEF Next, Main

LEMMA WorkerStep == TypeOK /\ WorkerInv /\ [Next]_vars => WorkerInv'
<1> SUFFICES ASSUME TypeOK, WorkerInv, [Next]_vars PROVE WorkerInv'
    OBVIOUS
<1>1. CASE ListSuites \/ Dispatch \/ DispatchRaises \/ DispatchBreaks \/ Interrupt \/ UNCHANGED vars
      BY <1>1 DEF ListSuites, Dispatch, DispatchRaises, DispatchBreaks, Interrupt, vars, WorkerInv, AllJoined
<1>2. CASE Collect \/ Return \/ ExitAfterException
      BY <1>2 DEF Collect, CollectBreak, CollectResult, Collects, Return, Outcome, ExitAfterException,
                  WorkerInv, AllJoined
<1>3. ASSUME NEW w \in Workers, Stop(w) \/ HandBack(w) \/ Skip(w) PROVE WorkerInv'
      BY <1>3 DEF Stop, HandBack, Skip, Takes, TypeOK, WorkerInv, AllJoined
<1>4. ASSUME NEW w \in Workers, Launch(w) PROVE WorkerInv'
      BY <1>4 DEF Launch, Takes, TypeOK, WorkerInv, AllJoined
<1>5. ASSUME NEW w \in Workers, NEW c \in ExitCodes, NEW d \in BOOLEAN, Finish(w, c, d)
      PROVE WorkerInv'
      BY <1>5 DEF Finish, TypeOK, WorkerInv, AllJoined
<1>6. ASSUME NEW w \in Workers, WorkerDies(w) PROVE WorkerInv'
      BY <1>6 DEF WorkerDies, TypeOK, WorkerInv, AllJoined
<1>7. QED BY <1>1, <1>2, <1>3, <1>4, <1>5, <1>6 DEF Next, Main, Work

(* What a step may do to the jobs that have come back: nothing.            *)
LEMMA ResultsStay ==
  ASSUME TypeOK, WorkerInv, JobsInOnePlace, [Next]_vars,
         NEW j \in Elements(output) \cup collected
  PROVE  isBreak'[j] = isBreak[j] /\ returncode'[j] = returncode[j] /\ ran'[j] = ran[j]
<1>1. CASE ListSuites \/ Dispatch \/ DispatchRaises \/ DispatchBreaks \/ Interrupt \/ UNCHANGED vars
      BY <1>1 DEF ListSuites, Dispatch, DispatchRaises, DispatchBreaks, Interrupt, vars, results
<1>2. CASE Collect \/ Return \/ ExitAfterException
      BY <1>2 DEF Collect, CollectBreak, CollectResult, Return, ExitAfterException, results
<1>3. ASSUME NEW w \in Workers, Stop(w) \/ Skip(w) \/ Launch(w) \/ WorkerDies(w)
      PROVE isBreak' = isBreak /\ returncode' = returncode /\ ran' = ran
      BY <1>3 DEF Stop, Skip, Launch, WorkerDies, results
<1>4. ASSUME NEW w \in Workers, HandBack(w)
      PROVE isBreak'[j] = isBreak[j] /\ returncode' = returncode /\ ran' = ran
  <2>1. j # Head(input)
        BY <1>4, Taking DEF HandBack
  <2>2. QED BY <1>4, <2>1 DEF HandBack, TypeOK
<1>5. ASSUME NEW w \in Workers, NEW c \in ExitCodes, NEW d \in BOOLEAN, Finish(w, c, d)
      PROVE isBreak' = isBreak /\ returncode'[j] = returncode[j] /\ ran'[j] = ran[j]
  <2>1. holds[w] \in Held
        BY <1>5 DEF Finish, WorkerInv, Held
  <2>2. j # holds[w]
        BY <2>1 DEF JobsInOnePlace
  <2>3. QED BY <1>5, <2>2 DEF Finish, TypeOK
<1>6. QED BY <1>1, <1>2, <1>3, <1>4, <1>5 DEF Next, Main, Work

LEMMA ResultStep ==
  TypeOK /\ WorkerInv /\ JobsInOnePlace /\ ResultInv /\ [Next]_vars => ResultInv'
<1> SUFFICES ASSUME TypeOK, WorkerInv, JobsInOnePlace, ResultInv, [Next]_vars PROVE ResultInv'
    OBVIOUS
<1> DEFINE Says(j) == isBreak[j] \/ j \in SkipJobs \/ returncode[j] = ran[j] \/ returncode[j] = 1
<1>0. \A j \in Elements(output) \cup collected: Says(j)'
      BY ResultsStay DEF ResultInv
<1>1. CASE ListSuites \/ Dispatch \/ DispatchRaises \/ DispatchBreaks \/ Interrupt \/ UNCHANGED vars
  <2>1. output' = output /\ collected' = collected
        BY <1>1 DEF ListSuites, Dispatch, DispatchRaises, DispatchBreaks, Interrupt, vars, queues, tally
  <2>2. collected # {} => main' \notin {"list", "dispatch"}
        BY <1>1 DEF ListSuites, Dispatch, DispatchRaises, DispatchBreaks, Interrupt, vars, ResultInv
  <2>3. QED BY <1>0, <2>1, <2>2 DEF ResultInv
<1>2. ASSUME NEW j \in Jobs, CollectBreak(j) \/ CollectResult(j) PROVE ResultInv'
  <2>1. Elements(output') \cup collected' = Elements(output) \cup collected
        BY <1>2, Collecting DEF CollectBreak, CollectResult
  <2>2. main' \notin {"list", "dispatch"}
        BY <1>2 DEF CollectBreak, CollectResult, Collects
  <2>3. QED BY <1>0, <2>1, <2>2 DEF ResultInv
<1>3. CASE Return \/ ExitAfterException
  <2>1. output' = output /\ collected' = collected /\ main' \notin {"list", "dispatch"}
        BY <1>3 DEF Return, Outcome, ExitAfterException, queues, tally
  <2>2. QED BY <1>0, <2>1 DEF ResultInv
<1>4. ASSUME NEW w \in Workers, Stop(w) \/ Launch(w) \/ WorkerDies(w) PROVE ResultInv'
  <2>1. UNCHANGED <<output, collected, main>>
        BY <1>4 DEF Stop, Launch, WorkerDies, queues, tally
  <2>2. QED BY <1>0, <2>1 DEF ResultInv
<1>5. ASSUME NEW w \in Workers, HandBack(w) \/ Skip(w) PROVE ResultInv'
  <2>1. PICK j \in Jobs: j = Head(input) /\ j \notin Elements(output)
        BY <1>5, Taking DEF HandBack, Skip
  <2>2. Elements(output') = Elements(output) \cup {j}
        BY <1>5, <2>1, Returning DEF HandBack, Skip
  <2>3. Says(j)'
        BY <1>5, <2>1 DEF HandBack, Skip, TypeOK
  <2>4. UNCHANGED <<collected, main>>
        BY <1>5 DEF HandBack, Skip, tally
  <2>5. QED BY <1>0, <2>2, <2>3, <2>4 DEF ResultInv
<1>6. ASSUME NEW w \in Workers, NEW c \in ExitCodes, NEW d \in BOOLEAN, Finish(w, c, d)
      PROVE ResultInv'
  <2>1. PICK j \in Jobs: j = holds[w] /\ j \in Held
        BY <1>6 DEF Finish, WorkerInv, TypeOK, Held
  <2>2. j \notin Elements(output)
        BY <2>1 DEF JobsInOnePlace
  <2>3. Elements(output') = Elements(output) \cup {j}
        BY <1>6, <2>1, <2>2, Returning DEF Finish
  <2>4. Says(j)'
    <3>1. returncode'[j] = ReturnCode(c, d) /\ ran'[j] = c
          BY <1>6, <2>1 DEF Finish, TypeOK
    <3>2. QED BY <3>1 DEF ReturnCode
  <2>5. UNCHANGED <<collected, main>>
        BY <1>6 DEF Finish, tally
  <2>6. QED BY <1>0, <2>3, <2>4, <2>5 DEF ResultInv
<1>7. QED BY <1>1, <1>2, <1>3, <1>4, <1>5, <1>6 DEF Next, Main, Work, Collect

-----------------------------------------------------------------------------
(* Counting.                                                               *)

LEMMA CollectedFinite ==
  ASSUME TypeOK
  PROVE  /\ IsFiniteSet(collected) /\ Cardinality(collected) \in Nat
         /\ \A s: IsFiniteSet(Counted(s)) /\ Counted(s) \subseteq collected
<1>1. IsFiniteSet(collected)
  <2>1. NumSuites + NumExamples \in Int /\ 1 \in Int
        BY RunnerAssumption
  <2>2. IsFiniteSet(Jobs)
        BY <2>1, FS_Interval DEF Jobs
  <2>3. QED BY <2>2, FS_Subset DEF TypeOK
<1>2. \A s: Counted(s) \subseteq collected
      BY DEF Counted
<1>3. QED BY <1>1, <1>2, FS_Subset, FS_CardinalityType

LEMMA StatusSame ==
  ASSUME NEW j, returncode'[j] = returncode[j]
  PROVE  Status(j)' = Status(j)
  BY DEF Status

LEMMA CountsInit == Init => CountsAreTrue
<1> SUFFICES ASSUME Init, NEW s \in Statuses PROVE count[s] = Cardinality(Counted(s))
    BY DEF CountsAreTrue
<1>1. Counted(s) = {}
      BY DEF Init, Counted
<1>2. QED BY <1>1, FS_EmptySet DEF Init

LEMMA CountsStep ==
  TypeOK /\ WorkerInv /\ JobsInOnePlace /\ CountsAreTrue /\ [Next]_vars => CountsAreTrue'
<1> SUFFICES ASSUME TypeOK, WorkerInv, JobsInOnePlace, CountsAreTrue, [Next]_vars PROVE CountsAreTrue'
    OBVIOUS
<1>0. \A j \in collected: isBreak'[j] = isBreak[j] /\ Status(j)' = Status(j)
      BY ResultsStay, StatusSame
<1>1. ASSUME NEW j \in Jobs, CollectBreak(j) PROVE CountsAreTrue'
  <2>1. /\ collected' = collected \cup {j} /\ isBreak'[j] /\ count' = count
        BY <1>1, Collecting DEF CollectBreak, results
  <2>2. \A s: Counted(s)' = Counted(s)
        BY <1>0, <2>1 DEF Counted
  <2>3. QED BY <2>1, <2>2 DEF CountsAreTrue
<1>2. ASSUME NEW j \in Jobs, CollectResult(j) PROVE CountsAreTrue'
  <2>0. PICK v \in Statuses: v = Status(j)
        BY StatusType
  <2>1. /\ collected' = collected \cup {j} /\ j \notin collected
        /\ isBreak' = isBreak /\ returncode' = returncode /\ ~isBreak[j]
        /\ count' = [count EXCEPT ![v] = @ + 1]
        BY <1>2, <2>0, Collecting DEF CollectResult, results
  <2>2. Status(j)' = v
        BY <2>0, <2>1, StatusSame
  <2>3. Counted(v)' = Counted(v) \cup {j} /\ j \notin Counted(v)
        BY <1>0, <2>1, <2>2 DEF Counted
  <2>4. \A s: s # v => Counted(s)' = Counted(s)
        BY <1>0, <2>1, <2>2 DEF Counted
  <2>5. Cardinality(Counted(v) \cup {j}) = Cardinality(Counted(v)) + 1
        BY <2>3, CollectedFinite, FS_AddElement
  <2>6. count[v] = Cardinality(Counted(v))
        BY <2>2 DEF CountsAreTrue
  <2>7. count'[v] = Cardinality(Counted(v) \cup {j})
        BY <2>1, <2>2, <2>5, <2>6 DEF TypeOK
  <2>8. \A s \in Statuses: s # v => count'[s] = Cardinality(Counted(s))
        BY <2>1, <2>2 DEF TypeOK, CountsAreTrue
  <2>9. ASSUME NEW s \in Statuses PROVE count'[s] = Cardinality(Counted(s)')
        BY <2>3, <2>4, <2>7, <2>8
  <2>10. QED BY <2>9 DEF CountsAreTrue
<1>3. CASE ~Collect
  <2>1. collected' = collected /\ count' = count
        BY <1>3 DEF Next, Main, Work, vars, tally, ListSuites, Dispatch, DispatchRaises, DispatchBreaks,
                    Interrupt, Return, ExitAfterException, Stop, HandBack, Skip, Launch, Finish, WorkerDies
  <2>2. \A s: Counted(s)' = Counted(s)
        BY <1>0, <2>1 DEF Counted
  <2>3. QED BY <2>1, <2>2 DEF CountsAreTrue
<1>4. QED BY <1>1, <1>2, <1>3 DEF Collect

(* When as many jobs are collected as were dispatched, they are the        *)
(* dispatched ones.                                                        *)
LEMMA AllCollected ==
  ASSUME TypeOK, ListInv, JobsInOnePlace, Cardinality(collected) = jobs
  PROVE  collected = Dispatched
<1>1. collected \subseteq Dispatched
      BY RunnerAssumption DEF JobsInOnePlace, TypeOK
<1>2. IsFiniteSet(Dispatched) /\ Cardinality(Dispatched) = jobs
  <2>1. first \in Int /\ jobs \in Nat /\ first + jobs - 1 \in Int
        BY DEF TypeOK
  <2>2. /\ IsFiniteSet(Dispatched)
        /\ Cardinality(Dispatched) = IF first > first + jobs - 1 THEN 0 ELSE first + jobs - 1 - first + 1
        BY <2>1, FS_Interval DEF Dispatched
  <2>3. QED BY <2>1, <2>2
<1>3. QED BY <1>1, <1>2, FS_Subset

(* When the summary adds up, every collected job passed or was skipped,    *)
(* and otherwise one did not.                                              *)
LEMMA SumTells ==
  ASSUME TypeOK, CountsAreTrue, Cardinality(collected) = jobs
  PROVE  count["PASS"] + count["SKIP"] = jobs
           <=> \A j \in collected: ~isBreak[j] /\ Status(j) \in {"PASS", "SKIP"}
<1> DEFINE P == Counted("PASS")
           S == Counted("SKIP")
<1>1. /\ IsFiniteSet(P) /\ IsFiniteSet(S) /\ IsFiniteSet(collected)
      /\ P \cup S \subseteq collected /\ P \cap S = {}
      BY CollectedFinite DEF Counted
<1>2. count["PASS"] = Cardinality(P) /\ count["SKIP"] = Cardinality(S)
      BY DEF CountsAreTrue, Statuses
<1>3. P \cup S = collected
        <=> \A j \in collected: ~isBreak[j] /\ Status(j) \in {"PASS", "SKIP"}
      BY DEF Counted
<1> HIDE DEF P, S
<1>4. IsFiniteSet(P \cup S) /\ Cardinality(P \cup S) = Cardinality(P) + Cardinality(S)
  <2>1. /\ IsFiniteSet(P \cup S)
        /\ Cardinality(P \cup S) = Cardinality(P) + Cardinality(S) - Cardinality(P \cap S)
        BY <1>1, FS_Union
  <2>2. Cardinality(P) \in Nat /\ Cardinality(S) \in Nat /\ Cardinality(P \cap S) = 0
        BY <1>1, FS_CardinalityType, FS_EmptySet
  <2>3. QED BY <2>1, <2>2
<1>5. Cardinality(P \cup S) = jobs <=> P \cup S = collected
      BY <1>1, <1>4, FS_Subset
<1>6. QED BY <1>2, <1>3, <1>4, <1>5

-----------------------------------------------------------------------------
(* Success.                                                                *)

LEMMA SuccessStep == IInv /\ [Next]_vars => SuccessIsEarned'
<1> SUFFICES ASSUME IInv, [Next]_vars, main' = "success"
             PROVE \A j \in Dispatched': ~isBreak'[j] /\ (j \in SkipJobs \/ ran'[j] = 0)
    BY DEF SuccessIsEarned
<1> USE DEF IInv
<1>1. CASE Return
  <2>1. /\ count["PASS"] + count["SKIP"] = jobs /\ Cardinality(collected) = jobs
        /\ UNCHANGED <<first, jobs, isBreak, ran>>
        BY <1>1 DEF Return, Outcome, results
  <2>2. collected = Dispatched
        BY <2>1, AllCollected
  <2>3. \A j \in collected: ~isBreak[j] /\ Status(j) \in {"PASS", "SKIP"}
        BY <2>1, SumTells
  <2>4. ASSUME NEW j \in collected, j \notin SkipJobs PROVE ran[j] = 0
    <3>1. returncode[j] = 0 /\ ~isBreak[j]
          BY <2>3, <2>4, StatusType
    <3>2. QED BY <2>4, <3>1 DEF ResultInv
  <2>5. Dispatched' = Dispatched
        BY <2>1 DEF Dispatched
  <2>6. QED BY <2>1, <2>2, <2>3, <2>4, <2>5
<1>2. CASE ~Return
  <2>1. main = "success"
        BY <1>2 DEF Next, Main, Work, Collect, vars, ListSuites, Dispatch, DispatchRaises, DispatchBreaks,
             Interrupt, ExitAfterException, Stop, HandBack, Skip, Launch, Finish, WorkerDies,
             CollectBreak, CollectResult, Collects
  <2>2. \A w \in Workers: worker[w] \notin {"waiting", "running"}
        BY <2>1 DEF WorkerInv, AllJoined
  <2>3. UNCHANGED vars
        BY <2>1, <2>2, <1>2 DEF Next, Main, Work, Collect, ListSuites, Dispatch, DispatchRaises,
             DispatchBreaks, Interrupt, ExitAfterException, Stop, HandBack, Skip, Launch, Finish, Takes,
             WorkerDies, CollectBreak, CollectResult, Collects
  <2>4. Dispatched' = Dispatched
        BY <2>3 DEF vars, Dispatched
  <2>5. QED BY <2>1, <2>3, <2>4 DEF vars, results, SuccessIsEarned
<1>3. QED BY <1>1, <1>2

LEMMA InvInit == Init => IInv
<1> SUFFICES ASSUME Init PROVE IInv
    OBVIOUS
<1>1. TypeOK /\ JobsInOnePlace /\ CountsAreTrue
      BY TypeInit, PlacesInit, CountsInit
<1>2. ListInv /\ WorkerInv /\ SuccessIsEarned
      BY RunnerAssumption DEF Init, ListInv, WorkerInv, SuccessIsEarned
<1>3. ResultInv
      BY NoElements DEF Init, ResultInv
<1>4. QED BY <1>1, <1>2, <1>3 DEF IInv

LEMMA InvStep == IInv /\ [Next]_vars => IInv'
  BY TypeStep, ListStep, WorkerStep, PlacesStep, ResultStep, CountsStep, SuccessStep DEF IInv

(* The invariant the theorems about test.py rest on.                       *)
THEOREM Invariant == Spec => []IInv
<1>1. QED BY InvInit, InvStep, PTL DEF Spec

(* The variables of the test runner keep their types, with any number of   *)
(* tests and workers.                                                      *)
THEOREM TypeCorrect == Spec => []TypeOK
<1>1. IInv => TypeOK
      BY DEF IInv
<1>2. QED BY <1>1, Invariant, PTL

(* The queues and the workers never lose a job nor hand one out twice.     *)
THEOREM NoJobIsLost == Spec => []JobsInOnePlace
<1>1. IInv => JobsInOnePlace
      BY DEF IInv
<1>2. QED BY <1>1, Invariant, PTL

(* The numbers test.py prints are the numbers of jobs with that result.    *)
THEOREM TrueSummary == Spec => []CountsAreTrue
<1>1. IInv => CountsAreTrue
      BY DEF IInv
<1>2. QED BY <1>1, Invariant, PTL

(* test.py returns 0 only when every dispatched test was skipped or its    *)
(* process ended with 0, whatever was interrupted or died on the way.      *)
THEOREM EarnedSuccess == Spec => []SuccessIsEarned
<1>1. IInv => SuccessIsEarned
      BY DEF IInv
<1>2. QED BY <1>1, Invariant, PTL

-----------------------------------------------------------------------------
(* The break jobs.                                                         *)

(* Behind a break job there are only break jobs, none is there before all  *)
(* tests are dispatched, and a worker that is gone has taken one.          *)
BreakInv ==
  /\ \A i, k \in 1 .. Len(input): i < k /\ input[i] = BreakJob => input[k] = BreakJob
  /\ main \in {"list", "dispatch"} =>
       /\ \A i \in 1 .. Len(input): input[i] # BreakJob
       /\ \A w \in Workers: worker[w] # "gone"
  /\ LastOneOut

LEMMA BreakInit == Init => BreakInv
<1> SUFFICES ASSUME Init PROVE BreakInv
    OBVIOUS
<1>1. Len(input) = 0
      BY DEF Init
<1>2. QED BY <1>1 DEF Init, BreakInv, LastOneOut

LEMMA TailFacts ==
  ASSUME TypeOK, NEW w \in Workers, Takes(w)
  PROVE  /\ Len(input) \in Nat \ {0} /\ Len(input') = Len(input) - 1
         /\ \A i \in 1 .. Len(input'): input'[i] = input[i + 1]
         /\ Head(input) = input[1]
  BY HeadTailProperties DEF Takes, TypeOK

LEMMA BreakStep == TypeOK /\ BreakInv /\ [Next]_vars => BreakInv'
<1> SUFFICES ASSUME TypeOK, BreakInv, [Next]_vars PROVE BreakInv'
    OBVIOUS
<1>1. CASE Dispatch
  <2>1. /\ Len(input) \in Nat /\ Len(input') = Len(input) + 1
        /\ \A i \in 1 .. Len(input): input'[i] = input[i]
        /\ input'[Len(input) + 1] = first + jobs /\ first + jobs # BreakJob
        BY <1>1, RunnerAssumption DEF Dispatch, TypeOK
  <2>2. /\ main = "dispatch" /\ worker' = worker
        /\ \A i \in 1 .. Len(input): input[i] # BreakJob
        /\ \A w \in Workers: worker[w] # "gone"
        BY <1>1 DEF Dispatch, BreakInv
  <2>3. \A i \in 1 .. Len(input'): input'[i] # BreakJob
        BY <2>1, <2>2
  <2>4. QED BY <2>2, <2>3 DEF BreakInv, LastOneOut
<1>2. CASE DispatchBreaks
  <2> DEFINE n == Cardinality(Workers)
  <2>1. /\ Len(input) \in Nat /\ n \in Nat /\ Len(input') = Len(input) + n
        /\ \A i \in 1 .. Len(input): input'[i] = input[i]
        /\ \A i \in Len(input) + 1 .. Len(input) + n: input'[i] = BreakJob
        BY <1>2, BreaksAppended DEF DispatchBreaks, TypeOK
  <2> HIDE DEF n
  <2>2. /\ main' = "collect" /\ worker' = worker
        /\ \A i \in 1 .. Len(input): input[i] # BreakJob
        /\ \A w \in Workers: worker[w] # "gone"
        BY <1>2 DEF DispatchBreaks, BreakInv
  <2>3. QED BY <2>1, <2>2 DEF BreakInv, LastOneOut
<1>3. ASSUME NEW w \in Workers, Stop(w) PROVE BreakInv'
  <2>1. main' = main /\ main \notin {"list", "dispatch"}
        BY <1>3, TailFacts DEF Stop, BreakInv
  <2>2. \A i \in 1 .. Len(input): input[i] = BreakJob
        BY <1>3, TailFacts DEF Stop, BreakInv
  <2>3. \A i \in 1 .. Len(input'): input'[i] = BreakJob
        BY <1>3, <2>2, TailFacts DEF Stop
  <2>4. QED BY <2>1, <2>3 DEF BreakInv, LastOneOut
<1>4. ASSUME NEW w \in Workers, HandBack(w) \/ Skip(w) \/ Launch(w) PROVE BreakInv'
  <2>1. /\ main' = main /\ Takes(w) /\ Head(input) # BreakJob
        /\ \A u \in Workers: worker'[u] = "gone" => worker[u] = "gone"
    <3>1. CASE HandBack(w)
          BY <3>1 DEF HandBack, TypeOK
    <3>2. CASE Skip(w)
          BY <3>2 DEF Skip, TypeOK
    <3>3. CASE Launch(w)
          BY <3>3 DEF Launch, TypeOK
    <3>4. QED BY <1>4, <3>1, <3>2, <3>3
  <2>2. \A u \in Workers: worker[u] # "gone"
        BY <2>1, TailFacts DEF BreakInv, LastOneOut
  <2>3. /\ Len(input) \in Nat \ {0} /\ Len(input') = Len(input) - 1
        /\ \A i \in 1 .. Len(input'): input'[i] = input[i + 1]
        BY <2>1, TailFacts
  <2>4. ASSUME NEW i \in 1 .. Len(input'), NEW k \in 1 .. Len(input'), i < k, input'[i] = BreakJob
        PROVE input'[k] = BreakJob
    <3>1. /\ i + 1 \in 1 .. Len(input) /\ k + 1 \in 1 .. Len(input) /\ i + 1 < k + 1
          /\ input[i + 1] = BreakJob /\ input'[k] = input[k + 1]
          BY <2>3, <2>4
    <3>2. QED BY <3>1 DEF BreakInv
  <2>5. main \in {"list", "dispatch"} => \A i \in 1 .. Len(input'): input'[i] # BreakJob
    <3>1. \A i \in 1 .. Len(input'): i + 1 \in 1 .. Len(input)
          BY <2>3
    <3>2. QED BY <2>3, <3>1 DEF BreakInv
  <2>6. \A u \in Workers: worker'[u] # "gone"
        BY <2>1, <2>2
  <2>7. QED BY <2>1, <2>4, <2>5, <2>6 DEF BreakInv, LastOneOut
<1>5. ASSUME NEW w \in Workers, NEW c \in ExitCodes, NEW d \in BOOLEAN,
             Finish(w, c, d) \/ WorkerDies(w)
      PROVE BreakInv'
  <2>1. /\ main' = main /\ input' = input
        /\ \A u \in Workers: worker'[u] = "gone" => worker[u] = "gone"
        BY <1>5 DEF Finish, WorkerDies, TypeOK, queues
  <2>2. QED BY <2>1 DEF BreakInv, LastOneOut
<1>6. CASE ListSuites \/ DispatchRaises \/ Interrupt \/ UNCHANGED vars
      BY <1>6 DEF ListSuites, DispatchRaises, Interrupt, vars, queues, BreakInv, LastOneOut
<1>7. CASE Collect \/ Return \/ ExitAfterException
  <2>1. UNCHANGED <<input, worker>> /\ main' \notin {"list", "dispatch"}
    <3>1. ASSUME NEW j \in Jobs, CollectBreak(j)
          PROVE UNCHANGED <<input, worker>> /\ main' \notin {"list", "dispatch"}
          BY <3>1 DEF CollectBreak, Collects, queues
    <3>2. ASSUME NEW j \in Jobs, CollectResult(j)
          PROVE UNCHANGED <<input, worker>> /\ main' \notin {"list", "dispatch"}
          BY <3>2 DEF CollectResult, Collects, queues
    <3>3. CASE Return
          BY <3>3 DEF Return, Outcome, queues
    <3>4. CASE ExitAfterException
          BY <3>4 DEF ExitAfterException, queues
    <3>5. QED BY <1>7, <3>1, <3>2, <3>3, <3>4 DEF Collect
  <2>2. QED BY <2>1 DEF BreakInv, LastOneOut
<1>8. CASE Main
      BY <1>8, <1>1, <1>2, <1>6, <1>7 DEF Main
<1>9. ASSUME NEW w \in Workers, Work(w) PROVE BreakInv'
      BY <1>9, <1>3, <1>4, <1>5 DEF Work
<1>10. ASSUME NEW w \in Workers, WorkerDies(w) PROVE BreakInv'
  <2>1. 0 \in ExitCodes /\ TRUE \in BOOLEAN
        BY DEF ExitCodes
  <2>2. QED BY <1>10, <1>5, <2>1
<1>11. QED BY <1>6, <1>8, <1>9, <1>10 DEF Next

(* A worker leaves only when every test has been taken off the queue.      *)
THEOREM WorkersLeaveLast == Spec => []LastOneOut
<1>1. BreakInv => LastOneOut
      BY DEF BreakInv
<1>2. QED BY <1>1, TypeCorrect, BreakInit, BreakStep, PTL DEF Spec

-----------------------------------------------------------------------------
(* TestRunner implements TestCampaign.                                     *)

LEMMA CampaignInit == Init /\ ListInv => Campaign!Init
<1> SUFFICES ASSUME Init, ListInv PROVE Campaign!Init
    OBVIOUS
<1>1. Dispatched = {}
      BY DEF Init, Dispatched
<1>2. QED BY <1>1 DEF Init, Campaign!Init, Verdict, Ended

LEMMA VerdictSame ==
  ASSUME TypeOK, WorkerInv, JobsInOnePlace, [Next]_vars, collected' = collected
  PROVE  Verdict' = Verdict
<1>1. \A j \in collected: isBreak'[j] = isBreak[j] /\ Status(j)' = Status(j)
      BY ResultsStay, StatusSame
<1>2. QED BY <1>1 DEF Verdict

LEMMA CampaignStep == IInv /\ [Next]_vars => [Campaign!Next]_Campaign!vars
<1> SUFFICES ASSUME IInv, [Next]_vars PROVE [Campaign!Next]_Campaign!vars
    OBVIOUS
<1> USE DEF IInv
<1>1. CASE Dispatch
  <2>1. PICK j \in Jobs: j = first + jobs
        BY <1>1 DEF Dispatch
  <2>2. Dispatched' = Dispatched \cup {j} /\ j \notin Dispatched
    <3>1. first \in Nat /\ jobs \in Nat /\ first' = first /\ jobs' = jobs + 1
          BY <1>1 DEF Dispatch, TypeOK
    <3>2. QED BY <2>1, <3>1 DEF Dispatched
  <2>3. collected = {} /\ collected' = {} /\ main = "dispatch" /\ main' = "dispatch"
        BY <1>1 DEF Dispatch, ResultInv, tally
  <2>4. Verdict' = Verdict /\ \A u \in Jobs: Verdict[u] = "none"
        BY <2>3 DEF Verdict
  <2>5. Campaign!Ask(j)
        BY <2>2, <2>3, <2>4 DEF Campaign!Ask, Ended
  <2>6. QED BY <2>5 DEF Campaign!Next
<1>2. CASE Collect
  <2>1. PICK j \in Jobs: CollectBreak(j) \/ CollectResult(j)
        BY <1>2 DEF Collect
  <2>2. /\ collected' = collected \cup {j} /\ j \notin collected /\ j \in Dispatched
        /\ Dispatched' = Dispatched
    <3>1. /\ collected' = collected \cup {j} /\ j \notin collected /\ j \in Elements(output)
          BY <2>1, Collecting DEF CollectBreak, CollectResult
    <3>2. j # BreakJob
          BY RunnerAssumption
    <3>3. QED BY <2>1, <3>1, <3>2 DEF JobsInOnePlace, CollectBreak, CollectResult, Dispatched
  <2>3. \A u \in Elements(output) \cup collected: isBreak'[u] = isBreak[u] /\ Status(u)' = Status(u)
        BY ResultsStay, StatusSame
  <2>4. PICK v \in Campaign!Verdicts: v = Verdict'[j]
    <3>1. Verdict'[j] = IF isBreak'[j] THEN "BREAK" ELSE Status(j)'
          BY <2>2 DEF Verdict
    <3>2. Status(j) \in Statuses /\ returncode' = returncode
          BY <2>1, StatusType DEF CollectBreak, CollectResult, results
    <3>3. Status(j)' = Status(j)
          BY <3>2, StatusSame
    <3>4. QED BY <3>1, <3>2, <3>3 DEF Statuses, Campaign!Verdicts
  <2>5. Verdict' = [Verdict EXCEPT ![j] = v] /\ Verdict[j] = "none"
        BY <2>2, <2>3, <2>4 DEF Verdict
  <2>6. Ended = "open" /\ Ended' = "open"
        BY <2>1 DEF CollectBreak, CollectResult, Collects, Ended
  <2>7. Campaign!Judge(j, v)
        BY <2>2, <2>5, <2>6 DEF Campaign!Judge
  <2>8. QED BY <2>7 DEF Campaign!Next
<1>3. CASE Return
  <2>1. collected = Dispatched /\ Cardinality(collected) = jobs /\ main = "collect" /\ main' = Outcome
        BY <1>3, AllCollected DEF Return
  <2>2. Dispatched' = Dispatched /\ Verdict' = Verdict
        BY <1>3, VerdictSame DEF Return, Dispatched, tally
  <2>3. \A j \in Dispatched: Verdict[j] # "none"
        BY <2>1, StatusType DEF Verdict, Statuses, TypeOK
  <2>4. (\A j \in Dispatched: Campaign!Good(Verdict[j]))
          <=> \A j \in collected: ~isBreak[j] /\ Status(j) \in {"PASS", "SKIP"}
        BY <2>1 DEF Verdict, Campaign!Good, TypeOK
  <2>5. Ended = "open" /\ Ended' = IF \A j \in Dispatched: Campaign!Good(Verdict[j])
                                     THEN "success" ELSE "failure"
        BY <2>1, <2>4, SumTells DEF Ended, Outcome
  <2>6. Campaign!Conclude
        BY <2>2, <2>3, <2>5 DEF Campaign!Conclude
  <2>7. QED BY <2>6 DEF Campaign!Next
<1>4. CASE ExitAfterException
  <2>1. Dispatched' = Dispatched /\ Verdict' = Verdict
        BY <1>4, VerdictSame DEF ExitAfterException, Dispatched, tally
  <2>2. Campaign!Abort
        BY <1>4, <2>1 DEF ExitAfterException, Ended, Campaign!Abort
  <2>3. QED BY <2>2 DEF Campaign!Next
<1>5. CASE ListSuites
  <2>1. collected' = collected /\ Ended' = Ended
        BY <1>5 DEF ListSuites, Ended, tally
  <2>2. Dispatched' = Dispatched
    <3>1. jobs = 0 /\ jobs' = 0 /\ first \in Nat /\ first' \in Nat
          BY <1>5, RunnerAssumption DEF ListSuites, ListInv, TypeOK
    <3>2. \A k \in Nat: k .. k + 0 - 1 = {}
          OBVIOUS
    <3>3. QED BY <3>1, <3>2 DEF Dispatched
  <2>3. QED BY <2>1, <2>2, VerdictSame DEF Campaign!vars
<1>6. CASE ~(Dispatch \/ Collect \/ Return \/ ExitAfterException \/ ListSuites)
  <2>1. UNCHANGED <<first, jobs, collected>> /\ Ended' = Ended
        BY <1>6 DEF Next, Main, Work, vars, tally, DispatchRaises, DispatchBreaks, Interrupt, Stop,
                    HandBack, Skip, Launch, Finish, WorkerDies, Ended
  <2>2. Dispatched' = Dispatched
        BY <2>1 DEF Dispatched
  <2>3. QED BY <2>1, <2>2, VerdictSame DEF Campaign!vars
<1>7. QED BY <1>1, <1>2, <1>3, <1>4, <1>5, <1>6

(* With its threads and queues test.py does what one thread would do: each *)
(* test gets one verdict, and the outcome is that of the verdicts.         *)
THEOREM ImplementsCampaign == Spec => OneVerdictEach
<1>1. IInv => ListInv
      BY DEF IInv
<1>2. QED BY <1>1, Invariant, CampaignInit, CampaignStep, PTL DEF Spec, OneVerdictEach, Campaign!Spec
=============================================================================
