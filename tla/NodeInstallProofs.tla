------------------------- MODULE NodeInstallProofs --------------------------
(***************************************************************************)
(* Proofs about NodeInstall for any hosts, any number of jobs at the same  *)
(* time and any number of faults: each rests on what a job that is alone   *)
(* can rely on, that nobody else touches its files; and that the jobs keep *)
(* the contract of their dialog (InstallDialog).                           *)
(***************************************************************************)
EXTENDS NodeInstall, SequenceTheorems, TLAPS

Faults == {"local", "ssh", "rm", "crash"}
FaultSets == SUBSET Faults
Dirs == [there: BOOLEAN, files: Staged]

(* Whatever befalls a job q.                                               *)
JobInv(q) ==
    /\ q.at = "off" => ~q.met /\ q.fault = {} /\ q.status = "idle"
    /\ q.at = "files" => ~q.files
    /\ q.at \in {"files", "host", "probe", "mkdir"} => q.next = 1
    /\ q.at \in {"probe", "mkdir", "write", "whole", "send", "again", "script", "verify"} =>
          q.host \in Hosts /\ q.user
    /\ q.at = "script" => q.cancelled # "early"
    /\ q.status \in {"done", "failed"} => q.at \in {"clean", "gone"}
    /\ q.status = "done" => q.host \in Hosts

(* What FailureHasCause accepts as the cause of a failure.                 *)
Excused(q) ==
    \/ q.host = NoHost \/ ~q.user \/ q.host \in StaleHosts
    \/ q.host \notin KeyHosts /\ ~q.files
    \/ q.cancelled # "no" \/ q.met
    \/ q.fault \intersect {"local", "ssh"} # {}

(* Job q has what it takes to log in, while it has its own helper.         *)
CanReach(q) == q.host \in Hosts /\ q.user /\ (q.files \/ q.host \in KeyHosts)

OwnHelper(j) == [secret |-> j, program |-> TRUE]

(* What q, job j, finds when it meets no other: a, s, r and g stand for    *)
(* the helper, the staged copies, the directories and the agents.          *)
Good(j, q, a, s, r, g) ==
    /\ q.files => a = OwnHelper(j)
    /\ q.at \in {"write", "whole", "send", "again", "script", "verify"} => r[q.host].there
    /\ q.at \in {"send", "again"} => s[Files[q.next]] = "whole"
    /\ q.at \in {"write", "whole", "send", "again"} =>
          \A k \in 1..3: k < q.next => r[q.host].files[Files[k]] = "whole"
    /\ q.at \in {"script", "verify"} => \A k \in 1..3: r[q.host].files[Files[k]] = "whole"
    /\ q.at = "verify" => \/ g[q.host] = "new" \/ q.host \in StaleHosts
                          \/ g[q.host] = "none" /\ "ssh" \in q.fault

Running(q) == q.at \notin {"off", "gone"}

(* The file that q has staged, while nothing is wrong.                     *)
Stages(q, f) == q.at \in {"whole", "send", "again"} /\ f = Files[q.next]

(* How the new agent may be missing where q says it is done.               *)
Installed(q, g) ==
    \/ g[q.host] = "new"
    \/ g[q.host] = "mute" /\ (q.host \in StaleHosts \/ q.met)

MeetInv ==
    \A i, j \in 1..Jobs: i # j /\ Running(job[i]) /\ Running(job[j]) => job[i].met
AloneInv ==
    \A j \in 1..Jobs: Running(job[j]) /\ ~job[j].met =>
        Good(j, job[j], askpass, staged, remote, agent)

(* While no two jobs meet, whatever lies about belongs to the one that     *)
(* runs, or a fault has left it.                                           *)
Orderly == (\A j \in 1..Jobs: ~job[j].met) /\ Hit("crash") = {}
TidyInv ==
    Orderly =>
        /\ askpass # NoHelper =>
              Hit("local") # {} \/ \E j \in 1..Jobs: Running(job[j]) /\ job[j].files
        /\ \A f \in FileSet: staged[f] # "no" =>
              Hit("local") # {} \/ \E j \in 1..Jobs: Stages(job[j], f)
        /\ \A h \in Hosts: remote[h] # NoDir =>
              \/ \E i \in 1..Jobs: "rm" \in job[i].fault /\ job[i].host = h
              \/ \E j \in 1..Jobs: Running(job[j]) /\ CanReach(job[j]) /\ job[j].host = h

Inv ==
    /\ TypeOK /\ \A j \in 1..Jobs: JobInv(job[j])
    /\ MeetInv /\ AloneInv /\ TidyInv
    /\ FailureHasCause /\ DoneMeansInstalled

-----------------------------------------------------------------------------
LEMMA FileFacts ==
    /\ Len(Files) = 3 /\ FileSet = {"agent", "unit", "script"}
    /\ Files[1] = "agent" /\ Files[2] = "unit" /\ Files[3] = "script"
    /\ \A k \in 1..3: Files[k] \in FileSet
    /\ \A f \in FileSet: \E k \in 1..3: f = Files[k]
    /\ \A j, k \in 1..3: Files[j] = Files[k] => j = k
<1>1. Len(Files) = 3 /\ DOMAIN Files = 1..3
      /\ Files[1] = "agent" /\ Files[2] = "unit" /\ Files[3] = "script"
  BY DEF Files
<1>2. \A k: k \in 1..3 <=> k = 1 \/ k = 2 \/ k = 3
  OBVIOUS
<1>3. FileSet = {"agent", "unit", "script"}
  BY <1>1, <1>2 DEF FileSet, Range
<1> QED BY <1>1, <1>2, <1>3

(* What a step of job j, which becomes q, may do to the agents.            *)
AgentsKept(j, q) ==
    /\ \A h \in Hosts: agent'[h] # agent[h] => h = q.host
    /\ job[j].status = "done" => agent' = agent
    /\ q.status = "done" /\ job[j].status # "done" => Installed(q, agent')
    /\ ~q.met /\ q.fault = {} =>
          \A h \in Hosts: agent'[h] # agent[h] =>
              agent'[h] = "new" \/ (agent'[h] = "mute" /\ h \in StaleHosts)

(* What it may leave about.                                                *)
Tidies(j, q) ==
    /\ askpass' # NoHelper =>
          \/ "local" \in q.fault \/ (Running(q) /\ q.files)
          \/ askpass # NoHelper /\ ~job[j].files
    /\ \A f \in FileSet: staged'[f] # "no" =>
          \/ "local" \in q.fault \/ Stages(q, f)
          \/ staged[f] # "no" /\ ~Stages(job[j], f)
    /\ \A h \in Hosts: remote'[h] # NoDir =>
          \/ h = q.host /\ ("rm" \in q.fault \/ (Running(q) /\ CanReach(q)))
          \/ remote[h] # NoDir /\ ~(h = job[j].host /\ CanReach(job[j]))

(* A step of the running job j, which becomes q.                           *)
LEMMA JobMoves ==
  ASSUME Inv, TypeOK', NEW j \in 1..Jobs, Running(job[j]),
         NEW q \in Job, job' = [job EXCEPT ![j] = q],
         q.at # "off", JobInv(q), q.host = job[j].host, q.met = job[j].met,
         job[j].fault \subseteq q.fault,
         ~q.met /\ q.at # "gone" => Good(j, q, askpass', staged', remote', agent'),
         q.status = "failed" => Excused(q),
         AgentsKept(j, q),
         ~q.met => Tidies(j, q)
  PROVE  Inv'
<1>1. /\ job \in [1..Jobs -> Job] /\ agent \in [Hosts -> Agents] /\ agent' \in [Hosts -> Agents]
      /\ \A i \in 1..Jobs: job'[i] = IF i = j THEN q ELSE job[i]
  BY DEF Inv, TypeOK
<1>2. \A i \in 1..Jobs: JobInv(job'[i])
  BY <1>1 DEF Inv
<1>3. \A i \in 1..Jobs: Running(job'[i]) => Running(job[i])
  BY <1>1
<1>4. \A i \in 1..Jobs: /\ job'[i].met = job[i].met /\ job'[i].host = job[i].host
                        /\ job[i].fault \subseteq job'[i].fault
  BY <1>1
<1>5. MeetInv'
  BY <1>3, <1>4 DEF Inv, MeetInv
<1>6. \A i \in 1..Jobs: i # j /\ Running(job[i]) => job[i].met /\ q.met
  BY DEF Inv, MeetInv
<1>7. AloneInv'
  BY <1>1, <1>4, <1>6 DEF AloneInv, Running
<1>8. FailureHasCause'
  <2>1. \A i \in 1..Jobs: i # j /\ job[i].status = "failed" => Excused(job[i])
    BY DEF Inv, FailureHasCause, Excused
  <2>2. \A i \in 1..Jobs: job'[i].status = "failed" => Excused(job'[i])
    BY <1>1, <2>1
  <2> QED BY <2>2 DEF FailureHasCause, Excused
<1>9. DoneMeansInstalled'
  <2> SUFFICES ASSUME NEW i \in 1..Jobs, job'[i].status = "done", ~Installed(job'[i], agent')
               PROVE  \E k \in 1..Jobs: /\ k # i /\ job'[k].host = job'[i].host
                                        /\ job'[k].met \/ job'[k].fault # {}
    BY DEF DoneMeansInstalled, Installed
  <2> DEFINE h == job[i].host
  <2>1. job[i].status = "done" /\ h \in Hosts
    BY <1>1, <1>2, <1>4 DEF JobInv, AgentsKept
  <2>2. CASE ~Installed(job[i], agent)
    <3>1. PICK k \in 1..Jobs: k # i /\ job[k].host = h /\ (job[k].met \/ job[k].fault # {})
      BY <2>1, <2>2 DEF Inv, DoneMeansInstalled, Installed
    <3>2. job'[k].met \/ job'[k].fault # {}
      BY <1>4, <3>1
    <3> QED BY <1>4, <3>1, <3>2
  <2>3. CASE Installed(job[i], agent)
    <3>1. agent'[h] # agent[h]
      BY <1>4, <2>3 DEF Installed
    <3>2. h = q.host
      BY <2>1, <3>1 DEF AgentsKept
    <3>3. i # j
      BY <2>1, <3>1 DEF AgentsKept
    <3>4. q.met \/ q.fault # {}
      <4> SUFFICES ASSUME ~q.met, q.fault = {} PROVE FALSE
        OBVIOUS
      <4>1. agent'[h] = "new" \/ (agent'[h] = "mute" /\ h \in StaleHosts)
        BY <2>1, <3>1 DEF AgentsKept
      <4> QED BY <1>4, <4>1 DEF Installed
    <3> QED BY <1>1, <1>4, <3>2, <3>3, <3>4
  <2> QED BY <2>2, <2>3
<1>10. TidyInv'
  <2> SUFFICES ASSUME Orderly'
               PROVE  /\ askpass' # NoHelper =>
                            \/ \E i \in 1..Jobs: "local" \in job'[i].fault
                            \/ \E i \in 1..Jobs: Running(job'[i]) /\ job'[i].files
                      /\ \A f \in FileSet: staged'[f] # "no" =>
                            \/ \E i \in 1..Jobs: "local" \in job'[i].fault
                            \/ \E i \in 1..Jobs: Stages(job'[i], f)
                      /\ \A h \in Hosts: remote'[h] # NoDir =>
                            \/ \E i \in 1..Jobs: "rm" \in job'[i].fault /\ job'[i].host = h
                            \/ \E i \in 1..Jobs: Running(job'[i]) /\ CanReach(job'[i]) /\ job'[i].host = h
    BY DEF TidyInv, Hit
  <2>1. Orderly
    BY <1>4 DEF Orderly, Hit
  <2>2. Tidies(j, q) /\ job'[j] = q
    BY <1>1, <1>4 DEF Orderly
  <2>3. \A i \in 1..Jobs: i # j => ~Running(job[i]) /\ job'[i] = job[i]
    BY <1>1, <1>6, <2>1 DEF Orderly
  <2>4. \A i \in 1..Jobs, f \in FileSet: Stages(job[i], f) => Running(job[i])
    BY DEF Stages, Running
  <2>5. ASSUME askpass' # NoHelper
        PROVE  \/ \E i \in 1..Jobs: "local" \in job'[i].fault
               \/ \E i \in 1..Jobs: Running(job'[i]) /\ job'[i].files
    <3>1. CASE "local" \in q.fault \/ (Running(q) /\ q.files)
      BY <2>2, <3>1
    <3>2. CASE askpass # NoHelper /\ ~job[j].files
      <4>1. \E i \in 1..Jobs: "local" \in job[i].fault
        BY <2>1, <2>3, <3>2 DEF Inv, TidyInv, Hit
      <4> QED BY <1>4, <4>1
    <3> QED BY <2>2, <2>5, <3>1, <3>2 DEF Tidies
  <2>6. ASSUME NEW f \in FileSet, staged'[f] # "no"
        PROVE  \/ \E i \in 1..Jobs: "local" \in job'[i].fault
               \/ \E i \in 1..Jobs: Stages(job'[i], f)
    <3>1. CASE "local" \in q.fault \/ Stages(q, f)
      BY <2>2, <3>1
    <3>2. CASE staged[f] # "no" /\ ~Stages(job[j], f)
      <4>1. \E i \in 1..Jobs: "local" \in job[i].fault
        BY <2>1, <2>3, <2>4, <3>2 DEF Inv, TidyInv, Hit
      <4> QED BY <1>4, <4>1
    <3> QED BY <2>2, <2>6, <3>1, <3>2 DEF Tidies
  <2>7. ASSUME NEW h \in Hosts, remote'[h] # NoDir
        PROVE  \/ \E i \in 1..Jobs: "rm" \in job'[i].fault /\ job'[i].host = h
               \/ \E i \in 1..Jobs: Running(job'[i]) /\ CanReach(job'[i]) /\ job'[i].host = h
    <3>1. CASE h = q.host /\ ("rm" \in q.fault \/ (Running(q) /\ CanReach(q)))
      BY <2>2, <3>1
    <3>2. CASE remote[h] # NoDir /\ ~(h = job[j].host /\ CanReach(job[j]))
      <4>1. \E i \in 1..Jobs: "rm" \in job[i].fault /\ job[i].host = h
        BY <2>1, <2>3, <3>2 DEF Inv, TidyInv
      <4> QED BY <1>4, <4>1
    <3> QED BY <2>2, <2>7, <3>1, <3>2 DEF Tidies
  <2> QED BY <2>5, <2>6, <2>7
<1> QED BY <1>2, <1>5, <1>7, <1>8, <1>9, <1>10 DEF Inv

-----------------------------------------------------------------------------
(* Types.                                                                  *)
LEMMA TypeFacts ==
  ASSUME TypeOK
  PROVE  /\ \A j \in 1..Jobs: job[j] \in Job
         /\ \A f \in FileSet: staged[f] \in {"no", "cut", "whole"}
         /\ \A h \in Hosts: remote[h] \in Dirs
         /\ remote \in [Hosts -> Dirs] /\ NoDir \in Dirs /\ EmptyDir \in Dirs
  BY DEF TypeOK, Staged, NoDir, EmptyDir, Dirs

LEMMA PlaceFacts ==
    Places = {"off", "files", "host", "probe", "mkdir", "write", "whole", "send", "again",
              "script", "verify", "clean", "gone"}
BY DEF Places

LEMMA FaultsCount ==
  ASSUME TypeOK, faults < MaxFaults, faults' = faults + 1
  PROVE  faults' \in 0..MaxFaults
BY InstallAssumption DEF TypeOK

(* The ways in which a step changes its job: to another place, maybe with  *)
(* a fault, and with an error.                                             *)
Moved(j, at, fault) == [job[j] EXCEPT !.at = at, !.fault = fault]
Failed(j, fault) == [job[j] EXCEPT !.status = "failed", !.at = "clean", !.fault = fault]

LEMMA MovedIs ==
  ASSUME TypeOK, NEW j \in 1..Jobs, NEW at \in Places, NEW fault \in FaultSets
  PROVE  LET q == Moved(j, at, fault)
         IN /\ q \in Job /\ q.at = at /\ q.fault = fault
            /\ q.host = job[j].host /\ q.user = job[j].user
            /\ q.files = job[j].files /\ q.next = job[j].next
            /\ q.status = job[j].status
            /\ q.cancelled = job[j].cancelled /\ q.met = job[j].met
<1>1. job[j] \in Job
  BY TypeFacts
<1> QED BY <1>1 DEF Moved, Job, FaultSets, Faults

LEMMA GoesIs ==
  ASSUME TypeOK, NEW j \in 1..Jobs, NEW at \in Places, Goes(j, at)
  PROVE  \E q \in Job: /\ job' = [job EXCEPT ![j] = q] /\ q.at = at /\ q.fault = job[j].fault
                       /\ q.host = job[j].host /\ q.user = job[j].user
                       /\ q.files = job[j].files /\ q.next = job[j].next
                       /\ q.status = job[j].status
                       /\ q.cancelled = job[j].cancelled /\ q.met = job[j].met
<1>1. job \in [1..Jobs -> Job] /\ job[j] \in Job
  BY DEF TypeOK
<1>2. [job[j] EXCEPT !.at = at] = Moved(j, at, job[j].fault)
  BY <1>1 DEF Moved, Job
<1>3. job' = [job EXCEPT ![j] = Moved(j, at, job[j].fault)]
  BY <1>1, <1>2 DEF Goes
<1>4. job[j].fault \in FaultSets
  BY <1>1 DEF Job, FaultSets, Faults
<1>5. PICK q \in Job: q = Moved(j, at, job[j].fault)
  BY <1>4, MovedIs
<1>6. /\ q.at = at /\ q.fault = job[j].fault
      /\ q.host = job[j].host /\ q.user = job[j].user
      /\ q.files = job[j].files /\ q.next = job[j].next
      /\ q.status = job[j].status
      /\ q.cancelled = job[j].cancelled /\ q.met = job[j].met
  BY <1>4, <1>5, MovedIs
<1> QED BY <1>3, <1>5, <1>6

LEMMA FaultIs ==
  ASSUME TypeOK, NEW j \in 1..Jobs
  PROVE  job[j].fault \in FaultSets
BY TypeFacts DEF Job, FaultSets, Faults

LEMMA FailedIs ==
  ASSUME TypeOK, NEW j \in 1..Jobs, NEW fault \in FaultSets
  PROVE  /\ Failed(j, fault) \in Job
         /\ Failed(j, fault).status = "failed" /\ Failed(j, fault).at = "clean"
         /\ Failed(j, fault).fault = fault
         /\ Failed(j, fault).host = job[j].host /\ Failed(j, fault).user = job[j].user
         /\ Failed(j, fault).files = job[j].files /\ Failed(j, fault).next = job[j].next
         /\ Failed(j, fault).cancelled = job[j].cancelled /\ Failed(j, fault).met = job[j].met
<1>1. job[j] \in Job /\ "clean" \in Places
  BY TypeFacts, PlaceFacts
<1> QED BY <1>1 DEF Failed, Job, FaultSets, Faults

LEMMA FailsIs ==
  ASSUME TypeOK, NEW j \in 1..Jobs
  PROVE  /\ Fails(j) => job' = [job EXCEPT ![j] = Failed(j, job[j].fault)]
         /\ \A kind \in Faults: Breaks(j, kind) =>
               /\ job' = [job EXCEPT ![j] = Failed(j, job[j].fault \union {kind})]
               /\ job[j].fault \union {kind} \in FaultSets
               /\ faults' \in 0..MaxFaults
<1>1. job \in [1..Jobs -> Job] /\ job[j] \in Job
  BY DEF TypeOK
<1>2. [job[j] EXCEPT !.status = "failed", !.at = "clean"] = Failed(j, job[j].fault)
  BY <1>1 DEF Failed, Job
<1>3. Fails(j) => job' = [job EXCEPT ![j] = Failed(j, job[j].fault)]
  BY <1>1, <1>2 DEF Fails
<1>4. ASSUME NEW kind \in Faults, Breaks(j, kind)
      PROVE  /\ job' = [job EXCEPT ![j] = Failed(j, job[j].fault \union {kind})]
             /\ job[j].fault \union {kind} \in FaultSets
  <2>1. job' = [job EXCEPT ![j] = [job[j] EXCEPT !.status = "failed", !.at = "clean",
                                                !.fault = @ \union {kind}]]
    BY <1>1, <1>4 DEF Breaks
  <2>2. job[j].fault \in FaultSets
    BY <1>1 DEF Job, FaultSets, Faults
  <2>3. [job[j] EXCEPT !.status = "failed", !.at = "clean", !.fault = @ \union {kind}]
           = Failed(j, job[j].fault \union {kind})
    BY <1>1 DEF Failed, Job
  <2>4. job[j].fault \union {kind} \in FaultSets
    BY <2>2 DEF FaultSets
  <2> QED BY <2>1, <2>3, <2>4
<1> QED BY <1>3, <1>4, FaultsCount DEF Breaks

(* What a step that ends in an error may do to the files on its way.       *)
Drops(j, fault) ==
    /\ \A f \in FileSet: staged'[f] # "no" =>
          "local" \in fault \/ (staged[f] # "no" /\ ~Stages(job[j], f))
    /\ \A h \in Hosts: remote'[h] # NoDir =>
          remote[h] # NoDir \/ (h = job[j].host /\ CanReach(job[j]))

(* A job that ends with an error has a cause.                              *)
LEMMA Failing ==
  ASSUME Inv, NEW j \in 1..Jobs, Running(job[j]), job[j].at \notin {"files", "clean"},
         NEW fault \in FaultSets, job[j].fault \subseteq fault,
         job' = [job EXCEPT ![j] = Failed(j, fault)],
         fault \intersect {"local", "ssh"} # {} \/ Excused(job[j]),
         faults' \in 0..MaxFaults, staged' \in Staged, remote' \in [Hosts -> Dirs],
         agent' \in [Hosts -> Agents],
         UNCHANGED <<dialog, seen, askpass>>,
         ~job[j].met => Drops(j, fault),
         AgentsKept(j, Failed(j, fault))
  PROVE  Inv'
<1>1. PICK q \in Job: q = Failed(j, fault)
  BY FailedIs DEF Inv
<1>2. /\ q.status = "failed" /\ q.at = "clean" /\ q.fault = fault /\ q.host = job[j].host
      /\ q.user = job[j].user /\ q.files = job[j].files /\ q.cancelled = job[j].cancelled
      /\ q.met = job[j].met
  BY <1>1, FailedIs DEF Inv
<1>3. TypeOK'
  BY <1>1 DEF Inv, TypeOK, Dirs
<1>4. JobInv(q)
  BY <1>2 DEF JobInv
<1>5. Excused(q)
  BY <1>2 DEF Excused
<1>6. Good(j, q, askpass', staged', remote', agent') \/ q.met
  <2>1. job[j].met \/ (job[j].files => askpass = OwnHelper(j))
    BY DEF Inv, AloneInv, Good
  <2> QED BY <1>2, <2>1 DEF Good
<1>7. ~q.met => Tidies(j, q)
  BY <1>2 DEF Drops, Tidies, CanReach, Running
<1>8. job[j].fault \subseteq q.fault
  BY <1>2
<1>9. q.at # "off" /\ q.at # "gone"
  BY <1>2
<1>10. AgentsKept(j, q) /\ job' = [job EXCEPT ![j] = q]
  BY <1>1
<1> QED
  BY <1>2, <1>3, <1>4, <1>5, <1>6, <1>7, <1>8, <1>9, <1>10, JobMoves

LEMMA JobFacts ==
  ASSUME Inv, NEW j \in 1..Jobs, Running(job[j])
  PROVE  /\ TypeOK /\ job[j] \in Job /\ JobInv(job[j])
         /\ job[j].met \/ Good(j, job[j], askpass, staged, remote, agent)
  BY TypeFacts DEF Inv, AloneInv

(* A job that is alone reaches its host whenever it can, a job without an  *)
(* excuse in any case; and what it reaches it can.                         *)
LEMMA Reaching ==
  ASSUME Inv, NEW j \in 1..Jobs, Running(job[j])
  PROVE  /\ ~job[j].met /\ CanReach(job[j]) => Reaches(j)
         /\ ~Excused(job[j]) => Reaches(j)
         /\ Reaches(j) => CanReach(job[j])
<1>1. /\ job[j] \in Job
      /\ job[j].met \/ (job[j].files => askpass = OwnHelper(j))
      /\ NoHost \notin Hosts /\ j # 0
  BY JobFacts, InstallAssumption DEF Good
<1>2. job[j].host \in Hosts \union {NoHost}
  BY <1>1 DEF Job
<1>3. ~job[j].met /\ CanReach(job[j]) => Reaches(j)
  BY <1>1 DEF CanReach, Reaches, OwnHelper
<1>4. ~Excused(job[j]) => ~job[j].met /\ CanReach(job[j])
  BY <1>2 DEF Excused, CanReach
<1>5. Reaches(j) => CanReach(job[j])
  BY <1>2 DEF Reaches, CanReach
<1> QED BY <1>3, <1>4, <1>5

-----------------------------------------------------------------------------
(* The steps of install.                                                   *)
LEMMA CreateFilesInv ==
  ASSUME Inv, NEW j \in 1..Jobs, CreateFiles(j)
  PROVE  Inv'
<1>1. /\ Running(job[j]) /\ job[j].at = "files" /\ UNCHANGED <<dialog, seen, staged, remote, agent>>
  BY DEF CreateFiles, Running
<1>2. /\ TypeOK /\ job[j] \in Job /\ JobInv(job[j])
      /\ ~job[j].files /\ job[j].status \notin {"done", "failed"} /\ "host" \in Places
      /\ job[j].next = 1 /\ job[j].fault \in FaultSets
  BY <1>1, JobFacts, PlaceFacts DEF JobInv, Job, FaultSets, Faults
<1>3. ASSUME NEW q \in Job, job' = [job EXCEPT ![j] = q], q.at = "host",
             q.host = job[j].host, q.user = job[j].user, q.next = 1,
             q.status = job[j].status, q.met = job[j].met,
             job[j].fault \subseteq q.fault,
             faults' \in 0..MaxFaults, askpass' \in Helper,
             q.files => askpass' = OwnHelper(j),
             askpass' # askpass => q.files \/ "local" \in q.fault
      PROVE  Inv'
  <2>1. TypeOK'
    BY <1>1, <1>2, <1>3 DEF TypeOK
  <2>2. JobInv(q) /\ Good(j, q, askpass', staged', remote', agent')
    BY <1>2, <1>3 DEF JobInv, Good
  <2>3. Tidies(j, q)
    BY <1>1, <1>2, <1>3 DEF Tidies, Stages, CanReach, Running
  <2>4. AgentsKept(j, q)
    BY <1>1, <1>2, <1>3 DEF AgentsKept
  <2>5. q.at # "off" /\ q.status # "failed"
    BY <1>2, <1>3
  <2> QED BY <1>1, <1>3, <2>1, <2>2, <2>3, <2>4, <2>5, JobMoves
<1>4. CASE /\ job' = [job EXCEPT ![j].files = job[j].password, ![j].at = "host"]
           /\ askpass' = IF job[j].password THEN [secret |-> j, program |-> TRUE] ELSE askpass
           /\ UNCHANGED faults
  <2>1. PICK q \in Job: q = [job[j] EXCEPT !.files = job[j].password, !.at = "host"]
    BY <1>2 DEF Job
  <2>2. /\ q.files = job[j].password /\ q.at = "host" /\ q.host = job[j].host /\ q.next = 1
        /\ q.user = job[j].user
        /\ q.status = job[j].status /\ q.fault = job[j].fault /\ q.met = job[j].met
    BY <1>2, <2>1 DEF Job
  <2>3. job' = [job EXCEPT ![j] = q]
    BY <1>2, <1>4, <2>1 DEF TypeOK, Job
  <2>4. askpass' = (IF q.files THEN OwnHelper(j) ELSE askpass) /\ askpass \in Helper
        /\ OwnHelper(j) \in Helper
    BY <1>2, <1>4, <2>2, InstallAssumption DEF OwnHelper, TypeOK, Helper
  <2>5. askpass' \in Helper /\ (q.files => askpass' = OwnHelper(j)) /\ (askpass' # askpass => q.files)
    BY <2>4
  <2>6. faults' \in 0..MaxFaults
    BY <1>2, <1>4 DEF TypeOK
  <2> QED BY <1>3, <2>2, <2>3, <2>5, <2>6
<1>5. CASE /\ faults < MaxFaults /\ faults' = faults + 1
           /\ job' = [job EXCEPT ![j].fault = @ \union {"local"}, ![j].at = "host"]
           /\ askpass' \in {askpass, [askpass EXCEPT !.secret = j]}
  <2>1. PICK fault \in FaultSets: fault = job[j].fault \union {"local"}
    BY <1>2 DEF Faults, FaultSets
  <2>2. job' = [job EXCEPT ![j] = Moved(j, "host", fault)]
    <3>1. job \in [1..Jobs -> Job]
      BY <1>2 DEF TypeOK
    <3> QED BY <1>2, <1>5, <2>1, <3>1 DEF Job, Moved
  <2>3. PICK q \in Job: q = Moved(j, "host", fault)
    BY <1>2, MovedIs
  <2>4. /\ job' = [job EXCEPT ![j] = q]
        /\ q.files = job[j].files /\ q.at = "host" /\ q.host = job[j].host
        /\ q.next = job[j].next /\ q.user = job[j].user
        /\ q.status = job[j].status /\ q.fault = fault /\ q.met = job[j].met
    BY <1>2, <2>2, <2>3, MovedIs
  <2>5. askpass' \in Helper
    <3>1. askpass \in Helper /\ j \in 0..Jobs
      BY <1>2, InstallAssumption DEF TypeOK
    <3>2. [askpass EXCEPT !.secret = j] \in Helper
      BY <3>1 DEF Helper
    <3> QED BY <1>5, <3>1, <3>2
  <2>6. faults' \in 0..MaxFaults
    BY <1>2, <1>5, FaultsCount
  <2>7. /\ ~q.files /\ "local" \in q.fault /\ job[j].fault \subseteq q.fault /\ q.next = 1
    BY <1>2, <2>1, <2>4
  <2> QED BY <1>3, <2>4, <2>5, <2>6, <2>7
<1> QED BY <1>4, <1>5 DEF CreateFiles

(* A step that changes nothing but the place of the job.                   *)
LEMMA Going ==
  ASSUME Inv, NEW j \in 1..Jobs, Running(job[j]), NEW at \in Places, Goes(j, at),
         UNCHANGED <<dialog, seen, askpass, staged, remote, agent, faults>>,
         at \in {"probe", "mkdir"}, job[j].at \in {"host", "probe"},
         job[j].host \in Hosts, job[j].user
  PROVE  Inv'
<1>1. /\ TypeOK /\ job[j] \in Job /\ JobInv(job[j])
      /\ job[j].met \/ Good(j, job[j], askpass, staged, remote, agent)
      /\ job[j].status \notin {"done", "failed"}
  BY JobFacts DEF JobInv
<1>4. PICK q \in Job:
      /\ job' = [job EXCEPT ![j] = q] /\ q.at = at /\ q.fault = job[j].fault
      /\ q.host = job[j].host /\ q.user = job[j].user
      /\ q.files = job[j].files /\ q.next = job[j].next
      /\ q.status = job[j].status
      /\ q.cancelled = job[j].cancelled /\ q.met = job[j].met
  <2>1. TypeOK
    BY <1>1
  <2> QED BY <2>1, GoesIs
<1>5. TypeOK'
  <2>1. job' \in [1..Jobs -> Job]
    BY <1>1, <1>4 DEF TypeOK
  <2> QED BY <1>1, <2>1 DEF TypeOK
<1>6. JobInv(q) /\ (q.met \/ Good(j, q, askpass', staged', remote', agent'))
  BY <1>1, <1>4 DEF JobInv, Good
<1>7. Tidies(j, q)
  BY <1>4 DEF Tidies, Stages, CanReach, Running
<1>8. /\ q.at # "off" /\ q.at # "gone" /\ q.status # "failed" /\ AgentsKept(j, q)
      /\ job[j].fault \subseteq q.fault
  BY <1>1, <1>4 DEF AgentsKept
<1> QED BY <1>4, <1>5, <1>6, <1>7, <1>8, JobMoves

(* A failure that leaves everything as it is.                              *)
LEMMA JustFails ==
  ASSUME Inv, NEW j \in 1..Jobs,
         job[j].at \in {"host", "probe", "mkdir", "script", "verify"},
         UNCHANGED <<dialog, seen, askpass>>,
         \/ Fault(j)
         \/ Fails(j) /\ Excused(job[j]) /\ UNCHANGED <<staged, remote, agent, faults>>
  PROVE  Inv'
<1>1. Running(job[j]) /\ job[j].at \notin {"files", "clean"}
  BY DEF Running
<1>2. TypeOK /\ UNCHANGED <<staged, remote, agent>> /\ job[j].fault \in FaultSets
      /\ "clean" \in Places
  BY <1>1, JobFacts, PlaceFacts, FaultIs DEF Fault
<1>3. PICK fault \in FaultSets:
         /\ job' = [job EXCEPT ![j] = Failed(j, fault)]
         /\ job[j].fault \subseteq fault
         /\ fault \intersect {"local", "ssh"} # {} \/ Excused(job[j])
         /\ faults' \in 0..MaxFaults
  <2>1. CASE Fault(j)
    <3>1. "ssh" \in Faults /\ Breaks(j, "ssh")
      BY <2>1 DEF Faults, Fault
    <3>2. PICK fault \in FaultSets: fault = job[j].fault \union {"ssh"}
      BY <1>2, <3>1, FailsIs
    <3>3. job' = [job EXCEPT ![j] = Failed(j, fault)] /\ faults' \in 0..MaxFaults
      BY <1>2, <3>1, <3>2, FailsIs
    <3>4. job[j].fault \subseteq fault /\ fault \intersect {"local", "ssh"} # {}
      BY <3>2
    <3> QED BY <3>3, <3>4
  <2>2. CASE Fails(j) /\ Excused(job[j]) /\ UNCHANGED <<staged, remote, agent, faults>>
    <3>1. faults' \in 0..MaxFaults
      BY <1>2, <2>2 DEF TypeOK
    <3> QED BY <1>2, <2>2, <3>1, FailsIs
  <2> QED BY <2>1, <2>2
<1>4. Drops(j, fault)
  BY <1>1, <1>2 DEF Drops, Stages
<1>5. AgentsKept(j, Failed(j, fault))
  <2>1. Failed(j, fault).status = "failed"
    BY <1>2, FailedIs
  <2> QED BY <1>2, <2>1 DEF AgentsKept
<1>6. /\ staged' \in Staged /\ remote' \in [Hosts -> Dirs] /\ agent' \in [Hosts -> Agents]
  BY <1>2, TypeFacts DEF TypeOK
<1> QED BY <1>1, <1>3, <1>4, <1>5, <1>6, Failing

LEMMA CheckHostInv ==
  ASSUME Inv, NEW j \in 1..Jobs, CheckHost(j)
  PROVE  Inv'
<1>1. Running(job[j]) /\ job[j] \in Job /\ "probe" \in Places /\ job[j].at = "host"
  BY JobFacts, PlaceFacts DEF CheckHost, Running
<1>2. CASE job[j].host = NoHost \/ ~job[j].user
  BY <1>1, <1>2, JustFails DEF CheckHost, Excused
<1>3. CASE ~(job[j].host = NoHost \/ ~job[j].user)
  <2>1. job[j].host \in Hosts /\ job[j].user
    BY <1>1, <1>3 DEF Job
  <2> QED BY <1>1, <1>3, <2>1, Going DEF CheckHost
<1> QED BY <1>2, <1>3

LEMMA ProbeInv ==
  ASSUME Inv, NEW j \in 1..Jobs, Probe(j)
  PROVE  Inv'
<1>1. Running(job[j]) /\ job[j].at = "probe" /\ "mkdir" \in Places
  BY PlaceFacts DEF Probe, Running
<1>2. job[j].host \in Hosts /\ job[j].user
  BY <1>1, JobFacts DEF JobInv
<1>3. CASE Goes(j, "mkdir") /\ UNCHANGED <<staged, remote, agent, faults>>
  BY <1>1, <1>2, <1>3, Going DEF Probe
<1>4. CASE /\ ~Reaches(j) \/ job[j].cancelled # "no"
           /\ Fails(j) /\ UNCHANGED <<staged, remote, agent, faults>>
  <2>1. Excused(job[j])
    BY <1>1, <1>4, Reaching DEF Excused
  <2> QED BY <1>1, <1>4, <2>1, JustFails DEF Probe
<1>5. CASE Fault(j)
  BY <1>1, <1>5, JustFails DEF Probe
<1> QED BY <1>3, <1>4, <1>5 DEF Probe

LEMMA MakeDirInv ==
  ASSUME Inv, NEW j \in 1..Jobs, MakeDir(j)
  PROVE  Inv'
<1> DEFINE h == job[j].host
<1>1. Running(job[j]) /\ job[j].at = "mkdir" /\ UNCHANGED <<dialog, seen, askpass>>
  BY DEF MakeDir, Running
<1>2. /\ TypeOK /\ job[j] \in Job /\ JobInv(job[j]) /\ h \in Hosts /\ job[j].user
      /\ job[j].next = 1 /\ job[j].status \notin {"done", "failed"}
      /\ "write" \in Places
      /\ job[j].met \/ Good(j, job[j], askpass, staged, remote, agent)
  BY <1>1, JobFacts, PlaceFacts DEF JobInv
<1>3. CASE /\ Reaches(j)
           /\ remote' = [remote EXCEPT ![h] = IF @.there THEN @ ELSE EmptyDir]
           /\ Goes(j, "write") /\ UNCHANGED <<staged, agent, faults>>
  <2>3. PICK q \in Job:
        /\ job' = [job EXCEPT ![j] = q] /\ q.at = "write"
        /\ q.host = h /\ q.user = job[j].user /\ q.files = job[j].files /\ q.next = 1
        /\ q.status = job[j].status /\ q.fault = job[j].fault
        /\ q.met = job[j].met
    <3>1. TypeOK /\ "write" \in Places /\ Goes(j, "write")
      BY <1>2, <1>3
    <3>2. job[j].next = 1
      BY <1>2
    <3> HIDE DEF h
    <3>3. PICK q \in Job:
          /\ job' = [job EXCEPT ![j] = q] /\ q.at = "write" /\ q.fault = job[j].fault
          /\ q.host = job[j].host /\ q.user = job[j].user
          /\ q.files = job[j].files /\ q.next = job[j].next
          /\ q.status = job[j].status
          /\ q.cancelled = job[j].cancelled /\ q.met = job[j].met
      BY <3>1, GoesIs
    <3> QED BY <3>2, <3>3 DEF h
  <2>4. /\ remote' \in [Hosts -> Dirs]
        /\ remote'[h].there
        /\ \A k \in Hosts: k # h => remote'[k] = remote[k]
    <3>1. remote \in [Hosts -> Dirs] /\ EmptyDir \in Dirs /\ EmptyDir.there
      BY <1>2, TypeFacts DEF EmptyDir, NoDir
    <3> QED BY <1>2, <1>3, <3>1
  <2>5. TypeOK'
    BY <1>1, <1>2, <1>3, <2>3, <2>4 DEF TypeOK, Dirs
  <2>6. JobInv(q)
    BY <1>2, <2>3 DEF JobInv
  <2>7. q.met \/ Good(j, q, askpass', staged', remote', agent')
    <3>1. \A k \in 1..3: ~(k < q.next)
      BY <2>3
    <3> QED BY <1>1, <1>2, <2>3, <2>4, <3>1 DEF Good
  <2>8. Tidies(j, q)
    <3>1. CanReach(q)
      BY <1>1, <1>3, <2>3, Reaching DEF CanReach
    <3>2. Running(q) /\ UNCHANGED <<askpass, staged>>
      BY <1>1, <1>3, <2>3 DEF Running
    <3>3. \A f \in FileSet: ~Stages(job[j], f)
      BY <1>1 DEF Stages
    <3>4. ASSUME NEW k \in Hosts, remote'[k] # NoDir
          PROVE  k = q.host \/ (remote[k] # NoDir /\ k # job[j].host)
      BY <2>3, <2>4, <3>4
    <3> QED BY <2>3, <3>1, <3>2, <3>3, <3>4 DEF Tidies
  <2>9. /\ q.at # "off" /\ q.at # "gone" /\ q.status # "failed" /\ AgentsKept(j, q)
        /\ job[j].fault \subseteq q.fault
    BY <1>2, <1>3, <2>3 DEF AgentsKept
  <2> QED BY <1>1, <2>3, <2>5, <2>6, <2>7, <2>8, <2>9, JobMoves
<1>4. CASE ~Reaches(j) /\ Fails(j) /\ UNCHANGED <<staged, remote, agent, faults>>
  BY <1>1, <1>4, Reaching, JustFails
<1>5. CASE Fault(j)
  BY <1>1, <1>5, JustFails
<1> QED BY <1>3, <1>4, <1>5 DEF MakeDir

LEMMA WriteInv ==
  ASSUME Inv, NEW j \in 1..Jobs, TruncateStaged(j) \/ FillStaged(j)
  PROVE  Inv'
<1>1. /\ Running(job[j]) /\ job[j].at \in {"write", "whole"}
      /\ UNCHANGED <<dialog, seen, askpass, remote, agent>>
  BY DEF TruncateStaged, FillStaged, Running
<1>2. /\ TypeOK /\ job[j] \in Job /\ JobInv(job[j]) /\ job[j].next \in 1..3
      /\ job[j].status \notin {"done", "failed"}
      /\ job[j].met \/ Good(j, job[j], askpass, staged, remote, agent)
      /\ staged \in [FileSet -> {"no", "cut", "whole"}]
  BY <1>1, JobFacts, FileFacts DEF JobInv, Job, TypeOK, Staged
<1>3. PICK f \in FileSet: f = Files[job[j].next]
  BY <1>2, FileFacts
<1>4. CASE Breaks(j, "local") /\ UNCHANGED staged
  <2>1. "local" \in Faults
    BY DEF Faults
  <2>2. PICK fault \in FaultSets: fault = job[j].fault \union {"local"}
    BY <1>2, <1>4, <2>1, FailsIs
  <2>3. /\ job' = [job EXCEPT ![j] = Failed(j, fault)] /\ faults' \in 0..MaxFaults
        /\ job[j].fault \subseteq fault /\ fault \intersect {"local", "ssh"} # {}
    BY <1>2, <1>4, <2>1, <2>2, FailsIs
  <2>4. Drops(j, fault)
    BY <1>1, <2>2 DEF Drops
  <2>5. AgentsKept(j, Failed(j, fault))
    <3>1. Failed(j, fault).status = "failed"
      BY <1>2, FailedIs
    <3> QED BY <1>1, <3>1 DEF AgentsKept
  <2>6. staged' \in Staged /\ remote' \in [Hosts -> Dirs] /\ agent' \in [Hosts -> Agents]
    BY <1>1, <1>2, <1>4, TypeFacts DEF TypeOK
  <2>7. job[j].at \notin {"files", "clean"} /\ UNCHANGED <<dialog, seen, askpass>>
    BY <1>1
  <2> QED BY <1>1, <2>3, <2>4, <2>5, <2>6, <2>7, Failing
<1>5. CASE \E at \in Places, how \in {"cut", "whole"}:
              /\ Goes(j, at) /\ staged' = [staged EXCEPT ![f] = how]
              /\ at = "whole" \/ (at = "send" /\ how = "whole")
              /\ UNCHANGED faults
  <2>1. PICK at \in Places, how \in {"cut", "whole"}:
              /\ Goes(j, at) /\ staged' = [staged EXCEPT ![f] = how]
              /\ at = "whole" \/ (at = "send" /\ how = "whole")
              /\ UNCHANGED faults
    BY <1>5
  <2>4. PICK q \in Job:
        /\ job' = [job EXCEPT ![j] = q] /\ q.at = at
        /\ q.host = job[j].host /\ q.user = job[j].user /\ q.files = job[j].files
        /\ q.next = job[j].next /\ q.status = job[j].status /\ q.fault = job[j].fault
        /\ q.met = job[j].met
    BY <1>2, <2>1, GoesIs
  <2>5. TypeOK'
    BY <1>1, <1>2, <2>1, <2>4 DEF TypeOK, Staged
  <2>6. JobInv(q)
    BY <1>1, <1>2, <2>1, <2>4 DEF JobInv
  <2>7. q.met \/ Good(j, q, askpass', staged', remote', agent')
    <3>1. q.at = "send" => staged'[Files[q.next]] = "whole"
      BY <1>2, <1>3, <2>1, <2>4
    <3> QED BY <1>1, <1>2, <2>1, <2>4, <3>1 DEF Good
  <2>8. Tidies(j, q)
    <3>1. Stages(q, f) /\ Running(q)
      BY <1>3, <2>1, <2>4 DEF Stages, Running
    <3>2. \A x \in FileSet: x # f => staged'[x] = staged[x] /\ ~Stages(job[j], x)
      BY <1>2, <1>3, <2>1 DEF Stages
    <3>3. CanReach(q) = CanReach(job[j])
      BY <2>4 DEF CanReach
    <3> QED BY <1>1, <2>4, <3>1, <3>2, <3>3 DEF Tidies
  <2>9. /\ q.at # "off" /\ q.at # "gone" /\ q.status # "failed" /\ AgentsKept(j, q)
        /\ job[j].fault \subseteq q.fault
    BY <1>1, <1>2, <2>1, <2>4 DEF AgentsKept
  <2> QED BY <1>1, <2>4, <2>5, <2>6, <2>7, <2>8, <2>9, JobMoves
<1>6. "whole" \in Places /\ "send" \in Places
  BY PlaceFacts
<1> QED BY <1>3, <1>4, <1>5, <1>6 DEF TruncateStaged, FillStaged


(* A copy that gets through.                                               *)
LEMMA DeliversInv ==
  ASSUME Inv, NEW j \in 1..Jobs, job[j].at \in {"send", "again"}, Delivers(j),
         UNCHANGED <<dialog, seen, askpass, agent, faults>>
  PROVE  Inv'
<1>1. Running(job[j])
  BY DEF Running
<1>2. /\ TypeOK /\ job[j] \in Job /\ JobInv(job[j]) /\ job[j].next \in 1..3
      /\ job[j].host \in Hosts /\ job[j].user /\ job[j].status \notin {"done", "failed"}
      /\ job[j].met \/ Good(j, job[j], askpass, staged, remote, agent)
      /\ staged \in [FileSet -> {"no", "cut", "whole"}]
  BY <1>1, JobFacts, FileFacts DEF JobInv, Job, TypeOK, Staged
<1>3. PICK f \in FileSet: f = Files[job[j].next]
  BY <1>2, FileFacts
<1>4. PICK h \in Hosts: h = job[j].host
  BY <1>2
<1>5. /\ Reaches(j) /\ remote[h].there
      /\ remote' = [remote EXCEPT ![h].files[f] = staged[f]]
      /\ staged' = [staged EXCEPT ![f] = "no"]
      /\ job' = [job EXCEPT ![j] = Sent(j)]
  BY <1>3, <1>4 DEF Delivers, Arrives, Name
<1>6. staged' \in Staged /\ staged'[f] = "no" /\ \A x \in FileSet: x # f => staged'[x] = staged[x]
  BY <1>2, <1>3, <1>5 DEF Staged
<1>7. /\ remote' \in [Hosts -> Dirs]
      /\ remote'[h].there /\ remote'[h].files[f] = staged[f]
      /\ \A x \in FileSet: x # f => remote'[h].files[x] = remote[h].files[x]
      /\ \A x \in Hosts: x # h => remote'[x] = remote[x]
  <2>1. remote \in [Hosts -> Dirs] /\ staged[f] \in {"no", "cut", "whole"}
    BY <1>2, TypeFacts
  <2> QED BY <1>5, <2>1 DEF Staged, Dirs
<1>8. \A k \in 1..3: k < job[j].next => Files[k] \in FileSet /\ Files[k] # f
  BY <1>2, <1>3, FileFacts
<1>9. job[j].met \/ \A k \in 1..3: k < job[j].next + 1 => remote'[h].files[Files[k]] = "whole"
  <2> SUFFICES ASSUME ~job[j].met, NEW k \in 1..3, k < job[j].next + 1
               PROVE  remote'[h].files[Files[k]] = "whole"
    OBVIOUS
  <2>1. k < job[j].next \/ k = job[j].next
    BY <1>2
  <2>2. CASE k < job[j].next
    BY <1>1, <1>2, <1>4, <1>7, <1>8, <2>2 DEF Good
  <2>3. CASE k = job[j].next
    BY <1>1, <1>2, <1>3, <1>7, <2>3 DEF Good
  <2> QED BY <2>1, <2>2, <2>3
<1>10. LET q == Sent(j)
       IN /\ q \in Job /\ q.host = h /\ q.user = job[j].user /\ q.files = job[j].files
          /\ q.met = job[j].met /\ q.fault = job[j].fault /\ q.cancelled = job[j].cancelled
          /\ \/ /\ q.at = "write" /\ q.next = job[j].next + 1
                /\ q.status = job[j].status
             \/ /\ q.at = "script" /\ job[j].next = 3 /\ q.cancelled = "no"
                /\ q.status = job[j].status
             \/ q.at = "clean" /\ q.status = "failed" /\ q.cancelled # "no"
  <2>1. CASE job[j].next < 3
    <3>1. Sent(j) = [job[j] EXCEPT !.next = @ + 1, !.at = "write"]
      BY <2>1, FileFacts DEF Sent
    <3>2. job[j].next + 1 \in 1..Len(Files) /\ "write" \in Places
      BY <1>2, <2>1, FileFacts DEF Places
    <3> QED BY <1>2, <1>4, <3>1, <3>2 DEF Job
  <2>2. CASE job[j].next = 3 /\ job[j].cancelled = "no"
    <3>1. Sent(j) = [job[j] EXCEPT !.at = "script"] /\ "script" \in Places
      BY <2>2, FileFacts, PlaceFacts DEF Sent
    <3> QED BY <1>2, <1>4, <2>2, <3>1 DEF Job
  <2>3. CASE job[j].next = 3 /\ job[j].cancelled # "no"
    <3>1. Sent(j) = [job[j] EXCEPT !.status = "failed", !.at = "clean"] /\ "clean" \in Places
      BY <2>3, FileFacts, PlaceFacts DEF Sent
    <3> QED BY <1>2, <1>4, <2>3, <3>1 DEF Job
  <2>4. \/ job[j].next < 3
        \/ job[j].next = 3 /\ job[j].cancelled = "no"
        \/ job[j].next = 3 /\ job[j].cancelled # "no"
    BY <1>2
  <2> QED BY <2>1, <2>2, <2>3, <2>4
<1>11. PICK q \in Job: q = Sent(j)
  BY <1>10
<1>12. /\ q.host = h /\ q.user = job[j].user /\ q.files = job[j].files
      /\ q.met = job[j].met /\ q.fault = job[j].fault /\ q.cancelled = job[j].cancelled
      /\ \/ /\ q.at = "write" /\ q.next = job[j].next + 1
            /\ q.status = job[j].status
         \/ /\ q.at = "script" /\ job[j].next = 3 /\ q.cancelled = "no"
            /\ q.status = job[j].status
         \/ q.at = "clean" /\ q.status = "failed" /\ q.cancelled # "no"
  BY <1>11, <1>10
<1>13. TypeOK'
  BY <1>2, <1>5, <1>6, <1>7, <1>11 DEF TypeOK, Dirs
<1>14. JobInv(q)
  BY <1>2, <1>4, <1>12 DEF JobInv
<1>15. q.met \/ Good(j, q, askpass', staged', remote', agent')
  <2>1. q.met \/ (q.files => askpass' = OwnHelper(j))
    BY <1>2, <1>12 DEF Good
  <2>2. q.met \/ (q.at = "write" => \A k \in 1..3: k < q.next => remote'[h].files[Files[k]] = "whole")
    BY <1>9, <1>12
  <2>3. q.met \/ (q.at = "script" => \A k \in 1..3: remote'[h].files[Files[k]] = "whole")
    BY <1>9, <1>12
  <2> QED BY <1>7, <1>12, <2>1, <2>2, <2>3 DEF Good
<1>16. Tidies(j, q)
  <2>1. Running(q) /\ CanReach(q)
    BY <1>1, <1>4, <1>5, <1>12, Reaching DEF Running, CanReach
  <2>2. \A x \in FileSet: x # f => ~Stages(job[j], x)
    BY <1>3 DEF Stages
  <2> QED BY <1>4, <1>6, <1>7, <1>12, <2>1, <2>2 DEF Tidies
<1>17. /\ q.at # "off" /\ q.at # "gone" /\ q.status # "done"
       /\ q.status = "failed" => Excused(q)
       /\ job[j].fault \subseteq q.fault /\ AgentsKept(j, q)
  BY <1>2, <1>12 DEF Excused, AgentsKept
<1>18. job' = [job EXCEPT ![j] = q] /\ q.host = job[j].host
  BY <1>11, <1>4, <1>5, <1>12
<1> QED BY <1>1, <1>12, <1>13, <1>14, <1>15, <1>16, <1>17, <1>18, JobMoves

(* A copy that does not: at most the file that was on its way is cut off.  *)
LEMMA TornIs ==
  ASSUME TypeOK, NEW j \in 1..Jobs, NEW h \in Hosts, NEW f \in FileSet,
         h = job[j].host, f = Name(j), remote' \in Torn(j)
  PROVE  /\ remote' \in [Hosts -> Dirs]
         /\ \A x \in Hosts: x # h => remote'[x] = remote[x]
         /\ remote'[h].there = remote[h].there
         /\ \A x \in FileSet: x # f => remote'[h].files[x] = remote[h].files[x]
         /\ remote' = remote \/ Reaches(j)
<1>1. remote \in [Hosts -> Dirs]
  BY TypeFacts
<1>2. CASE remote' = remote
  BY <1>1, <1>2
<1>3. CASE Arrives(j) /\ remote' = [remote EXCEPT ![h].files[f] = "cut"]
  <2>1. Reaches(j)
    BY <1>3 DEF Arrives
  <2> QED BY <1>1, <1>3, <2>1 DEF Dirs, Staged
<1> QED BY <1>2, <1>3 DEF Torn

LEMMA SendInv ==
  ASSUME Inv, NEW j \in 1..Jobs, Send(j)
  PROVE  Inv'
<1>1. /\ Running(job[j]) /\ job[j].at = "send"
      /\ UNCHANGED <<dialog, seen, askpass, agent, faults>>
  BY DEF Send, Running
<1>2. /\ TypeOK /\ job[j] \in Job /\ JobInv(job[j]) /\ job[j].next \in 1..3
      /\ job[j].host \in Hosts /\ job[j].user /\ job[j].status \notin {"done", "failed"}
      /\ job[j].met \/ Good(j, job[j], askpass, staged, remote, agent)
      /\ "again" \in Places
  BY <1>1, JobFacts, FileFacts, PlaceFacts DEF JobInv, Job
<1>3. CASE Delivers(j)
  BY <1>1, <1>3, DeliversInv
<1>4. CASE remote' \in Torn(j) /\ Goes(j, "again") /\ UNCHANGED staged
  <2>1. PICK f \in FileSet, h \in Hosts: f = Name(j) /\ f = Files[job[j].next] /\ h = job[j].host
    BY <1>2, FileFacts DEF Name
  <2>2. /\ remote' \in [Hosts -> Dirs]
        /\ \A x \in Hosts: x # h => remote'[x] = remote[x]
        /\ remote'[h].there = remote[h].there
        /\ \A x \in FileSet: x # f => remote'[h].files[x] = remote[h].files[x]
        /\ remote' = remote \/ Reaches(j)
    BY <1>2, <1>4, <2>1, TornIs
  <2>3. PICK q \in Job:
        /\ job' = [job EXCEPT ![j] = q] /\ q.at = "again"
        /\ q.host = job[j].host /\ q.user = job[j].user /\ q.files = job[j].files
        /\ q.next = job[j].next /\ q.status = job[j].status /\ q.fault = job[j].fault
        /\ q.met = job[j].met
    <3>1. TypeOK /\ "again" \in Places /\ Goes(j, "again")
      BY <1>2, <1>4
    <3> QED BY <3>1, GoesIs
  <2>4. TypeOK'
    BY <1>1, <1>2, <1>4, <2>2, <2>3 DEF TypeOK, Dirs
  <2>5. JobInv(q)
    BY <1>2, <2>3 DEF JobInv
  <2>6. q.met \/ Good(j, q, askpass', staged', remote', agent')
    <3>1. \A k \in 1..3: k < job[j].next => Files[k] \in FileSet /\ Files[k] # f
      BY <1>2, <2>1, FileFacts
    <3>2. \A k \in 1..3: k < job[j].next => remote'[h].files[Files[k]] = remote[h].files[Files[k]]
      BY <2>2, <3>1
    <3>3. UNCHANGED <<askpass, staged>> /\ q.host = h /\ job[j].host = h
      BY <1>1, <1>4, <2>1, <2>3
    <3>4. job[j].met \/ /\ job[j].files => askpass = OwnHelper(j)
                        /\ remote[h].there /\ staged[Files[job[j].next]] = "whole"
                        /\ \A k \in 1..3: k < job[j].next => remote[h].files[Files[k]] = "whole"
      BY <1>1, <1>2, <3>3 DEF Good
    <3> QED BY <2>2, <2>3, <3>2, <3>3, <3>4 DEF Good
  <2>7. Tidies(j, q)
    <3>1. \A x \in FileSet: staged'[x] # "no" => Stages(q, x) \/ (staged[x] # "no" /\ ~Stages(job[j], x))
      BY <1>1, <1>4, <2>3 DEF Stages
    <3>2. Running(q) /\ (Reaches(j) => CanReach(q)) /\ (CanReach(q) <=> CanReach(job[j]))
      BY <1>1, <2>3, Reaching DEF Running, CanReach
    <3>3. ASSUME NEW x \in Hosts, remote'[x] # NoDir
          PROVE  \/ x = q.host /\ CanReach(q)
                 \/ remote[x] # NoDir /\ ~(x = job[j].host /\ CanReach(job[j]))
      BY <2>1, <2>2, <2>3, <3>2, <3>3
    <3> QED BY <1>1, <2>3, <3>1, <3>2, <3>3 DEF Tidies
  <2>8. /\ q.at # "off" /\ q.at # "gone" /\ q.status # "failed" /\ AgentsKept(j, q)
        /\ job[j].fault \subseteq q.fault
    BY <1>1, <1>2, <2>3 DEF AgentsKept
  <2> QED BY <1>1, <2>3, <2>4, <2>5, <2>6, <2>7, <2>8, JobMoves
<1> QED BY <1>3, <1>4 DEF Send

LEMMA SendAgainInv ==
  ASSUME Inv, NEW j \in 1..Jobs, SendAgain(j)
  PROVE  Inv'
<1>1. /\ Running(job[j]) /\ job[j].at = "again" /\ job[j].at \notin {"files", "clean"}
      /\ UNCHANGED <<dialog, seen, askpass, agent>>
  BY DEF SendAgain, Running
<1>2. /\ TypeOK /\ job[j] \in Job /\ JobInv(job[j]) /\ job[j].next \in 1..3
      /\ job[j].host \in Hosts /\ job[j].status \notin {"done", "failed"}
      /\ job[j].met \/ Good(j, job[j], askpass, staged, remote, agent)
      /\ job[j].fault \in FaultSets
  BY <1>1, JobFacts, FileFacts, FaultIs DEF JobInv, Job
<1>3. CASE Delivers(j) /\ UNCHANGED faults
  BY <1>1, <1>3, DeliversInv
<1>4. PICK f \in FileSet, h \in Hosts: f = Name(j) /\ f = Files[job[j].next] /\ h = job[j].host
  BY <1>2, FileFacts DEF Name
<1>5. ASSUME NEW fault \in FaultSets, job[j].fault \subseteq fault,
             job' = [job EXCEPT ![j] = Failed(j, fault)],
             fault \intersect {"local", "ssh"} # {} \/ Excused(job[j]),
             faults' \in 0..MaxFaults, staged' = [staged EXCEPT ![f] = "no"],
             remote' \in Torn(j)
      PROVE  Inv'
  <2>1. /\ staged' \in Staged /\ staged'[f] = "no"
        /\ \A x \in FileSet: x # f => staged'[x] = staged[x]
    BY <1>2, <1>4, <1>5 DEF Staged, TypeOK
  <2>2. /\ remote' \in [Hosts -> Dirs]
        /\ \A x \in Hosts: x # h => remote'[x] = remote[x]
        /\ remote' = remote \/ Reaches(j)
    BY <1>2, <1>4, <1>5, TornIs
  <2>3. Drops(j, fault)
    <3>1. Reaches(j) => CanReach(job[j])
      BY <1>1, Reaching
    <3>2. \A x \in FileSet: x # f => ~Stages(job[j], x)
      BY <1>4 DEF Stages
    <3> QED BY <1>4, <2>1, <2>2, <3>1, <3>2 DEF Drops
  <2>4. AgentsKept(j, Failed(j, fault))
    <3>1. Failed(j, fault).status = "failed"
      BY <1>2, FailedIs
    <3> QED BY <1>1, <3>1 DEF AgentsKept
  <2>5. agent' \in [Hosts -> Agents] /\ UNCHANGED <<dialog, seen, askpass>>
    BY <1>1, <1>2 DEF TypeOK
  <2> QED BY <1>1, <1>5, <2>1, <2>2, <2>3, <2>4, <2>5, Failing
<1>6. CASE /\ ~Arrives(j) /\ Fails(j) /\ staged' = [staged EXCEPT ![f] = "no"]
           /\ UNCHANGED <<remote, faults>>
  <2>1. Excused(job[j])
    <3> SUFFICES ASSUME ~Excused(job[j]) PROVE FALSE
      OBVIOUS
    <3>1. Reaches(j) /\ ~job[j].met
      BY <1>1, Reaching DEF Excused
    <3> QED BY <1>1, <1>2, <1>4, <1>6, <3>1 DEF Good, Arrives
  <2>2. job' = [job EXCEPT ![j] = Failed(j, job[j].fault)]
    BY <1>2, <1>6, FailsIs
  <2>3. faults' \in 0..MaxFaults /\ remote' \in Torn(j)
    BY <1>2, <1>6 DEF TypeOK, Torn
  <2> QED BY <1>2, <1>5, <1>6, <2>1, <2>2, <2>3
<1>7. CASE /\ Breaks(j, "ssh") /\ staged' = [staged EXCEPT ![f] = "no"] /\ remote' \in Torn(j)
  <2>1. "ssh" \in Faults
    BY DEF Faults
  <2>2. PICK fault \in FaultSets: fault = job[j].fault \union {"ssh"}
    BY <1>2, <1>7, <2>1, FailsIs
  <2>3. job' = [job EXCEPT ![j] = Failed(j, fault)] /\ faults' \in 0..MaxFaults
    BY <1>2, <1>7, <2>1, <2>2, FailsIs
  <2>4. job[j].fault \subseteq fault /\ fault \intersect {"local", "ssh"} # {}
    BY <2>2
  <2> QED BY <1>5, <1>7, <2>3, <2>4
<1> QED BY <1>3, <1>4, <1>6, <1>7 DEF SendAgain

(* What the script can leave on a port; with whole files and without a     *)
(* fault it is the new agent, unless the old one cannot be stopped.        *)
LEMMA OutcomeFacts ==
  ASSUME TypeOK, NEW h \in Hosts
  PROVE  /\ Outcome(h) \subseteq Agents /\ Left(h) \subseteq Agents
         /\ Complete(h) => \A left \in Outcome(h):
               left = "new" \/ (left \in {agent[h], "mute"} /\ h \in StaleHosts)
<1>1. agent[h] \in Agents
  BY DEF TypeOK
<1>2. Left(h) \subseteq Agents
  BY <1>1 DEF Left, Agents
<1> QED BY <1>1, <1>2 DEF Outcome, Agents

LEMMA RunScriptInv ==
  ASSUME Inv, NEW j \in 1..Jobs, RunScript(j)
  PROVE  Inv'
<1>1. /\ Running(job[j]) /\ job[j].at = "script"
      /\ UNCHANGED <<dialog, seen, askpass, staged, remote>>
  BY DEF RunScript, Running
<1>2. /\ TypeOK /\ job[j] \in Job /\ JobInv(job[j])
      /\ job[j].host \in Hosts /\ job[j].user /\ job[j].status \notin {"done", "failed"}
      /\ job[j].met \/ Good(j, job[j], askpass, staged, remote, agent)
      /\ job[j].fault \in FaultSets /\ "verify" \in Places /\ "ssh" \in Faults
  BY <1>1, JobFacts, FaultIs, PlaceFacts DEF JobInv, Faults
<1>3. PICK h \in Hosts: h = job[j].host
  BY <1>2
<1>4. job[j].met \/ Complete(h)
  BY <1>1, <1>2, <1>3, FileFacts DEF Good, Complete
<1>5. ASSUME NEW left \in Agents, agent' = [agent EXCEPT ![h] = left]
      PROVE  /\ agent' \in [Hosts -> Agents] /\ agent'[h] = left
             /\ \A x \in Hosts: x # h => agent'[x] = agent[x]
  BY <1>2, <1>5 DEF TypeOK
(* The job goes on to the check.                                           *)
<1>6. ASSUME NEW left \in Agents, agent' = [agent EXCEPT ![h] = left],
             NEW q \in Job, job' = [job EXCEPT ![j] = q], q.at = "verify",
             q.host = h, q.user = job[j].user, q.files = job[j].files,
             q.status = job[j].status, q.met = job[j].met, job[j].fault \subseteq q.fault,
             \/ job[j].met \/ left = "new" \/ (left \in {agent[h], "mute"} /\ h \in StaleHosts)
             \/ left = "none" /\ "ssh" \in q.fault,
             faults' \in 0..MaxFaults
      PROVE  Inv'
  <2>1. TypeOK'
    BY <1>1, <1>2, <1>5, <1>6 DEF TypeOK
  <2>2. JobInv(q)
    BY <1>2, <1>6 DEF JobInv
  <2>3. q.met \/ Good(j, q, askpass', staged', remote', agent')
    <3> SUFFICES ASSUME ~job[j].met PROVE Good(j, q, askpass', staged', remote', agent')
      BY <1>6
    <3>1. /\ job[j].files => askpass = OwnHelper(j)
          /\ remote[h].there
          /\ \A k \in 1..3: remote[h].files[Files[k]] = "whole"
      BY <1>1, <1>2, <1>3 DEF Good
    <3>2. \/ agent'[h] = "new" \/ h \in StaleHosts
          \/ agent'[h] = "none" /\ "ssh" \in q.fault
      BY <1>5, <1>6
    <3> QED BY <1>1, <1>6, <3>1, <3>2 DEF Good
  <2>4. Tidies(j, q)
    <3>1. Running(q) /\ (CanReach(q) <=> CanReach(job[j])) /\ \A f \in FileSet: ~Stages(job[j], f)
      BY <1>1, <1>3, <1>6 DEF Running, CanReach, Stages
    <3> QED BY <1>1, <1>3, <1>6, <3>1 DEF Tidies
  <2>5. AgentsKept(j, q)
    BY <1>2, <1>5, <1>6 DEF AgentsKept
  <2>6. q.at # "off" /\ q.at # "gone" /\ q.status # "failed" /\ q.host = job[j].host
    BY <1>2, <1>3, <1>6
  <2> QED BY <1>1, <1>6, <2>1, <2>2, <2>3, <2>4, <2>5, <2>6, JobMoves
(* The job ends.                                                           *)
<1>7. ASSUME NEW left \in Agents, agent' = [agent EXCEPT ![h] = left],
             NEW fault \in FaultSets, job[j].fault \subseteq fault,
             job' = [job EXCEPT ![j] = Failed(j, fault)],
             fault \intersect {"local", "ssh"} # {} \/ job[j].met,
             faults' \in 0..MaxFaults
      PROVE  Inv'
  <2>1. Drops(j, fault)
    BY <1>1 DEF Drops, Stages
  <2>2. AgentsKept(j, Failed(j, fault))
    <3>1. PICK q \in Job: q = Failed(j, fault)
      BY <1>2, FailedIs
    <3>2. q.status = "failed" /\ q.fault = fault /\ q.host = h /\ q.met = job[j].met
      BY <1>2, <1>3, <3>1, FailedIs
    <3> QED BY <1>2, <1>5, <1>7, <3>1, <3>2 DEF AgentsKept
  <2>3. /\ staged' \in Staged /\ remote' \in [Hosts -> Dirs]
    BY <1>1, <1>2, TypeFacts DEF TypeOK
  <2> QED BY <1>1, <1>5, <1>7, <2>1, <2>2, <2>3, Failing DEF Excused
<1>8. CASE /\ remote[h].files["script"] = "cut" \/ \A f \in FileSet: remote[h].files[f] # "no"
           /\ \E left \in Outcome(h): agent' = [agent EXCEPT ![h] = left]
           /\ Goes(j, "verify") /\ UNCHANGED faults
  <2>1. PICK left \in Outcome(h): agent' = [agent EXCEPT ![h] = left]
    BY <1>8
  <2>2. /\ left \in Agents
        /\ job[j].met \/ left = "new" \/ (left \in {agent[h], "mute"} /\ h \in StaleHosts)
    BY <1>2, <1>4, OutcomeFacts
  <2>3. PICK q \in Job: /\ job' = [job EXCEPT ![j] = q] /\ q.at = "verify"
                        /\ q.host = job[j].host /\ q.user = job[j].user
                        /\ q.files = job[j].files /\ q.status = job[j].status
                        /\ q.fault = job[j].fault /\ q.met = job[j].met
    <3>1. TypeOK /\ "verify" \in Places /\ Goes(j, "verify")
      BY <1>2, <1>8
    <3> QED BY <3>1, GoesIs
  <2>4. q.host = h /\ job[j].fault \subseteq q.fault /\ faults' \in 0..MaxFaults
    BY <1>2, <1>3, <1>8, <2>3 DEF TypeOK
  <2> QED BY <1>6, <2>1, <2>2, <2>3, <2>4
<1>9. CASE /\ Reaches(j) /\ ~Complete(h) /\ Fails(j) /\ UNCHANGED faults
           /\ \E left \in Outcome(h): agent' = [agent EXCEPT ![h] = left]
  <2>1. PICK left \in Agents: agent' = [agent EXCEPT ![h] = left]
    BY <1>2, <1>9, OutcomeFacts
  <2>2. job[j].met /\ job' = [job EXCEPT ![j] = Failed(j, job[j].fault)]
    BY <1>2, <1>4, <1>9, FailsIs
  <2>3. faults' \in 0..MaxFaults
    BY <1>2, <1>9 DEF TypeOK
  <2> QED BY <1>2, <1>7, <2>1, <2>2, <2>3
<1>10. CASE ~Reaches(j) /\ Fails(j) /\ UNCHANGED <<agent, faults>>
  <2>1. Excused(job[j])
    BY <1>1, <1>10, Reaching
  <2> QED BY <1>1, <1>10, <2>1, JustFails
<1>11. CASE /\ Breaks(j, "ssh")
            /\ \E left \in Left(h): agent' = [agent EXCEPT ![h] = left]
  <2>1. PICK left \in Agents: agent' = [agent EXCEPT ![h] = left]
    BY <1>2, <1>11, OutcomeFacts
  <2>2. PICK fault \in FaultSets: fault = job[j].fault \union {"ssh"}
    BY <1>2, <1>11, FailsIs
  <2>3. job' = [job EXCEPT ![j] = Failed(j, fault)] /\ faults' \in 0..MaxFaults
    BY <1>2, <1>11, <2>2, FailsIs
  <2>4. job[j].fault \subseteq fault /\ fault \intersect {"local", "ssh"} # {}
    BY <2>2
  <2> QED BY <1>7, <2>1, <2>3, <2>4
<1>12. CASE /\ faults < MaxFaults /\ faults' = faults + 1
            /\ agent' = [agent EXCEPT ![h] = "none"]
            /\ job' = [job EXCEPT ![j].at = "verify", ![j].fault = @ \union {"ssh"}]
  <2>1. PICK fault \in FaultSets: fault = job[j].fault \union {"ssh"}
    BY <1>2 DEF Faults, FaultSets
  <2>2. job' = [job EXCEPT ![j] = Moved(j, "verify", fault)]
    <3>1. job \in [1..Jobs -> Job]
      BY <1>2 DEF TypeOK
    <3> QED BY <1>2, <1>12, <2>1, <3>1 DEF Job, Moved
  <2>3. PICK q \in Job: q = Moved(j, "verify", fault)
    BY <1>2, MovedIs
  <2>4. /\ job' = [job EXCEPT ![j] = q]
        /\ q.files = job[j].files /\ q.at = "verify" /\ q.host = job[j].host
        /\ q.user = job[j].user
        /\ q.status = job[j].status /\ q.fault = fault /\ q.met = job[j].met
    <3>1. TypeOK /\ "verify" \in Places
      BY <1>2
    <3> QED BY <2>2, <2>3, <3>1, MovedIs
  <2>5. /\ q.host = h /\ job[j].fault \subseteq q.fault /\ "ssh" \in q.fault
        /\ "none" \in Agents
    BY <1>3, <2>1, <2>4 DEF Agents
  <2>6. faults' \in 0..MaxFaults
    BY <1>2, <1>12, FaultsCount
  <2> QED BY <1>6, <1>12, <2>4, <2>5, <2>6
<1> QED BY <1>3, <1>8, <1>9, <1>10, <1>11, <1>12 DEF RunScript

LEMMA VerifyInv ==
  ASSUME Inv, NEW j \in 1..Jobs, Verify(j)
  PROVE  Inv'
<1>1. Running(job[j]) /\ job[j].at = "verify" /\ UNCHANGED <<dialog, seen, askpass>>
  BY DEF Verify, Running
<1>2. /\ TypeOK /\ job[j] \in Job /\ JobInv(job[j])
      /\ job[j].host \in Hosts /\ job[j].user /\ "clean" \in Places
      /\ job[j].met \/ Good(j, job[j], askpass, staged, remote, agent)
  BY <1>1, JobFacts, PlaceFacts DEF JobInv
<1>3. CASE /\ Reaches(j) /\ Passes(job[j].host)
           /\ job' = [job EXCEPT ![j].status = "done", ![j].at = "clean"]
           /\ UNCHANGED <<staged, remote, agent, faults>>
  <2>1. PICK q \in Job: q = [job[j] EXCEPT !.status = "done", !.at = "clean"]
    BY <1>2 DEF Job
  <2>2. /\ q.status = "done" /\ q.at = "clean" /\ q.host = job[j].host /\ q.user = job[j].user
        /\ q.files = job[j].files /\ q.fault = job[j].fault /\ q.met = job[j].met
    BY <1>2, <2>1 DEF Job
  <2>3. job' = [job EXCEPT ![j] = q]
    BY <1>2, <1>3, <2>1 DEF TypeOK, Job
  <2>4. TypeOK'
    <3>1. job' \in [1..Jobs -> Job]
      BY <1>2, <2>3 DEF TypeOK
    <3>2. UNCHANGED <<dialog, seen, askpass, staged, remote, agent, faults>>
      BY <1>1, <1>3
    <3> QED BY <1>2, <3>1, <3>2 DEF TypeOK
  <2>5. JobInv(q) /\ (q.met \/ Good(j, q, askpass', staged', remote', agent'))
    BY <1>1, <1>2, <1>3, <2>2 DEF JobInv, Good
  <2>6. Tidies(j, q)
    <3>1. Running(q) /\ (CanReach(q) <=> CanReach(job[j])) /\ \A f \in FileSet: ~Stages(job[j], f)
      BY <1>1, <2>2 DEF Running, CanReach, Stages
    <3> QED BY <1>1, <1>3, <2>2, <3>1 DEF Tidies
  <2>7. AgentsKept(j, q)
    <3>1. job[j].met \/ agent[q.host] = "new" \/ q.host \in StaleHosts
      BY <1>1, <1>2, <1>3, <2>2 DEF Good, Passes
    <3> QED BY <1>3, <2>2, <3>1 DEF AgentsKept, Installed, Passes
  <2>8. /\ q.at # "off" /\ q.at # "gone" /\ q.status # "failed"
        /\ job[j].fault \subseteq q.fault
    BY <2>2
  <2> QED BY <1>1, <2>2, <2>3, <2>4, <2>5, <2>6, <2>7, <2>8, JobMoves
<1>4. CASE /\ ~(Reaches(j) /\ agent[job[j].host] = "new") /\ Fails(j)
           /\ UNCHANGED <<staged, remote, agent, faults>>
  <2>1. Excused(job[j])
    BY <1>1, <1>2, <1>4, Reaching DEF Excused, Good
  <2> QED BY <1>1, <1>4, <2>1, JustFails
<1>5. CASE Fault(j)
  BY <1>1, <1>5, JustFails
<1> QED BY <1>3, <1>4, <1>5 DEF Verify

LEMMA CleanInv ==
  ASSUME Inv, NEW j \in 1..Jobs, Clean(j)
  PROVE  Inv'
<1> DEFINE h == job[j].host
<1>1. /\ Running(job[j]) /\ job[j].at = "clean"
      /\ askpass' = IF job[j].files THEN NoHelper ELSE askpass
      /\ UNCHANGED <<dialog, seen, staged, agent>>
  BY DEF Clean, Released, Running
<1>2. /\ TypeOK /\ job[j] \in Job /\ JobInv(job[j]) /\ "gone" \in Places
      /\ NoDir \in Dirs /\ remote \in [Hosts -> Dirs]
      /\ job[j].fault \in FaultSets /\ NoHelper \in Helper /\ askpass \in Helper
  <2>1. NoHelper \in Helper
    BY InstallAssumption DEF NoHelper, Helper
  <2> QED BY <1>1, <2>1, JobFacts, TypeFacts, FaultIs, PlaceFacts DEF TypeOK
<1>3. ASSUME NEW q \in Job, job' = [job EXCEPT ![j] = q], q.at = "gone",
             q.host = h, q.user = job[j].user, q.files = job[j].files,
             q.status = job[j].status, q.cancelled = job[j].cancelled, q.met = job[j].met,
             job[j].fault \subseteq q.fault, remote' \in [Hosts -> Dirs],
             faults' \in 0..MaxFaults,
             ~job[j].met => \A x \in Hosts: remote'[x] # NoDir =>
                 \/ x = h /\ "rm" \in q.fault
                 \/ remote[x] # NoDir /\ ~(x = h /\ CanReach(job[j]))
      PROVE  Inv'
  <2>1. TypeOK'
    BY <1>1, <1>2, <1>3 DEF TypeOK, Dirs
  <2>2. JobInv(q)
    BY <1>2, <1>3 DEF JobInv
  <2>3. q.status = "failed" => Excused(q)
    <3>1. job[j].status = "failed" => Excused(job[j])
      BY DEF Excused, Inv, FailureHasCause
    <3> QED BY <1>3, <3>1 DEF Excused
  <2>4. ~q.met => Tidies(j, q)
    <3>1. \A f \in FileSet: ~Stages(job[j], f)
      BY <1>1 DEF Stages
    <3> QED BY <1>1, <1>3, <3>1 DEF Tidies
  <2>5. AgentsKept(j, q)
    BY <1>1, <1>3 DEF AgentsKept
  <2>6. q.at # "off"
    BY <1>3
  <2> QED BY <1>1, <1>3, <2>1, <2>2, <2>3, <2>4, <2>5, <2>6, JobMoves
<1>4. CASE /\ remote' = IF Reaches(j) THEN [remote EXCEPT ![h] = NoDir] ELSE remote
           /\ Goes(j, "gone") /\ UNCHANGED faults
  <2>1. PICK q \in Job: /\ job' = [job EXCEPT ![j] = q] /\ q.at = "gone"
                        /\ q.host = job[j].host /\ q.user = job[j].user
                        /\ q.files = job[j].files
                        /\ q.status = job[j].status /\ q.cancelled = job[j].cancelled
                        /\ q.fault = job[j].fault /\ q.met = job[j].met
    <3>1. TypeOK /\ "gone" \in Places /\ Goes(j, "gone")
      BY <1>2, <1>4
    <3> QED BY <3>1, GoesIs
  <2>2. remote' \in [Hosts -> Dirs]
    BY <1>2, <1>4
  <2>3. ASSUME ~job[j].met, NEW x \in Hosts, remote'[x] # NoDir
        PROVE  remote[x] # NoDir /\ ~(x = h /\ CanReach(job[j]))
    <3>1. CanReach(job[j]) => Reaches(j)
      BY <1>1, <2>3, Reaching
    <3> QED BY <1>2, <1>4, <2>3, <3>1 DEF CanReach
  <2>4. faults' \in 0..MaxFaults /\ job[j].fault \subseteq q.fault
    BY <1>2, <1>4, <2>1 DEF TypeOK
  <2> QED BY <1>3, <2>1, <2>2, <2>3, <2>4
<1>5. CASE /\ faults < MaxFaults /\ faults' = faults + 1 /\ UNCHANGED remote
           /\ job' = [job EXCEPT ![j].at = "gone", ![j].fault = @ \union {"rm"}]
  <2>1. PICK fault \in FaultSets: fault = job[j].fault \union {"rm"}
    BY <1>2 DEF Faults, FaultSets
  <2>2. job' = [job EXCEPT ![j] = Moved(j, "gone", fault)]
    <3>1. job \in [1..Jobs -> Job]
      BY <1>2 DEF TypeOK
    <3> QED BY <1>2, <1>5, <2>1, <3>1 DEF Job, Moved
  <2>3. PICK q \in Job: q = Moved(j, "gone", fault)
    BY <1>2, MovedIs
  <2>4. /\ job' = [job EXCEPT ![j] = q]
        /\ q.files = job[j].files /\ q.at = "gone" /\ q.host = job[j].host
        /\ q.user = job[j].user /\ q.cancelled = job[j].cancelled
        /\ q.status = job[j].status /\ q.fault = fault /\ q.met = job[j].met
    BY <1>2, <2>2, <2>3, MovedIs
  <2>5. faults' \in 0..MaxFaults
    BY <1>2, <1>5, FaultsCount
  <2>6. remote' \in [Hosts -> Dirs] /\ job[j].fault \subseteq q.fault /\ "rm" \in q.fault
    BY <1>2, <1>5, <2>1, <2>4
  <2> QED BY <1>3, <1>5, <2>4, <2>5, <2>6
<1> QED BY <1>4, <1>5 DEF Clean, Removed

-----------------------------------------------------------------------------
(* The steps of the dialog.                                                *)
LEMMA StartInstallInv ==
  ASSUME Inv, StartInstall
  PROVE  Inv'
<1>1. PICK j \in 1..Jobs, request \in Requests:
        /\ \A i \in 1..Jobs: i < j <=> job[i].at # "off"
        /\ job' = [i \in 1..Jobs |->
                      IF i = j THEN [NoJob EXCEPT !.at = "files", !.host = request.host,
                                         !.user = request.user,
                                         !.password = request.password,
                                         !.status = "running", !.met = Live # {}]
                      ELSE IF i \in Live THEN [job[i] EXCEPT !.met = TRUE]
                      ELSE job[i]]
        /\ dialog' = j
  BY DEF StartInstall
<1>2. seen' = FALSE /\ UNCHANGED <<askpass, staged, remote, agent, faults>>
  BY DEF StartInstall
<1>3. /\ TypeOK /\ \A i \in 1..Jobs: job[i] \in Job /\ JobInv(job[i])
  BY TypeFacts DEF Inv
<1>4. job[j].at = "off"
  <2>1. ~(j < j)
    BY InstallAssumption
  <2> QED BY <1>1, <2>1
<1>5. \A i \in 1..Jobs: i \in Live <=> Running(job[i])
  BY DEF Live, Running
<1>6. PICK q \in Job:
         /\ job'[j] = q /\ q.at = "files" /\ ~q.files /\ q.next = 1
         /\ q.status = "running" /\ q.cancelled = "no" /\ q.fault = {} /\ q.met = (Live # {})
  <2>1. /\ (Live # {}) \in BOOLEAN /\ 1 \in 1..Len(Files) /\ {"off", "files"} \subseteq Places
        /\ request.host \in Hosts \union {NoHost}
        /\ request.user \in BOOLEAN /\ request.password \in BOOLEAN
    BY FileFacts, InstallAssumption DEF Places
  <2> DEFINE q == [NoJob EXCEPT !.at = "files", !.host = request.host, !.user = request.user,
                       !.password = request.password, !.status = "running", !.met = Live # {}]
  <2>2. job'[j] = q
    BY <1>1
  <2>3. q \in Job
    BY <2>1 DEF NoJob, Job
  <2>4. /\ q.at = "files" /\ ~q.files /\ q.next = 1
        /\ q.status = "running" /\ q.cancelled = "no" /\ q.fault = {} /\ q.met = (Live # {})
    BY DEF NoJob
  <2> QED BY <2>2, <2>3, <2>4
<1>7. ASSUME NEW i \in 1..Jobs, i # j
      PROVE  /\ job'[i] \in Job
             /\ job[i].met \/ Running(job[i]) => job'[i].met
             /\ ~Running(job[i]) => job'[i] = job[i]
             /\ job'[i].at = job[i].at /\ job'[i].host = job[i].host
             /\ job'[i].user = job[i].user
             /\ job'[i].files = job[i].files /\ job'[i].next = job[i].next
             /\ job'[i].status = job[i].status /\ job'[i].cancelled = job[i].cancelled
             /\ job'[i].fault = job[i].fault
  <2>1. CASE Running(job[i])
    <3>1. job'[i] = [job[i] EXCEPT !.met = TRUE]
      BY <1>1, <1>5, <1>7, <2>1
    <3> QED BY <1>3, <2>1, <3>1 DEF Job
  <2>2. CASE ~Running(job[i])
    <3>1. job'[i] = job[i] /\ job[i].met \in BOOLEAN
      BY <1>1, <1>3, <1>5, <1>7, <2>2 DEF Job
    <3> QED BY <1>3, <2>2, <3>1
  <2> QED BY <2>1, <2>2
<1>8. TypeOK'
  <2>1. job' = [i \in 1..Jobs |-> job'[i]] /\ \A i \in 1..Jobs: job'[i] \in Job
    BY <1>1, <1>6, <1>7
  <2>2. job' \in [1..Jobs -> Job]
    BY <2>1
  <2>3. dialog' \in 0..Jobs
    <3>1. dialog' \in 1..Jobs
      BY <1>1
    <3> QED BY <3>1, InstallAssumption
  <2> QED BY <1>2, <1>3, <2>2, <2>3 DEF TypeOK
<1>9. \A i \in 1..Jobs: JobInv(job'[i])
  <2>1. JobInv(q)
    BY <1>6 DEF JobInv
  <2>2. ASSUME NEW i \in 1..Jobs, i # j
        PROVE  JobInv(job'[i])
    <3>1. CASE Running(job[i])
      BY <1>3, <1>7, <2>2, <3>1 DEF JobInv, Running
    <3>2. CASE ~Running(job[i])
      BY <1>3, <1>7, <2>2, <3>2
    <3> QED BY <3>1, <3>2
  <2> QED BY <1>6, <2>1, <2>2
<1>10. \A i \in 1..Jobs: i # j /\ Running(job'[i]) => job'[i].met /\ Running(job[i])
  BY <1>7 DEF Running
<1>11. MeetInv'
  BY <1>5, <1>6, <1>10 DEF MeetInv
<1>12. AloneInv'
  <2>1. Good(j, q, askpass', staged', remote', agent')
    BY <1>6 DEF Good
  <2> QED BY <1>6, <1>10, <2>1 DEF AloneInv
<1>13. FailureHasCause'
  <2>1. ASSUME NEW i \in 1..Jobs, job'[i].status = "failed"
        PROVE  Excused(job'[i])
    <3>1. i # j
      BY <1>6, <2>1
    <3>2. Excused(job[i])
      BY <1>7, <2>1, <3>1 DEF Excused, Inv, FailureHasCause
    <3> QED BY <1>7, <3>1, <3>2 DEF Excused
  <2> QED BY <2>1 DEF FailureHasCause, Excused
<1>14. DoneMeansInstalled'
  <2> SUFFICES ASSUME NEW i \in 1..Jobs, job'[i].status = "done", ~Installed(job'[i], agent')
               PROVE  \E k \in 1..Jobs: /\ k # i /\ job'[k].host = job'[i].host
                                        /\ job'[k].met \/ job'[k].fault # {}
    BY DEF DoneMeansInstalled, Installed
  <2>1. i # j
    BY <1>6
  <2>2. job[i].status = "done" /\ ~Installed(job[i], agent)
    BY <1>2, <1>7, <2>1 DEF Installed
  <2>3. PICK k \in 1..Jobs: /\ k # i /\ job[k].host = job[i].host
                            /\ job[k].met \/ job[k].fault # {}
    BY <2>2 DEF Inv, DoneMeansInstalled, Installed
  <2>4. k # j
    BY <1>3, <1>4, <2>3 DEF JobInv
  <2> QED BY <1>7, <2>1, <2>3, <2>4
<1>15. TidyInv'
  <2> SUFFICES ASSUME Orderly'
               PROVE  TidyInv'
    BY DEF TidyInv
  <2>1. \A i \in 1..Jobs: ~Running(job[i])
    BY <1>4, <1>7 DEF Orderly, Running
  <2>2. \A i \in 1..Jobs: i # j => job'[i] = job[i]
    BY <1>7, <2>1
  <2>3. job[j].fault = {} /\ q.fault = {} /\ ~job[j].met
    BY <1>3, <1>4, <1>6 DEF JobInv
  <2>4. Orderly
    BY <1>6, <2>2, <2>3 DEF Orderly, Hit
  <2>5. \A f \in FileSet, i \in 1..Jobs: ~Stages(job[i], f)
    BY <2>1 DEF Stages, Running
  <2>6. /\ askpass # NoHelper => Hit("local") # {}
        /\ \A f \in FileSet: staged[f] # "no" => Hit("local") # {}
        /\ \A h \in Hosts: remote[h] # NoDir =>
              \E i \in 1..Jobs: "rm" \in job[i].fault /\ job[i].host = h
    BY <2>1, <2>4, <2>5 DEF Inv, TidyInv
  <2>7. Hit("local") # {} => Hit("local")' # {}
    BY <1>6, <2>2, <2>3 DEF Hit
  <2>8. \A h \in Hosts: (\E i \in 1..Jobs: "rm" \in job[i].fault /\ job[i].host = h) =>
              \E i \in 1..Jobs: "rm" \in job'[i].fault /\ job'[i].host = h
    BY <2>2, <2>3
  <2> QED BY <1>2, <2>6, <2>7, <2>8 DEF TidyInv
<1> QED BY <1>8, <1>9, <1>11, <1>12, <1>13, <1>14, <1>15 DEF Inv

(* Of what the invariant says only the last look at stop and the causes of *)
(* a failure depend on the flag.                                           *)
LEMMA CancelInstallInv ==
  ASSUME Inv, CancelInstall
  PROVE  Inv'
<1>1. UNCHANGED <<dialog, seen, askpass, staged, remote, agent, faults>>
  BY DEF CancelInstall
<1>2. TypeOK /\ dialog \in 1..Jobs /\ \A i \in 1..Jobs: job[i] \in Job /\ JobInv(job[i])
  BY TypeFacts, InstallAssumption DEF Inv, TypeOK, CancelInstall
<1>3. PICK c \in {"early", "late"}:
         /\ job' = [job EXCEPT ![dialog].cancelled = c]
         /\ job[dialog].at = "script" => c = "late"
  BY DEF CancelInstall
<1>4. ASSUME NEW i \in 1..Jobs
      PROVE  /\ job'[i] \in Job /\ job'[i].at = job[i].at /\ job'[i].host = job[i].host
             /\ job'[i].user = job[i].user
             /\ job'[i].files = job[i].files /\ job'[i].next = job[i].next
             /\ job'[i].status = job[i].status /\ job'[i].fault = job[i].fault
             /\ job'[i].met = job[i].met
             /\ job'[i].cancelled = IF i = dialog THEN c ELSE job[i].cancelled
  <2>1. job \in [1..Jobs -> Job] /\ job[i] \in Job
    BY <1>2 DEF TypeOK
  <2>2. CASE i = dialog
    <3>1. job'[i] = [job[i] EXCEPT !.cancelled = c]
      BY <1>3, <2>1, <2>2
    <3> QED BY <2>1, <2>2, <3>1 DEF Job
  <2>3. CASE i # dialog
    BY <1>3, <2>1, <2>3
  <2> QED BY <2>2, <2>3
<1>5. TypeOK'
  <2>1. job' = [i \in 1..Jobs |-> job'[i]]
    BY <1>2, <1>3 DEF TypeOK
  <2>2. job' \in [1..Jobs -> Job]
    BY <1>4, <2>1
  <2> QED BY <1>1, <1>2, <2>2 DEF TypeOK
<1>6. \A i \in 1..Jobs: JobInv(job'[i])
  BY <1>2, <1>3, <1>4 DEF JobInv
<1>7. MeetInv'
  BY <1>4 DEF Inv, MeetInv, Running
<1>8. AloneInv'
  <2>1. ASSUME NEW i \in 1..Jobs, Good(i, job[i], askpass, staged, remote, agent)
        PROVE  Good(i, job'[i], askpass', staged', remote', agent')
    BY <1>1, <1>4, <2>1 DEF Good
  <2> QED BY <1>4, <2>1 DEF Inv, AloneInv, Running
<1>9. FailureHasCause'
  <2>1. \A i \in 1..Jobs: job[i].status = "failed" => Excused(job[i])
    BY DEF Inv, FailureHasCause, Excused
  <2>2. \A i \in 1..Jobs: job'[i].status = "failed" => Excused(job'[i])
    BY <1>3, <1>4, <2>1 DEF Excused
  <2> QED BY <2>2 DEF FailureHasCause, Excused
<1>10. DoneMeansInstalled'
  BY <1>1, <1>4 DEF Inv, DoneMeansInstalled
<1>11. TidyInv'
  <2> SUFFICES ASSUME Orderly' PROVE TidyInv'
    BY DEF TidyInv
  <2>1. Orderly /\ \A kind: Hit(kind)' = Hit(kind)
    BY <1>4 DEF Orderly, Hit
  <2>2. \A i \in 1..Jobs: /\ Running(job'[i]) <=> Running(job[i])
                          /\ CanReach(job'[i]) <=> CanReach(job[i])
                          /\ \A f: Stages(job'[i], f) <=> Stages(job[i], f)
    BY <1>4 DEF Running, CanReach, Stages
  <2> QED BY <1>1, <1>4, <2>1, <2>2 DEF Inv, TidyInv
<1> QED BY <1>5, <1>6, <1>7, <1>8, <1>9, <1>10, <1>11 DEF Inv

LEMMA CrashInv ==
  ASSUME Inv, Crash
  PROVE  Inv'
<1>1. /\ Live # {} /\ faults < MaxFaults /\ faults' = faults + 1 /\ dialog' = 0 /\ seen' = FALSE
      /\ job' = [j \in 1..Jobs |-> IF j \in Live
                                   THEN [job[j] EXCEPT !.at = "gone", !.fault = @ \union {"crash"}]
                                   ELSE job[j]]
      /\ UNCHANGED <<askpass, staged, remote, agent>>
  BY DEF Crash
<1>2. TypeOK /\ \A i \in 1..Jobs: job[i] \in Job /\ JobInv(job[i])
  BY TypeFacts DEF Inv
<1>3. ASSUME NEW i \in 1..Jobs
      PROVE  /\ job'[i] \in Job /\ job'[i].host = job[i].host /\ job'[i].files = job[i].files
             /\ job'[i].user = job[i].user
             /\ job'[i].status = job[i].status /\ job'[i].cancelled = job[i].cancelled
             /\ job'[i].met = job[i].met /\ ~Running(job'[i])
             /\ job[i].fault \subseteq job'[i].fault
             /\ IF Running(job[i]) THEN job'[i].at = "gone" /\ "crash" \in job'[i].fault
                ELSE job'[i] = job[i]
  <2>1. job[i] \in Job /\ "gone" \in Places /\ (i \in Live <=> Running(job[i]))
    BY <1>2, PlaceFacts DEF Live, Running
  <2>2. CASE Running(job[i])
    <3>1. job'[i] = [job[i] EXCEPT !.at = "gone", !.fault = job[i].fault \union {"crash"}]
      BY <1>1, <2>1, <2>2
    <3>2. job[i].fault \union {"crash"} \in FaultSets
      BY <2>1 DEF Job, FaultSets, Faults
    <3>3. job'[i] \in Job
      BY <2>1, <3>1, <3>2 DEF Job, FaultSets, Faults
    <3>4. /\ job'[i].at = "gone" /\ job'[i].fault = job[i].fault \union {"crash"}
          /\ job'[i].host = job[i].host /\ job'[i].files = job[i].files
          /\ job'[i].user = job[i].user /\ job'[i].met = job[i].met
          /\ job'[i].status = job[i].status /\ job'[i].cancelled = job[i].cancelled
      BY <2>1, <3>1 DEF Job
    <3> QED BY <2>2, <3>3, <3>4 DEF Running
  <2>3. CASE ~Running(job[i])
    BY <1>1, <2>1, <2>3
  <2> QED BY <2>2, <2>3
<1>4. TypeOK'
  <2>1. job' = [i \in 1..Jobs |-> job'[i]]
    BY <1>1
  <2>2. job' \in [1..Jobs -> Job]
    BY <1>3, <2>1
  <2>3. faults' \in 0..MaxFaults
    BY <1>1, <1>2, FaultsCount
  <2>4. dialog' \in 0..Jobs /\ seen' \in BOOLEAN
    <3>1. dialog' = 0 /\ seen' = FALSE
      BY <1>1
    <3>2. 0 \in 0..Jobs
      BY InstallAssumption
    <3> QED BY <3>1, <3>2
  <2> QED BY <1>1, <1>2, <2>2, <2>3, <2>4 DEF TypeOK
<1>5. \A i \in 1..Jobs: JobInv(job'[i])
  BY <1>2, <1>3 DEF JobInv
<1>6. MeetInv' /\ AloneInv'
  BY <1>3 DEF MeetInv, AloneInv
<1>7. FailureHasCause'
  <2>1. \A i \in 1..Jobs: job[i].status = "failed" => Excused(job[i])
    BY DEF Inv, FailureHasCause, Excused
  <2>2. \A i \in 1..Jobs: job'[i].status = "failed" => Excused(job'[i])
    BY <1>3, <2>1 DEF Excused
  <2> QED BY <2>2 DEF FailureHasCause, Excused
<1>8. DoneMeansInstalled'
  <2> SUFFICES ASSUME NEW i \in 1..Jobs, job'[i].status = "done", ~Installed(job'[i], agent')
               PROVE  \E k \in 1..Jobs: /\ k # i /\ job'[k].host = job'[i].host
                                        /\ job'[k].met \/ job'[k].fault # {}
    BY DEF DoneMeansInstalled, Installed
  <2>1. job[i].status = "done" /\ ~Installed(job[i], agent)
    BY <1>1, <1>3 DEF Installed
  <2>2. PICK k \in 1..Jobs: /\ k # i /\ job[k].host = job[i].host
                            /\ job[k].met \/ job[k].fault # {}
    BY <2>1 DEF Inv, DoneMeansInstalled, Installed
  <2>3. job'[k].met \/ job'[k].fault # {}
    BY <1>3, <2>2
  <2> QED BY <1>3, <2>2, <2>3
<1>9. TidyInv'
  <2>1. PICK i \in 1..Jobs: Running(job[i])
    BY <1>1 DEF Live, Running
  <2>2. Hit("crash")' # {}
    BY <1>3, <2>1 DEF Hit
  <2> QED BY <2>2 DEF TidyInv, Orderly
<1> QED BY <1>4, <1>5, <1>6, <1>7, <1>8, <1>9 DEF Inv

(* LetGo, PollInstaller and a stutter change neither a job nor a file.     *)
LEMMA DialogInv ==
  ASSUME Inv, UNCHANGED <<job, askpass, staged, remote, agent, faults>>,
         dialog' \in 0..Jobs, seen' \in BOOLEAN
  PROVE  Inv'
<1>1. TypeOK'
  BY DEF Inv, TypeOK
<1>2. MeetInv' /\ AloneInv'
  BY DEF Inv, MeetInv, AloneInv
<1>3. FailureHasCause' /\ DoneMeansInstalled'
  BY DEF Inv, FailureHasCause, DoneMeansInstalled
<1>4. TidyInv'
  BY DEF Inv, TidyInv, Orderly, Hit
<1> QED BY <1>1, <1>2, <1>3, <1>4 DEF Inv

-----------------------------------------------------------------------------
LEMMA InvInit == Init => Inv
<1> SUFFICES ASSUME Init PROVE Inv
  OBVIOUS
<1>1. NoJob \in Job
  BY FileFacts DEF NoJob, Job, Places
<1>2. \A j \in 1..Jobs: /\ job[j].at = "off" /\ ~job[j].met /\ job[j].fault = {}
                        /\ job[j].status = "idle"
  BY DEF Init, NoJob
<1>3. TypeOK
  <2>1. job \in [1..Jobs -> Job]
    BY <1>1 DEF Init
  <2>2. staged \in Staged
    BY DEF Init, Staged
  <2>3. remote \in [Hosts -> [there: BOOLEAN, files: Staged]]
    BY DEF Init, Staged, NoDir
  <2>4. agent \in [Hosts -> Agents]
    BY DEF Init, Agents
  <2>5. dialog \in 0..Jobs /\ faults \in 0..MaxFaults
    BY InstallAssumption DEF Init
  <2>6. askpass \in Helper
    BY InstallAssumption DEF Init, NoHelper, Helper
  <2> QED BY <2>1, <2>2, <2>3, <2>4, <2>5, <2>6 DEF Init, TypeOK
<1>4. \A j \in 1..Jobs: JobInv(job[j]) /\ ~Running(job[j])
  BY <1>2 DEF JobInv, Running
<1>5. /\ askpass = NoHelper /\ \A f \in FileSet: staged[f] = "no"
      /\ \A h \in Hosts: remote[h] = NoDir
  BY DEF Init
<1>6. MeetInv /\ AloneInv /\ TidyInv
  BY <1>4, <1>5 DEF MeetInv, AloneInv, TidyInv
<1>7. FailureHasCause /\ DoneMeansInstalled
  BY <1>2 DEF FailureHasCause, DoneMeansInstalled
<1> QED BY <1>3, <1>4, <1>6, <1>7 DEF Inv

LEMMA InvNext == Inv /\ [Next]_vars => Inv'
<1> SUFFICES ASSUME Inv, [Next]_vars PROVE Inv'
  OBVIOUS
<1>1. CASE StartInstall
  BY <1>1, StartInstallInv
<1>2. CASE CancelInstall
  BY <1>2, CancelInstallInv
<1>3. CASE LetGo \/ PollInstaller \/ UNCHANGED vars
  <2>1. UNCHANGED <<job, askpass, staged, remote, agent, faults>>
    BY <1>3 DEF LetGo, PollInstaller, vars
  <2>2. dialog \in 0..Jobs /\ seen \in BOOLEAN /\ 0 \in 0..Jobs
    BY InstallAssumption DEF Inv, TypeOK
  <2>3. dialog' \in 0..Jobs /\ seen' \in BOOLEAN
    BY <1>3, <2>2 DEF LetGo, PollInstaller, vars
  <2> QED BY <2>1, <2>3, DialogInv
<1>4. CASE Crash
  BY <1>4, CrashInv
<1>5. ASSUME NEW j \in 1..Jobs, Step(j)
      PROVE  Inv'
  BY <1>5, CreateFilesInv, CheckHostInv, ProbeInv, MakeDirInv, WriteInv, SendInv,
     SendAgainInv, RunScriptInv, VerifyInv, CleanInv DEF Step
<1> QED BY <1>1, <1>2, <1>3, <1>4, <1>5 DEF Next

LEMMA Always == Spec => []Inv
<1> QED BY InvInit, InvNext, PTL DEF Spec

-----------------------------------------------------------------------------
(***************************************************************************)
(* The jobs of run and the files they share always have the types that     *)
(* TypeOK gives.                                                           *)
(***************************************************************************)
THEOREM InstallTypeCorrect == Spec => []TypeOK
<1>1. Inv => TypeOK
  BY DEF Inv
<1> QED BY <1>1, Always, PTL

(***************************************************************************)
(* run and install: whatever earlier installations have left behind, a job *)
(* with the right credentials that meets no other, is not cancelled and    *)
(* hit by no failing command or write never reports a failure.             *)
(***************************************************************************)
THEOREM FailuresHaveCause == Spec => []FailureHasCause
<1>1. Inv => FailureHasCause
  BY DEF Inv
<1> QED BY <1>1, Always, PTL

(***************************************************************************)
(* install's last check and install-agent.sh: a node whose installation    *)
(* was reported as done has the agent of this applet, or one of unknown    *)
(* version that could not be stopped or got there while jobs met, until    *)
(* another job for the node meets one or is hit by a fault.                *)
(***************************************************************************)
THEOREM DoneStaysInstalled == Spec => []DoneMeansInstalled
<1>1. Inv => DoneMeansInstalled
  BY DEF Inv
<1> QED BY <1>1, Always, PTL

(***************************************************************************)
(* PasswordFiles, push_file and run: what jobs that ran one at a time      *)
(* leave behind, on any way out of install, is due to a file of the applet *)
(* that could not be written, or on a node to an rm that failed there.     *)
(***************************************************************************)
THEOREM NothingIsLeft == Spec => []NothingLeft
<1>1. ASSUME Inv, OneByOne
      PROVE  /\ askpass # NoHelper \/ (\E f \in FileSet: staged[f] # "no") => Hit("local") # {}
             /\ \A h \in Hosts: remote[h] # NoDir => \E j \in Hit("rm"): job[j].host = h
  <2>1. Orderly /\ \A j \in 1..Jobs: ~Running(job[j])
    BY <1>1 DEF OneByOne, Orderly, Running
  <2>2. \A f \in FileSet, j \in 1..Jobs: ~Stages(job[j], f)
    BY <2>1 DEF Running, Stages
  <2>3. /\ askpass # NoHelper => Hit("local") # {}
        /\ \A f \in FileSet: staged[f] # "no" => Hit("local") # {}
        /\ \A h \in Hosts: remote[h] # NoDir =>
              \E i \in 1..Jobs: "rm" \in job[i].fault /\ job[i].host = h
    BY <1>1, <2>1, <2>2 DEF Inv, TidyInv
  <2> QED BY <2>3 DEF Hit
<1>2. Inv => NothingLeft
  BY <1>1 DEF NothingLeft
<1> QED BY <1>2, Always, PTL

(***************************************************************************)
(* CancelInstall: a job that is cancelled before install's last look at    *)
(* the stop flag never runs install-agent.sh on the node.                  *)
(***************************************************************************)
THEOREM CancelledNeverRuns == Spec => CancelledInTime
<1>1. Inv /\ [Next]_vars => [\A j \in 1..Jobs: RunScript(j) => job[j].cancelled # "early"]_vars
  BY DEF Inv, JobInv, RunScript
<1> QED BY <1>1, Always, PTL DEF Spec, CancelledInTime

-----------------------------------------------------------------------------
(* NodeInstall implements InstallDialog.                                   *)

(* A job that was started has a status, the dialog's job was started, and  *)
(* what the dialog has seen is its end.                                    *)
ShownInv ==
    /\ \A j \in 1..Jobs: job[j].at # "off" => job[j].status # "idle"
    /\ dialog # 0 => job[dialog].at # "off"
    /\ seen => dialog # 0 /\ job[dialog].status \in {"done", "failed"}

(* What a step of job j can do to what the dialog shows.                   *)
ReportOf(j) ==
    \/ job'[j].status = job[j].status
    \/ job[j].status = "running" /\ job'[j].status = "failed"
    \/ /\ job[j].status = "running" /\ job'[j].status = "done"
       /\ job[j].host \in Hosts /\ Passes(job[j].host) /\ agent' = agent

AgentOf(j) ==
    \/ agent' = agent
    \/ job[j].host \in Hosts /\ \A h \in Hosts \ {job[j].host}: agent'[h] = agent[h]

Works(j) ==
    /\ UNCHANGED <<dialog, seen>>
    /\ \A i \in 1..Jobs \ {j}: job'[i] = job[i]
    /\ job[j].at # "off" /\ job'[j].at # "off" /\ job'[j].host = job[j].host
    /\ ReportOf(j) /\ AgentOf(j)

LEMMA RunningIs ==
  ASSUME Inv, ShownInv, NEW j \in 1..Jobs, job[j].at \notin {"off", "clean", "gone"}
  PROVE  job[j].status = "running"
<1>1. job[j] \in Job /\ JobInv(job[j])
  BY TypeFacts DEF Inv
<1>2. job[j].status \in {"idle", "running", "done", "failed"}
  BY <1>1 DEF Job
<1> QED BY <1>1, <1>2 DEF ShownInv, JobInv

(* The two ways in which most steps end.                                   *)
LEMMA GoesWorks ==
  ASSUME Inv, NEW j \in 1..Jobs, job[j].at # "off", NEW at \in Places \ {"off"},
         Goes(j, at), UNCHANGED <<dialog, seen>>, AgentOf(j)
  PROVE  Works(j)
<1>1. TypeOK
  BY DEF Inv
<1>2. PICK q \in Job: /\ job' = [job EXCEPT ![j] = q] /\ q.at = at
                      /\ q.host = job[j].host /\ q.status = job[j].status
  BY <1>1, GoesIs
<1> QED BY <1>1, <1>2 DEF Works, ReportOf, TypeOK

LEMMA FailsWorks ==
  ASSUME Inv, ShownInv, NEW j \in 1..Jobs, job[j].at \notin {"off", "clean", "gone"},
         NEW fault \in FaultSets, job' = [job EXCEPT ![j] = Failed(j, fault)],
         UNCHANGED <<dialog, seen>>, AgentOf(j)
  PROVE  Works(j)
<1>1. TypeOK /\ job[j].status = "running"
  BY RunningIs DEF Inv
<1>2. PICK q \in Job: /\ q = Failed(j, fault) /\ q.status = "failed" /\ q.at = "clean"
                      /\ q.host = job[j].host
  BY <1>1, FailedIs
<1> QED BY <1>1, <1>2 DEF Works, ReportOf, TypeOK

LEMMA StepWorks ==
  ASSUME Inv, ShownInv, NEW j \in 1..Jobs, Step(j)
  PROVE  Works(j)
<1>1. TypeOK /\ job \in [1..Jobs -> Job] /\ job[j] \in Job /\ JobInv(job[j])
      /\ Places \ {"off"} = {"files", "host", "probe", "mkdir", "write", "whole", "send",
                             "again", "script", "verify", "clean", "gone"}
  BY TypeFacts DEF Inv, TypeOK, Places
<1>2. job[j].fault \in FaultSets
  BY <1>1 DEF Job, FaultSets, Faults
<1>3. ASSUME Fails(j) \/ \E kind \in Faults: Breaks(j, kind),
             job[j].at \notin {"off", "clean", "gone"},
             UNCHANGED <<dialog, seen>>, AgentOf(j)
      PROVE  Works(j)
  <2>1. CASE Fails(j)
    <3>1. job' = [job EXCEPT ![j] = Failed(j, job[j].fault)]
      BY <1>1, <2>1, FailsIs
    <3> QED BY <1>2, <1>3, <3>1, FailsWorks
  <2>2. CASE \E kind \in Faults: Breaks(j, kind)
    <3>1. PICK kind \in Faults: Breaks(j, kind)
      BY <2>2
    <3>2. PICK fault \in FaultSets: fault = job[j].fault \union {kind}
      BY <1>1, <3>1, FailsIs
    <3>3. job' = [job EXCEPT ![j] = Failed(j, fault)]
      BY <1>1, <3>1, <3>2, FailsIs
    <3> QED BY <1>3, <3>3, FailsWorks
  <2> QED BY <1>3, <2>1, <2>2
<1>4. "local" \in Faults /\ "ssh" \in Faults /\ (Fault(j) => Breaks(j, "ssh"))
  BY DEF Faults, Fault
<1>5. ASSUME NEW at \in Places \ {"off"}, NEW kind \in Faults,
             job' = [job EXCEPT ![j].at = at, ![j].fault = @ \union {kind}],
             job[j].at # "off", UNCHANGED <<dialog, seen>>, AgentOf(j)
      PROVE  Works(j)
  <2>1. job' = [job EXCEPT ![j] = [job[j] EXCEPT !.at = at, !.fault = @ \union {kind}]]
    BY <1>1, <1>5 DEF Job
  <2>2. /\ \A i \in 1..Jobs \ {j}: job'[i] = job[i]
        /\ job'[j].at = at /\ job'[j].host = job[j].host /\ job'[j].status = job[j].status
    BY <1>1, <2>1 DEF Job
  <2> QED BY <1>5, <2>2 DEF Works, ReportOf
<1>6. CASE CreateFiles(j)
  <2>1. /\ UNCHANGED <<dialog, seen>> /\ AgentOf(j) /\ job[j].at = "files"
    BY <1>6 DEF CreateFiles, AgentOf
  <2>2. CASE job' = [job EXCEPT ![j].files = job[j].password, ![j].at = "host"]
    <3>1. job' = [job EXCEPT ![j] = [job[j] EXCEPT !.files = job[j].password, !.at = "host"]]
      BY <1>1, <2>2 DEF Job
    <3>2. /\ \A i \in 1..Jobs \ {j}: job'[i] = job[i]
          /\ job'[j].at = "host" /\ job'[j].host = job[j].host
          /\ job'[j].status = job[j].status
      BY <1>1, <3>1 DEF Job
    <3> QED BY <2>1, <3>2 DEF Works, ReportOf
  <2>3. CASE job' = [job EXCEPT ![j].fault = @ \union {"local"}, ![j].at = "host"]
    <3>1. job' = [job EXCEPT ![j].at = "host", ![j].fault = @ \union {"local"}]
      <4>1. job' = [job EXCEPT ![j] = [job[j] EXCEPT !.fault = @ \union {"local"}, !.at = "host"]]
        BY <1>1, <2>3
      <4>2. [job[j] EXCEPT !.fault = @ \union {"local"}, !.at = "host"]
               = [job[j] EXCEPT !.at = "host", !.fault = @ \union {"local"}]
        BY <1>1 DEF Job
      <4>3. [job EXCEPT ![j].at = "host", ![j].fault = @ \union {"local"}]
               = [job EXCEPT ![j] = [job[j] EXCEPT !.at = "host", !.fault = @ \union {"local"}]]
        BY <1>1
      <4> QED BY <4>1, <4>2, <4>3
    <3> QED BY <1>1, <1>4, <1>5, <2>1, <3>1
  <2> QED BY <1>6, <2>2, <2>3 DEF CreateFiles
<1>7. CASE CheckHost(j)
  <2>1. UNCHANGED <<dialog, seen>> /\ AgentOf(j) /\ job[j].at = "host"
        /\ (Fails(j) \/ Goes(j, "probe"))
    BY <1>7 DEF CheckHost, AgentOf
  <2> QED BY <1>1, <1>3, <2>1, GoesWorks
<1>8. CASE Probe(j)
  <2>1. UNCHANGED <<dialog, seen>> /\ AgentOf(j) /\ job[j].at = "probe"
        /\ (Fails(j) \/ Breaks(j, "ssh") \/ Goes(j, "mkdir"))
    BY <1>4, <1>8 DEF Probe, AgentOf, Fault
  <2> QED BY <1>1, <1>3, <1>4, <2>1, GoesWorks
<1>9. CASE MakeDir(j)
  <2>1. UNCHANGED <<dialog, seen>> /\ AgentOf(j) /\ job[j].at = "mkdir"
        /\ (Fails(j) \/ Breaks(j, "ssh") \/ Goes(j, "write"))
    BY <1>4, <1>9 DEF MakeDir, AgentOf, Fault
  <2> QED BY <1>1, <1>3, <1>4, <2>1, GoesWorks
<1>10. CASE TruncateStaged(j)
  <2>1. UNCHANGED <<dialog, seen>> /\ AgentOf(j) /\ job[j].at = "write"
        /\ (Breaks(j, "local") \/ Goes(j, "whole"))
    BY <1>10 DEF TruncateStaged, AgentOf
  <2> QED BY <1>1, <1>3, <1>4, <2>1, GoesWorks
<1>11. CASE FillStaged(j)
  <2>1. UNCHANGED <<dialog, seen>> /\ AgentOf(j) /\ job[j].at = "whole"
        /\ (Breaks(j, "local") \/ Goes(j, "send"))
    BY <1>11 DEF FillStaged, AgentOf
  <2> QED BY <1>1, <1>3, <1>4, <2>1, GoesWorks
<1>12. CASE Send(j) \/ SendAgain(j)
  <2>1. UNCHANGED <<dialog, seen>> /\ AgentOf(j) /\ job[j].at \in {"send", "again"}
    BY <1>12 DEF Send, SendAgain, AgentOf
  <2>2. \/ job' = [job EXCEPT ![j] = Sent(j)]
        \/ Fails(j)
        \/ Breaks(j, "ssh")
        \/ Goes(j, "again")
    BY <1>12 DEF Send, SendAgain, Delivers
  <2>3. job[j].status = "running"
    BY <2>1, RunningIs
  <2>4. CASE job' = [job EXCEPT ![j] = Sent(j)]
    <3>1. /\ Sent(j).at # "off" /\ Sent(j).host = job[j].host
          /\ Sent(j).status \in {job[j].status, "failed"}
      BY <1>1, <2>1 DEF Sent, Job
    <3>2. job'[j] = Sent(j) /\ \A i \in 1..Jobs \ {j}: job'[i] = job[i]
      BY <1>1, <2>4
    <3> QED BY <2>1, <2>3, <3>1, <3>2 DEF Works, ReportOf
  <2> QED BY <1>1, <1>3, <1>4, <2>1, <2>2, <2>4, GoesWorks
<1>13. CASE RunScript(j)
  <2>1. UNCHANGED <<dialog, seen>> /\ job[j].at = "script" /\ job[j].host \in Hosts
    BY <1>1, <1>13 DEF RunScript, JobInv
  <2>2. AgentOf(j)
    <3>1. agent' = agent \/ \E left: agent' = [agent EXCEPT ![job[j].host] = left]
      BY <1>13 DEF RunScript
    <3> QED BY <1>1, <2>1, <3>1 DEF AgentOf, TypeOK
  <2>3. \/ Goes(j, "verify")
        \/ Fails(j)
        \/ Breaks(j, "ssh")
        \/ job' = [job EXCEPT ![j].at = "verify", ![j].fault = @ \union {"ssh"}]
    BY <1>13 DEF RunScript
  <2> QED BY <1>1, <1>3, <1>4, <1>5, <2>1, <2>2, <2>3, GoesWorks
<1>14. CASE Verify(j)
  <2>1. UNCHANGED <<dialog, seen, agent>> /\ AgentOf(j) /\ job[j].at = "verify"
    BY <1>14 DEF Verify, AgentOf, Fault
  <2>2. \/ /\ Passes(job[j].host)
           /\ job' = [job EXCEPT ![j].status = "done", ![j].at = "clean"]
        \/ Fails(j)
        \/ Breaks(j, "ssh")
    BY <1>4, <1>14 DEF Verify
  <2>3. CASE /\ Passes(job[j].host)
             /\ job' = [job EXCEPT ![j].status = "done", ![j].at = "clean"]
    <3>1. /\ \A i \in 1..Jobs \ {j}: job'[i] = job[i]
          /\ job'[j].at = "clean" /\ job'[j].host = job[j].host /\ job'[j].status = "done"
      BY <1>1, <2>3 DEF Job
    <3>2. job[j].status = "running" /\ job[j].host \in Hosts
      BY <1>1, <2>1, RunningIs DEF JobInv
    <3> QED BY <2>1, <2>3, <3>1, <3>2 DEF Works, ReportOf
  <2> QED BY <1>3, <1>4, <2>1, <2>2, <2>3
<1>15. CASE Clean(j)
  <2>1. UNCHANGED <<dialog, seen>> /\ AgentOf(j) /\ job[j].at = "clean"
    BY <1>15 DEF Clean, AgentOf
  <2>2. \/ Goes(j, "gone")
        \/ job' = [job EXCEPT ![j].at = "gone", ![j].fault = @ \union {"rm"}]
    BY <1>15 DEF Clean
  <2>3. "rm" \in Faults
    BY DEF Faults
  <2> QED BY <1>1, <1>5, <2>1, <2>2, <2>3, GoesWorks
<1> QED BY <1>6, <1>7, <1>8, <1>9, <1>10, <1>11, <1>12, <1>13, <1>14, <1>15 DEF Step

LEMMA ShownInit == Init => ShownInv
BY DEF Init, NoJob, ShownInv

LEMMA ShownNext ==
  ASSUME Inv, ShownInv, [Next]_vars
  PROVE  ShownInv'
<1>1. /\ TypeOK /\ job \in [1..Jobs -> Job] /\ dialog \in 0..Jobs
      /\ \A i \in 1..Jobs: job[i] \in Job
      /\ \A i \in 0..Jobs: i # 0 => i \in 1..Jobs
  BY TypeFacts, InstallAssumption DEF Inv, TypeOK
<1>2. CASE StartInstall
  <2>1. PICK j \in 1..Jobs, request \in Requests:
          /\ job' = [i \in 1..Jobs |->
                        IF i = j THEN [NoJob EXCEPT !.at = "files", !.host = request.host,
                                           !.user = request.user,
                                           !.password = request.password,
                                           !.status = "running", !.met = Live # {}]
                        ELSE IF i \in Live THEN [job[i] EXCEPT !.met = TRUE]
                        ELSE job[i]]
          /\ dialog' = j
    BY <1>2 DEF StartInstall
  <2>2. job'[j].at = "files" /\ job'[j].status = "running"
    BY <2>1 DEF NoJob
  <2>3. \A i \in 1..Jobs: i # j => job'[i].at = job[i].at /\ job'[i].status = job[i].status
    BY <1>1, <2>1 DEF Job
  <2>4. seen' = FALSE
    BY <1>2 DEF StartInstall
  <2> QED BY <2>1, <2>2, <2>3, <2>4 DEF ShownInv
<1>3. CASE CancelInstall
  <2>1. /\ UNCHANGED <<dialog, seen>> /\ dialog \in 1..Jobs
        /\ \E c: job' = [job EXCEPT ![dialog].cancelled = c]
    BY <1>1, <1>3 DEF CancelInstall
  <2>2. \A i \in 1..Jobs: job'[i].at = job[i].at /\ job'[i].status = job[i].status
    BY <1>1, <2>1 DEF Job
  <2> QED BY <2>1, <2>2 DEF ShownInv
<1>4. CASE LetGo \/ PollInstaller \/ UNCHANGED vars
  BY <1>4 DEF LetGo, PollInstaller, vars, ShownInv
<1>5. CASE Crash
  <2>1. dialog' = 0 /\ seen' = FALSE
    BY <1>5 DEF Crash
  <2>2. \A i \in 1..Jobs: /\ job'[i].status = job[i].status
                          /\ job'[i].at = job[i].at \/ job[i].at # "off"
    BY <1>1, <1>5 DEF Crash, Live, Job
  <2> QED BY <2>1, <2>2 DEF ShownInv
<1>6. ASSUME NEW j \in 1..Jobs, Step(j)
      PROVE  ShownInv'
  <2>1. Works(j)
    BY <1>6, StepWorks
  <2>2. \A i \in 1..Jobs: \/ job'[i] = job[i]
                          \/ i = j /\ job[i].at # "off" /\ job'[i].at # "off" /\ ReportOf(i)
    BY <2>1 DEF Works
  <2> QED BY <1>1, <2>1, <2>2 DEF Works, ReportOf, ShownInv
<1> QED BY <1>2, <1>3, <1>4, <1>5, <1>6 DEF Next

(* The mapping.                                                            *)
Current == {h \in Hosts: Passes(h)}
Place == IF Shown = "running" THEN job[dialog].host ELSE NoHost

DialogStep == [Dialog!DialogNext]_(Dialog!dialogVars)

LEMMA DialogVarsAre ==
  UNCHANGED <<Place, Shown, dialog = 0 \/ seen, Current>> => DialogStep
BY DEF DialogStep, Dialog!dialogVars, Place, Current

CurrentAt(h) == h \in Hosts /\ Current' \in {Current, Current \union {h}, Current \ {h}}

(* A step that touches the agents of one host at most.                     *)
LEMMA CurrentOf ==
  ASSUME NEW h \in Hosts, \A x \in Hosts \ {h}: agent'[x] = agent[x]
  PROVE  CurrentAt(h)
<1>1. /\ Current' = {x \in Hosts: agent'[x] \in {"new", "mute"}}
      /\ Current = {x \in Hosts: agent[x] \in {"new", "mute"}}
  BY DEF Current, Passes
<1>2. CASE agent'[h] \in {"new", "mute"}
  <2>1. Current' = Current \union {h}
    BY <1>1, <1>2
  <2> QED BY <2>1 DEF CurrentAt
<1>3. CASE agent'[h] \notin {"new", "mute"}
  <2>1. Current' = Current \ {h}
    BY <1>1, <1>3
  <2> QED BY <2>1 DEF CurrentAt
<1> QED BY <1>2, <1>3

(* A step of a job is none of the dialog, or an end of what it shows.      *)
LEMMA JobStepMaps ==
  ASSUME Inv, ShownInv, NEW j \in 1..Jobs, Step(j)
  PROVE  DialogStep
<1>1. Works(j) /\ job[j] \in Job /\ 0 \notin 1..Jobs
  BY StepWorks, TypeFacts, InstallAssumption DEF Inv
<1>2. /\ UNCHANGED <<dialog, seen>> /\ (dialog = 0 \/ seen)' = (dialog = 0 \/ seen)
      /\ job'[j].host = job[j].host
  BY <1>1 DEF Works
<1>3. CASE dialog # j \/ job'[j].status = job[j].status
  <2>1. Shown' = Shown /\ Place' = Place
    <3>1. CASE dialog = 0
      BY <1>2, <3>1 DEF Shown, Place
    <3>2. CASE dialog # 0
      <4>1. dialog \in 1..Jobs
        BY <3>2, InstallAssumption DEF Inv, TypeOK
      <4>2. job'[dialog].status = job[dialog].status /\ job'[dialog].host = job[dialog].host
        BY <1>1, <1>2, <1>3, <4>1 DEF Works
      <4> QED BY <1>2, <3>2, <4>2 DEF Shown, Place
    <3> QED BY <3>1, <3>2
  <2>2. CASE agent' = agent
    BY <1>2, <2>1, <2>2, DialogVarsAre DEF Current, Passes
  <2>3. CASE agent' # agent
    <3>1. job[j].host \in Hosts /\ CurrentAt(job[j].host)
      BY <1>1, <2>3, CurrentOf DEF Works, AgentOf
    <3>2. Dialog!Elsewhere
      BY <1>2, <2>1, <3>1 DEF Dialog!Elsewhere, Dialog!OnlyAt, CurrentAt, Current, Place
    <3> QED BY <3>2 DEF DialogStep, Dialog!DialogNext
  <2> QED BY <2>2, <2>3
<1>4. CASE dialog = j /\ job'[j].status # job[j].status
  <2>1. /\ job[j].status = "running" /\ Shown = "running" /\ Place = job[j].host
        /\ \/ job'[j].status = "failed"
           \/ /\ job'[j].status = "done" /\ job[j].host \in Hosts
              /\ Passes(job[j].host) /\ agent' = agent
    BY <1>1, <1>4 DEF Works, ReportOf, Shown, Place
  <2>2. Place' = NoHost /\ Shown' = IF job'[j].status = "done" THEN "ok" ELSE "failed"
    BY <1>1, <1>2, <1>4, <2>1 DEF Shown, Place
  <2>3. agent' = agent => Current' = Current
    BY DEF Current, Passes
  <2>4. CASE job'[j].status = "failed"
    <3>1. CurrentAt(job[j].host) \/ Current' = Current
      BY <1>1, <2>3, CurrentOf DEF Works, AgentOf
    <3>2. Dialog!Ends
      BY <1>2, <2>1, <2>2, <2>4, <3>1 DEF Dialog!Ends, Dialog!OnlyAt, CurrentAt, Current, Place
    <3> QED BY <3>2 DEF DialogStep, Dialog!DialogNext
  <2>5. CASE job'[j].status = "done"
    <3>1. job[j].host \in Current' /\ Current' = Current
      BY <2>1, <2>3, <2>5 DEF Current
    <3>2. CurrentAt(job[j].host)
      BY <2>1, <2>5, <3>1 DEF CurrentAt
    <3>3. Dialog!Ends
      BY <1>2, <2>1, <2>2, <2>5, <3>1, <3>2 DEF Dialog!Ends, Dialog!OnlyAt, CurrentAt, Current, Place
    <3> QED BY <3>3 DEF DialogStep, Dialog!DialogNext
  <2> QED BY <2>1, <2>4, <2>5
<1> QED BY <1>3, <1>4

LEMMA DialogNextMaps ==
  ASSUME Inv, ShownInv, [Next]_vars
  PROVE  DialogStep
<1>1. /\ TypeOK /\ job \in [1..Jobs -> Job]
      /\ \A i \in 1..Jobs: job[i] \in Job
      /\ dialog = 0 \/ dialog \in 1..Jobs
  BY TypeFacts, InstallAssumption DEF Inv, TypeOK
<1>2. CASE StartInstall
  <2>1. PICK j \in 1..Jobs, request \in Requests:
          /\ job' = [i \in 1..Jobs |->
                        IF i = j THEN [NoJob EXCEPT !.at = "files", !.host = request.host,
                                           !.user = request.user,
                                           !.password = request.password,
                                           !.status = "running", !.met = Live # {}]
                        ELSE IF i \in Live THEN [job[i] EXCEPT !.met = TRUE]
                        ELSE job[i]]
          /\ dialog' = j
    BY <1>2 DEF StartInstall
  <2>2. job'[j].host = request.host /\ job'[j].status = "running"
    <3> DEFINE q == [NoJob EXCEPT !.at = "files", !.host = request.host,
                         !.user = request.user, !.password = request.password,
                         !.status = "running", !.met = Live # {}]
    <3>1. job'[j] = q
      BY <2>1
    <3> QED BY <3>1 DEF NoJob
  <2>7. j # 0
    BY InstallAssumption
  <2>3. (dialog = 0 \/ seen) /\ seen' = FALSE /\ agent' = agent
    BY <1>2 DEF StartInstall
  <2>4. Shown' = "running" /\ Place' = request.host /\ Current' = Current
    BY <2>1, <2>2, <2>3, <2>7 DEF Shown, Place, Current, Passes
  <2>5. ~(dialog = 0 \/ seen)'
    <3>1. dialog' # 0 /\ seen' = FALSE
      BY <2>1, <2>3, <2>7
    <3> QED BY <3>1
  <2>6. Dialog!Begin
    <3>1. request.host \in Hosts \union {NoHost}
      BY InstallAssumption
    <3> QED BY <2>3, <2>4, <2>5, <3>1 DEF Dialog!Begin, Place, Current
  <2> QED BY <2>6 DEF DialogStep, Dialog!DialogNext
<1>3. CASE CancelInstall
  <2>1. /\ UNCHANGED <<dialog, seen, agent>> /\ dialog \in 1..Jobs
        /\ \E c: job' = [job EXCEPT ![dialog].cancelled = c]
    BY <1>1, <1>3 DEF CancelInstall
  <2>2. job'[dialog].host = job[dialog].host /\ job'[dialog].status = job[dialog].status
    BY <1>1, <2>1 DEF Job
  <2>3. Shown' = Shown /\ Place' = Place /\ Current' = Current
    BY <2>1, <2>2 DEF Shown, Place, Current, Passes
  <2> QED BY <2>1, <2>3, DialogVarsAre
<1>4. CASE LetGo \/ Crash
  <2>1. dialog' = 0 /\ agent' = agent
    BY <1>4 DEF LetGo, Crash
  <2>2. Shown' = "none" /\ Place' = NoHost /\ Current' = Current
    BY <2>1 DEF Shown, Place, Current, Passes
  <2>3. Dialog!Forget
    BY <2>1, <2>2 DEF Dialog!Forget, Dialog!Nothing, Place, Current
  <2> QED BY <2>3 DEF DialogStep, Dialog!DialogNext
<1>5. CASE PollInstaller
  <2>1. /\ dialog # 0 /\ job[dialog].status \in {"done", "failed"} /\ seen'
        /\ UNCHANGED <<job, dialog, agent>>
    BY <1>5 DEF PollInstaller
  <2>2. Shown' = Shown /\ Place' = Place /\ Current' = Current /\ Shown \in {"ok", "failed"}
    BY <2>1 DEF Shown, Place, Current, Passes
  <2>3. Dialog!Mirror
    BY <2>1, <2>2 DEF Dialog!Mirror, Place, Current
  <2> QED BY <2>3 DEF DialogStep, Dialog!DialogNext
<1>6. CASE UNCHANGED vars
  <2>1. UNCHANGED <<Place, Shown, dialog = 0 \/ seen, Current>>
    BY <1>6 DEF vars, Place, Shown, Current, Passes
  <2> QED BY <2>1, DialogVarsAre
<1>7. ASSUME NEW j \in 1..Jobs, Step(j)
      PROVE  DialogStep
  BY <1>7, JobStepMaps
<1> QED BY <1>2, <1>3, <1>4, <1>5, <1>6, <1>7 DEF Next

(***************************************************************************)
(* Installer: whatever jobs of closed dialogs do meanwhile, the dialog's   *)
(* own installation starts only when the last one's end is known, ends     *)
(* once, and is shown as a success only if the last check has passed on    *)
(* its host, which takes in the new agent and one of unknown version.      *)
(***************************************************************************)
THEOREM JobsImplementDialog == Spec => JobsKeepDialog
<1>1. Init => Dialog!DialogInit
  BY DEF Init, Dialog!DialogInit, Dialog!Nothing, Shown
<1>2. Inv /\ ShownInv /\ [Next]_vars => [Dialog!DialogNext]_(Dialog!dialogVars)
  BY DialogNextMaps DEF DialogStep
<1> QED
  BY InvInit, InvNext, ShownInit, ShownNext, <1>1, <1>2, PTL
     DEF Spec, JobsKeepDialog, Dialog!DialogSpec
=============================================================================
