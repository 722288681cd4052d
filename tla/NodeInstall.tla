---------------------------- MODULE NodeInstall ----------------------------
(***************************************************************************)
(* Installing the agent on a node (src/install.rs): the jobs that the      *)
(* installer's dialog starts, one thread each, the files they stage and    *)
(* their askpass helper, which all jobs of the applet share, and the       *)
(* directory on the node, which all jobs for that node share.              *)
(*                                                                         *)
(* A file on its way is whole or cut off: another job may have truncated   *)
(* the staged copy while scp reads it.  Every remote command may fail, and *)
(* every file may turn out impossible to write.  On the node runs          *)
(* agent/install-agent.sh.                                                 *)
(***************************************************************************)
EXTENDS Naturals, FiniteSets, SequencesExt

CONSTANTS
    Hosts,
    NoHost,      \* the empty text of the host field
    KeyHosts,    \* hosts that accept a key of the user
    Requests,    \* what the user types into the dialog
    StaleHosts,  \* hosts where the script cannot stop an old agent
    Jobs,        \* the jobs are 1..Jobs, in the order they are started
    MaxFaults    \* bound: failing commands and writes, and crashes of the applet

ASSUME InstallAssumption ==
    /\ NoHost \notin Hosts
    /\ Requests \subseteq [host: Hosts \union {NoHost}, user: BOOLEAN, password: BOOLEAN]
    /\ KeyHosts \subseteq Hosts /\ StaleHosts \subseteq Hosts
    /\ Jobs \in Nat /\ MaxFaults \in Nat

VARIABLES
    job,      \* job[j]: one call of run
    dialog,   \* the job whose Installer the dialog holds, 0 for none
    seen,     \* install_state shows that job as finished
    askpass,  \* the askpass helper: whose secret, 0 for none, and the program
    staged,   \* staged[f]: the local copy of file f
    remote,   \* remote[h]: REMOTE_DIR, its files in the state they arrived in
    agent,    \* agent[h]: what listens on the agent's port
    faults

vars == <<job, dialog, seen, askpass, staged, remote, agent, faults>>

Files == <<"agent", "unit", "script">>
FileSet == Range(Files)
Helper == [secret: 0..Jobs, program: BOOLEAN]
NoHelper == [secret |-> 0, program |-> FALSE]
Staged == [FileSet -> {"no", "cut", "whole"}]
NoDir == [there |-> FALSE, files |-> [f \in FileSet |-> "no"]]
EmptyDir == [NoDir EXCEPT !.there = TRUE]

(* What runs on the port: nothing, an agent that tells another version,    *)
(* one that is Megatron's by its command line but of which no version can  *)
(* be had (a Python agent, or a binary that was replaced while it ran), or *)
(* the one the last script has started.                                    *)
Agents == {"none", "old", "mute", "new"}

(* cancelled: "early" before the last look at the stop flag, "late" after. *)
(* fault: what went wrong around it: a write here, a command on the node,  *)
(* the last one (rm), the whole applet.  met: it was not always alone.     *)
Places == {"off", "files", "host", "probe", "mkdir", "write", "whole", "send", "again",
           "script", "verify", "clean", "gone"}
Job == [at: Places, host: Hosts \union {NoHost}, user: BOOLEAN, password: BOOLEAN,
        files: BOOLEAN, next: 1..Len(Files), status: {"idle", "running", "done", "failed"},
        cancelled: {"no", "early", "late"}, fault: SUBSET {"local", "ssh", "rm", "crash"},
        met: BOOLEAN]
NoJob == [at |-> "off", host |-> NoHost, user |-> FALSE, password |-> FALSE,
          files |-> FALSE, next |-> 1, status |-> "idle", cancelled |-> "no",
          fault |-> {}, met |-> FALSE]

Live == {j \in 1..Jobs: job[j].at \notin {"off", "gone"}}

Init ==
    /\ job = [j \in 1..Jobs |-> NoJob]
    /\ dialog = 0
    /\ seen = FALSE
    /\ askpass = NoHelper
    /\ staged = [f \in FileSet |-> "no"]
    /\ remote = [h \in Hosts |-> NoDir]
    /\ agent \in [Hosts -> Agents \ {"new"}]
    /\ faults = 0

-----------------------------------------------------------------------------
(* start_install: not while the dialog's job is known to run.  The jobs of *)
(* closed dialogs do not count.                                            *)
StartInstall ==
    /\ dialog = 0 \/ seen
    /\ \E j \in 1..Jobs, request \in Requests:
          /\ \A i \in 1..Jobs: i < j <=> job[i].at # "off"
          /\ job' = [i \in 1..Jobs |->
                        IF i = j THEN [NoJob EXCEPT !.at = "files", !.host = request.host,
                                           !.user = request.user,
                                           !.password = request.password,
                                           !.status = "running", !.met = Live # {}]
                        ELSE IF i \in Live THEN [job[i] EXCEPT !.met = TRUE]
                        ELSE job[i]]
          /\ dialog' = j
    /\ seen' = FALSE
    /\ UNCHANGED <<askpass, staged, remote, agent, faults>>

(* CancelInstall sets the stop flag, which install tests twice.            *)
CancelInstall ==
    /\ dialog # 0 /\ job[dialog].cancelled = "no"
    /\ job' = [job EXCEPT ![dialog].cancelled =
                  IF @ = "no" /\ job[dialog].at \in {"files", "host", "probe", "mkdir",
                                                    "write", "whole", "send", "again"}
                  THEN "early" ELSE "late"]
    /\ UNCHANGED <<dialog, seen, askpass, staged, remote, agent, faults>>

(* CloseInstaller, AddHostOnly, OpenInstaller and UpdateAgent: the dialog  *)
(* lets go of its job, which runs on.                                      *)
LetGo ==
    /\ dialog # 0
    /\ dialog' = 0
    /\ seen' = FALSE
    /\ UNCHANGED <<job, askpass, staged, remote, agent, faults>>

(* Definitions whose name ends in Mutant are faulty variants of the one    *)
(* that follows: a property below fails when its variant is used.          *)
PollInstallerMutant ==
    /\ dialog # 0 /\ ~seen
    /\ seen' = TRUE
    /\ UNCHANGED <<job, dialog, askpass, staged, remote, agent, faults>>

(* poll_installer mirrors the job's status, once a second.                 *)
PollInstaller ==
    /\ dialog # 0 /\ job[dialog].status \in {"done", "failed"} /\ ~seen
    /\ seen' = TRUE
    /\ UNCHANGED <<job, dialog, askpass, staged, remote, agent, faults>>

(* The applet ends and its threads with it; the files stay.                *)
Crash ==
    /\ Live # {} /\ faults < MaxFaults
    /\ faults' = faults + 1
    /\ job' = [j \in 1..Jobs |-> IF j \in Live
                                 THEN [job[j] EXCEPT !.at = "gone", !.fault = @ \union {"crash"}]
                                 ELSE job[j]]
    /\ dialog' = 0
    /\ seen' = FALSE
    /\ UNCHANGED <<askpass, staged, remote, agent>>

-----------------------------------------------------------------------------
(* ssh and scp of job j reach its host: by the askpass helper if the job   *)
(* has one, with the password typed for the host, by a key otherwise.      *)
Reaches(j) ==
    /\ job[j].host # NoHost /\ job[j].user
    /\ IF job[j].files
       THEN askpass.program /\ askpass.secret # 0 /\ job[askpass.secret].host = job[j].host
       ELSE job[j].host \in KeyHosts

Goes(j, at) == job' = [job EXCEPT ![j].at = at]

(* install returns an error: run reports it, then goes on to clean up.     *)
Fails(j) == job' = [job EXCEPT ![j].status = "failed", ![j].at = "clean"]

(* So it does when something goes wrong that might as well have worked.    *)
Breaks(j, kind) ==
    /\ faults < MaxFaults
    /\ faults' = faults + 1
    /\ job' = [job EXCEPT ![j].status = "failed", ![j].at = "clean",
                          ![j].fault = @ \union {kind}]

(* A remote command of job j fails although it reaches the host.           *)
Fault(j) == Breaks(j, "ssh") /\ UNCHANGED <<staged, remote, agent>>

(* PasswordFiles::create: a file that cannot be written makes it return    *)
(* without the helper, and what it has written stays.                      *)
CreateFiles(j) ==
    /\ job[j].at = "files"
    /\ \/ /\ job' = [job EXCEPT ![j].files = job[j].password, ![j].at = "host"]
          /\ askpass' = IF job[j].password THEN [secret |-> j, program |-> TRUE] ELSE askpass
          /\ UNCHANGED faults
       \/ /\ job[j].password /\ faults < MaxFaults
          /\ faults' = faults + 1
          /\ job' = [job EXCEPT ![j].fault = @ \union {"local"}, ![j].at = "host"]
          /\ askpass' \in {askpass, [askpass EXCEPT !.secret = j]}
    /\ UNCHANGED <<dialog, seen, staged, remote, agent>>

(* install gives up on an empty host or user.                              *)
CheckHost(j) ==
    /\ job[j].at = "host"
    /\ IF job[j].host = NoHost \/ ~job[j].user THEN Fails(j) ELSE Goes(j, "probe")
    /\ UNCHANGED <<dialog, seen, askpass, staged, remote, agent, faults>>

ProbeMutant(j) ==
    /\ job[j].at = "probe"
    /\ \/ /\ Reaches(j) /\ job[j].cancelled = "no"
          /\ Goes(j, "mkdir")
          /\ UNCHANGED <<staged, remote, agent, faults>>
       \/ /\ ~Reaches(j) \/ job[j].cancelled # "no"
          /\ Goes(j, "clean")
          /\ UNCHANGED <<staged, remote, agent, faults>>
       \/ Reaches(j) /\ Fault(j)
    /\ UNCHANGED <<dialog, seen, askpass>>

(* The probe for architecture and user, and the first look at stop.        *)
Probe(j) ==
    /\ job[j].at = "probe"
    /\ \/ /\ Reaches(j) /\ job[j].cancelled = "no"
          /\ Goes(j, "mkdir")
          /\ UNCHANGED <<staged, remote, agent, faults>>
       \/ /\ ~Reaches(j) \/ job[j].cancelled # "no"
          /\ Fails(j)
          /\ UNCHANGED <<staged, remote, agent, faults>>
       \/ Reaches(j) /\ Fault(j)
    /\ UNCHANGED <<dialog, seen, askpass>>

MakeDirMutant(j) ==
    /\ job[j].at = "mkdir"
    /\ \/ /\ Reaches(j) /\ ~remote[job[j].host].there
          /\ remote' = [remote EXCEPT ![job[j].host] = EmptyDir]
          /\ Goes(j, "write")
          /\ UNCHANGED <<staged, agent, faults>>
       \/ /\ ~Reaches(j) \/ remote[job[j].host].there
          /\ Fails(j)
          /\ UNCHANGED <<staged, remote, agent, faults>>
       \/ Reaches(j) /\ Fault(j)
    /\ UNCHANGED <<dialog, seen, askpass>>

(* mkdir -p: a directory that an earlier job has left will do.             *)
MakeDir(j) ==
    /\ job[j].at = "mkdir"
    /\ \/ /\ Reaches(j)
          /\ remote' = [remote EXCEPT ![job[j].host] = IF @.there THEN @ ELSE EmptyDir]
          /\ Goes(j, "write")
          /\ UNCHANGED <<staged, agent, faults>>
       \/ /\ ~Reaches(j)
          /\ Fails(j)
          /\ UNCHANGED <<staged, remote, agent, faults>>
       \/ Reaches(j) /\ Fault(j)
    /\ UNCHANGED <<dialog, seen, askpass>>

-----------------------------------------------------------------------------
(* push_file: fs::write truncates the staged copy, then fills it.  Either  *)
(* may fail, and then nothing removes the copy.                            *)
TruncateStaged(j) ==
    /\ job[j].at = "write"
    /\ \/ /\ staged' = [staged EXCEPT ![Files[job[j].next]] = "cut"]
          /\ Goes(j, "whole")
          /\ UNCHANGED faults
       \/ /\ Breaks(j, "local")
          /\ UNCHANGED staged
    /\ UNCHANGED <<dialog, seen, askpass, remote, agent>>

FillStaged(j) ==
    /\ job[j].at = "whole"
    /\ \/ /\ staged' = [staged EXCEPT ![Files[job[j].next]] = "whole"]
          /\ Goes(j, "send")
          /\ UNCHANGED faults
       \/ /\ Breaks(j, "local")
          /\ UNCHANGED staged
    /\ UNCHANGED <<dialog, seen, askpass, remote, agent>>

(* After the last file install looks at stop once more.                    *)
SentMutant(j) ==
    IF job[j].next < Len(Files) THEN [job[j] EXCEPT !.next = @ + 1, !.at = "write"]
    ELSE [job[j] EXCEPT !.at = "script"]

Sent(j) ==
    IF job[j].next < Len(Files) THEN [job[j] EXCEPT !.next = @ + 1, !.at = "write"]
    ELSE IF job[j].cancelled = "no" THEN [job[j] EXCEPT !.at = "script"]
    ELSE [job[j] EXCEPT !.status = "failed", !.at = "clean"]

Name(j) == Files[job[j].next]

Arrives(j) == Reaches(j) /\ staged[Name(j)] # "no" /\ remote[job[j].host].there

(* What scp leaves on the node when it does not get through.               *)
Torn(j) ==
    {remote} \union
        IF Arrives(j) THEN {[remote EXCEPT ![job[j].host].files[Name(j)] = "cut"]} ELSE {}

(* scp takes what the staged copy is now, then the copy is removed.        *)
Delivers(j) ==
    /\ Arrives(j)
    /\ remote' = [remote EXCEPT ![job[j].host].files[Name(j)] = staged[Name(j)]]
    /\ staged' = [staged EXCEPT ![Name(j)] = "no"]
    /\ job' = [job EXCEPT ![j] = Sent(j)]

(* The first attempt, by SFTP, may fail on any host.                       *)
Send(j) ==
    /\ job[j].at = "send"
    /\ \/ Delivers(j)
       \/ /\ remote' \in Torn(j)
          /\ Goes(j, "again")
          /\ UNCHANGED staged
    /\ UNCHANGED <<dialog, seen, askpass, agent, faults>>

(* The second, by the old protocol; the copy is removed in any case.       *)
SendAgain(j) ==
    /\ job[j].at = "again"
    /\ \/ Delivers(j) /\ UNCHANGED faults
       \/ /\ ~Arrives(j)
          /\ staged' = [staged EXCEPT ![Name(j)] = "no"]
          /\ Fails(j)
          /\ UNCHANGED <<remote, faults>>
       \/ /\ Arrives(j)
          /\ staged' = [staged EXCEPT ![Name(j)] = "no"]
          /\ Breaks(j, "ssh")
          /\ remote' \in Torn(j)
    /\ UNCHANGED <<dialog, seen, askpass, agent>>

-----------------------------------------------------------------------------
Complete(h) == \A f \in FileSet: remote[h].files[f] = "whole"

(* What install-agent.sh leaves on the port when it ends before its end:   *)
(* it stops the old agent first, which systemd may start again, and has    *)
(* replaced the binary before it starts the new one.                       *)
Left(h) ==
    {agent[h], "none"}
    \union (IF agent[h] # "none" /\ remote[h].files["agent"] # "no" THEN {"mute"} ELSE {})
    \union (IF remote[h].files["agent"] = "whole" THEN {"new"} ELSE {})

(* What it leaves by itself.  A script that is cut off does nothing: only  *)
(* its last lines call anything.  An old agent that it cannot stop goes on *)
(* with its binary replaced.                                               *)
Outcome(h) ==
    IF Complete(h)
    THEN {"new"} \union IF h \in StaleHosts /\ agent[h] \in {"old", "mute"}
                        THEN {agent[h], "mute"} ELSE {}
    ELSE IF remote[h].files["script"] = "whole" THEN Left(h)
    ELSE {agent[h]}

(* set -e: a command that fails ends the script, and the job with it; only *)
(* a new agent that does not come up may go unnoticed.                     *)
RunScript(j) ==
    LET h == job[j].host
    IN /\ job[j].at = "script"
       /\ \/ /\ Reaches(j)
             /\ remote[h].files["script"] = "cut" \/ \A f \in FileSet: remote[h].files[f] # "no"
             /\ \E left \in Outcome(h): agent' = [agent EXCEPT ![h] = left]
             /\ Goes(j, "verify")
             /\ UNCHANGED faults
          \/ /\ Reaches(j) /\ ~Complete(h)
             /\ \E left \in Outcome(h): agent' = [agent EXCEPT ![h] = left]
             /\ Fails(j)
             /\ UNCHANGED faults
          \/ /\ ~Reaches(j)
             /\ Fails(j)
             /\ UNCHANGED <<agent, faults>>
          \/ /\ Reaches(j) /\ Complete(h)
             /\ \E left \in Left(h): agent' = [agent EXCEPT ![h] = left]
             /\ Breaks(j, "ssh")
          \/ /\ Reaches(j) /\ Complete(h) /\ faults < MaxFaults
             /\ faults' = faults + 1
             /\ agent' = [agent EXCEPT ![h] = "none"]
             /\ job' = [job EXCEPT ![j].at = "verify", ![j].fault = @ \union {"ssh"}]
       /\ UNCHANGED <<dialog, seen, askpass, staged, remote>>

PassesMutant(h) == agent[h] # "none"

(* parse_probe and the tests on it: something listens, and if it tells its *)
(* version then the expected one, else its command line is the agent's.    *)
Passes(h) == agent[h] \in {"new", "mute"}

(* The unit has to be active too, which it need not be when another agent  *)
(* than the one it has started keeps the port.                             *)
Verify(j) ==
    /\ job[j].at = "verify"
    /\ \/ /\ Reaches(j) /\ Passes(job[j].host)
          /\ job' = [job EXCEPT ![j].status = "done", ![j].at = "clean"]
          /\ UNCHANGED <<staged, remote, agent, faults>>
       \/ /\ ~(Reaches(j) /\ agent[job[j].host] = "new")
          /\ Fails(j)
          /\ UNCHANGED <<staged, remote, agent, faults>>
       \/ Reaches(j) /\ Fault(j)
    /\ UNCHANGED <<dialog, seen, askpass>>

(* PasswordFiles is dropped, the directory removed.                        *)
Released(j) == IF job[j].files THEN NoHelper ELSE askpass
Removed(j) == [remote EXCEPT ![job[j].host] = NoDir]

CleanMutant(j) ==
    /\ job[j].at = "clean"
    /\ askpass' = Released(j)
    /\ remote' = IF Reaches(j) /\ ~job[j].files THEN Removed(j) ELSE remote
    /\ Goes(j, "gone")
    /\ UNCHANGED <<dialog, seen, staged, agent, faults>>

(* The status is out already.  rm -rf takes the directory whoever uses it; *)
(* nobody looks whether it works.  The drop of PasswordFiles comes last.   *)
Clean(j) ==
    /\ job[j].at = "clean"
    /\ askpass' = Released(j)
    /\ \/ /\ remote' = IF Reaches(j) THEN Removed(j) ELSE remote
          /\ Goes(j, "gone")
          /\ UNCHANGED faults
       \/ /\ Reaches(j) /\ faults < MaxFaults
          /\ faults' = faults + 1
          /\ job' = [job EXCEPT ![j].at = "gone", ![j].fault = @ \union {"rm"}]
          /\ UNCHANGED remote
    /\ UNCHANGED <<dialog, seen, staged, agent>>

Step(j) ==
    \/ CreateFiles(j) \/ CheckHost(j) \/ Probe(j) \/ MakeDir(j)
    \/ TruncateStaged(j) \/ FillStaged(j) \/ Send(j) \/ SendAgain(j)
    \/ RunScript(j) \/ Verify(j) \/ Clean(j)

Next ==
    \/ StartInstall \/ CancelInstall \/ LetGo \/ PollInstaller \/ Crash
    \/ \E j \in 1..Jobs: Step(j)

Spec == Init /\ [][Next]_vars

(* The scheduler runs the jobs, ssh and scp come to an end, and the applet *)
(* ticks.  Nothing makes the user start, cancel or close.                  *)
FairSpec ==
    /\ Spec
    /\ WF_vars(PollInstaller)
    /\ \A j \in 1..Jobs: WF_vars(Step(j))

-----------------------------------------------------------------------------
(* Type invariant of the installer's jobs and of the files they share.     *)
TypeOK ==
    /\ job \in [1..Jobs -> Job]
    /\ dialog \in 0..Jobs /\ seen \in BOOLEAN
    /\ askpass \in Helper
    /\ staged \in Staged
    /\ remote \in [Hosts -> [there: BOOLEAN, files: Staged]]
    /\ agent \in [Hosts -> Agents]
    /\ faults \in 0..MaxFaults

(* run and push_file: an installation with the right credentials that is   *)
(* neither cancelled nor hit by a failing command or write nor by an old   *)
(* agent that cannot be stopped succeeds, whatever earlier ones have left  *)
(* behind.  Only a job that runs at the same time can make it fail: also   *)
(* the tail of one that is reported as finished.                           *)
FailureHasCause ==
    \A j \in 1..Jobs: job[j].status = "failed" =>
        \/ job[j].host = NoHost \/ ~job[j].user \/ job[j].host \in StaleHosts
        \/ job[j].host \notin KeyHosts /\ ~job[j].files
        \/ job[j].cancelled # "no" \/ job[j].met
        \/ job[j].fault \intersect {"local", "ssh"} # {}

(* install's last check and install-agent.sh: a node whose installation    *)
(* was reported as done keeps the agent of this applet until jobs on it    *)
(* meet or one of them is hit by a fault.  The check is taken in by an old *)
(* agent only if no version can be had of it, and then only where it could *)
(* not be stopped or where the jobs disturbed each other.                  *)
DoneMeansInstalled ==
    \A j \in 1..Jobs: job[j].status = "done" =>
        \/ agent[job[j].host] = "new"
        \/ agent[job[j].host] = "mute" /\ (job[j].host \in StaleHosts \/ job[j].met)
        \/ \E i \in 1..Jobs: /\ i # j /\ job[i].host = job[j].host
                             /\ job[i].met \/ job[i].fault # {}

(* CancelInstall: a job that is cancelled while it connects or uploads     *)
(* never runs the script, so the node keeps the agent it has.              *)
CancelledInTime ==
    [][\A j \in 1..Jobs: RunScript(j) => job[j].cancelled # "early"]_vars

Hit(kind) == {j \in 1..Jobs: kind \in job[j].fault}

OneByOne ==
    /\ \A j \in 1..Jobs: job[j].at \in {"off", "gone"} /\ ~job[j].met
    /\ Hit("crash") = {}

(* PasswordFiles, push_file and run: what jobs that ran one at a time have *)
(* left behind, however they ended, is due to a file here that could not   *)
(* be written, or on a node to an rm that failed there.                    *)
NothingLeft ==
    OneByOne =>
        /\ askpass # NoHelper \/ (\E f \in FileSet: staged[f] # "no") => Hit("local") # {}
        /\ \A h \in Hosts: remote[h] # NoDir => \E j \in Hit("rm"): job[j].host = h

(* The comment on PasswordFiles: "removed on every exit path".  The code   *)
(* returns from create without removing the secret when the program cannot *)
(* be written.                                                             *)
HelperRemoved == OneByOne => askpass = NoHelper

(* start_install refuses a second job only while the first one's end is    *)
(* not known, and that is not for ever: every way out of install reports.  *)
DialogIsFreed == dialog # 0 /\ ~seen ~> dialog = 0 \/ seen

(* Installer::snapshot: whatever other jobs do meanwhile, the dialog sees  *)
(* its own installation end once and truly: a success is shown only when   *)
(* the last check has passed on the host of that installation.             *)
Shown == IF dialog = 0 THEN "none"
         ELSE IF job[dialog].status = "done" THEN "ok" ELSE job[dialog].status

Dialog == INSTANCE InstallDialog
              WITH host <- IF Shown = "running" THEN job[dialog].host ELSE NoHost,
                   state <- Shown,
                   handled <- dialog = 0 \/ seen,
                   current <- {h \in Hosts: Passes(h)}

JobsKeepDialog == Dialog!DialogSpec
=============================================================================
