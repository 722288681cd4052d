------------------------- MODULE ProcessPageProofs -------------------------
(***************************************************************************)
(* Proofs about ProcessPage for any node list and any number of edits and  *)
(* installations: a page that has been left stays idle, the rows belong to *)
(* the selected host, a signal goes where it was asked for, and the popup  *)
(* treats its installation as InstallDialog says.                          *)
(***************************************************************************)
EXTENDS ProcessPage, SequenceTheorems, TLAPS

LEMMA LeftPageNext ==
    LeftPageIsIdle /\ [Next]_vars => LeftPageIsIdle'
<1> SUFFICES ASSUME LeftPageIsIdle, [Next]_vars PROVE LeftPageIsIdle'
  OBVIOUS
<1> USE DEF LeftPageIsIdle
<1>1. View = "processes" => procs_open
  BY DEF View
<1>2. CASE TogglePopup
  BY <1>2 DEF TogglePopup
<1>3. CASE PopupClosed
  BY <1>3 DEF PopupClosed
<1>4. CASE OpenProcesses
  BY <1>4 DEF OpenProcesses
<1>5. CASE CloseProcesses
  BY <1>5 DEF CloseProcesses
<1>6. CASE \E index \in 0..Len(targets): ProcessHost(index)
  BY <1>1, <1>6 DEF ProcessHost
<1>7. CASE RefreshProcesses \/ AskSignal \/ CancelSignal \/ ConfirmSignal
  BY <1>1, <1>7 DEF RefreshProcesses, AskSignal, CancelSignal, ConfirmSignal
<1>8. CASE \E t \in Targets: UpdateAgent(t)
  BY <1>8 DEF UpdateAgent
<1>9. CASE \/ ToggleSettings \/ SaveSettings
           \/ \E t \in Targets: AddHost(t)
           \/ \E index \in 0..Len(targets): RemoveHost(index)
  BY <1>9 DEF ToggleSettings, SaveSettings, AddHost, RemoveHost, page
<1>10. CASE \/ \E text \in Targets \union {Nobody}: OpenInstaller(text) \/ InstallHost(text)
            \/ StartInstall \/ CloseInstaller \/ AddHostOnly
            \/ InstallEnds \/ AgentUpdated
  BY <1>10 DEF OpenInstaller, InstallHost, StartInstall, CloseInstaller, AddHostOnly,
               InstallEnds, AgentUpdated, page
<1>11. CASE Tick
  <2>1. procs_open' = procs_open /\ PollProcessTask
    BY <1>11 DEF Tick
  <2>2. CASE ~procs_open
    <3>1. ~scanning /\ proc_task.kind = "none"
      BY <2>2 DEF NoTask
    <3>2. UNCHANGED <<scanning, proc_task>>
      BY <2>1, <3>1 DEF PollProcessTask
    <3>3. QED
      BY <2>1, <2>2, <3>2
  <2>3. QED
    BY <2>1, <2>2
<1>12. CASE TaskEnds
  <2>1. procs_open' = procs_open /\ scanning' = scanning /\ proc_task.state = "running"
    BY <1>12 DEF TaskEnds
  <2>2. NoTask.state # "running"
    BY DEF NoTask
  <2>3. QED
    BY <2>1, <2>2
<1>13. CASE UNCHANGED vars
  BY <1>13 DEF vars, page
<1>14. QED
  BY <1>2, <1>3, <1>4, <1>5, <1>6, <1>7, <1>8, <1>9, <1>10, <1>11, <1>12, <1>13
     DEF Next, User

(* While the process page is not open, /proc is not scanned and no answer  *)
(* is awaited: the poll of a request never wakes the scan of a page that   *)
(* CloseProcesses or UpdateAgent has left.                                 *)
THEOREM LeftPageStaysIdle == Spec => []LeftPageIsIdle
<1>1. Init => LeftPageIsIdle
  BY DEF Init, LeftPageIsIdle
<1>2. QED
  BY <1>1, LeftPageNext, PTL DEF Spec

-----------------------------------------------------------------------------
(* Whose rows are listed.                                                  *)

PageTyped ==
    /\ targets \in Seq(Targets) /\ proc_host \in Nat /\ installs \in Nat
    /\ install_host \in Targets \union {Nobody} /\ outdated \subseteq OldAgents
    /\ proc_task \in ProcessTask

(* An answer of node t may come, or have come, though another host is      *)
(* selected: then that host is this machine, and its rows are not listed.  *)
(* An installation may make the monitor forget that it is.                 *)
MayCome(t) ==
    \/ proc_host = 0
    \/ /\ proc_host \in 1..Len(targets)
       /\ \/ t = targets[proc_host]
          \/ /\ targets[proc_host] \in ThisHost
             /\ installs = 0 => targets[proc_host] \in watched \intersect known

AnswerInv ==
    /\ proc_task.kind = "list" =>
          MayCome(proc_task.of) /\ (proc_task.state = "ok" => proc_task.of \notin outdated)
    /\ proc_remote.rows => MayCome(proc_remote.of) /\ proc_remote.of \notin outdated

ClosedInv == ~procs_open => ~proc_remote.rows /\ proc_task = NoTask

ConfirmInv ==
    installs = 0 /\ procs_open /\ proc_confirm # Nobody => proc_confirm = Destination

PageInv ==
    /\ PageTyped /\ (installs = 0 => installer = NoInstaller)
    /\ AnswerInv /\ ClosedInv /\ ConfirmInv

LEMMA PageFacts ==
  ASSUME PageTyped
  PROVE  /\ Len(targets) \in Nat
         /\ \A j \in 1..Len(targets): targets[j] \in Targets
  BY LenProperties, ElementOfSeq DEF PageTyped

(* The rows the page lists.                                                *)
LEMMA ListedIs ==
  ASSUME AnswerInv, installs = 0 \/ SelectedIsKnown, Listed # Nobody
  PROVE  Listed = Destination
<1>1. CASE SelectedIsLocal
  BY <1>1 DEF Listed, Destination
<1>2. CASE ~SelectedIsLocal
  <2>1. proc_host \in 1..Len(targets)
    BY <1>2 DEF SelectedIsLocal
  <2>2. proc_remote.rows /\ Listed = Machine(proc_remote.of)
    BY <1>2 DEF Listed
  <2>3. Destination = Machine(targets[proc_host])
    BY <1>2 DEF Destination
  <2>4. targets[proc_host] \notin ThisHost \/ targets[proc_host] \notin watched \intersect known
    BY <1>2, <2>1 DEF SelectedIsLocal
  <2>5. proc_remote.of = targets[proc_host]
    <3>1. proc_host # 0
      BY <2>1
    <3> QED BY <2>1, <2>2, <2>4, <3>1 DEF AnswerInv, MayCome, SelectedIsKnown
  <2> QED BY <2>2, <2>3, <2>5
<1> QED BY <1>1, <1>2

(* A step after which the page is closed.                                  *)
LEMMA PageIsClosed ==
  ASSUME PageTyped', installs' = 0 => installer' = NoInstaller,
         ~procs_open', ~proc_remote'.rows, proc_task' = NoTask
  PROVE  PageInv'
  BY DEF PageInv, AnswerInv, ClosedInv, ConfirmInv, NoTask

LEMMA NewRequest ==
  ASSUME NEW t \in Targets, NEW kind \in {"list", "kill"}
  PROVE  /\ Request(kind, t) \in ProcessTask /\ Request(kind, t).kind = kind
         /\ Request(kind, t).of = t /\ Request(kind, t).state = "running"
  BY DEF Request, ProcessTask

(* What refresh_processes leaves: the request there was, or one to the     *)
(* selected host.                                                          *)
LEMMA RefreshedTask ==
  ASSUME NEW active, NEW task \in ProcessTask, Refreshed(active, task),
         targets' \in Seq(Targets),
         task.kind = "list" /\ SelectedIsLocal' =>
            MayCome(task.of)' /\ (task.state = "ok" => task.of \notin outdated')
  PROVE  /\ proc_task' \in ProcessTask
         /\ proc_task'.kind = "list" =>
               /\ MayCome(proc_task.of)'
               /\ proc_task'.state = "ok" => proc_task'.of \notin outdated'
<1>1. CASE SelectedIsLocal'
  <2>1. proc_task' = task
    BY <1>1 DEF Refreshed
  <2> QED BY <1>1, <2>1 DEF MayCome
<1>2. CASE ~SelectedIsLocal'
  <2>1. proc_host' \in 1..Len(targets')
    BY <1>2 DEF SelectedIsLocal
  <2>2. targets'[proc_host'] \in Targets
    BY <2>1, ElementOfSeq
  <2>3. proc_task' = Request("list", targets'[proc_host'])
    BY <1>2 DEF Refreshed
  <2> QED BY <2>1, <2>2, <2>3, NewRequest DEF MayCome
<1> QED BY <1>1, <1>2

-----------------------------------------------------------------------------
(* The popup and the process page.                                         *)
LEMMA NothingMoves ==
  ASSUME PageInv,
         UNCHANGED <<targets, watched, known, outdated, procs_open, proc_host, proc_remote,
                     proc_task, proc_confirm, install_host, installer, installs>>
  PROVE  PageInv'
  BY DEF PageInv, PageTyped, AnswerInv, MayCome, ClosedInv, ConfirmInv, Destination,
         SelectedIsLocal

LEMMA PopupInv ==
  ASSUME PageInv, TogglePopup \/ PopupClosed
  PROVE  PageInv'
<1>1. CASE TogglePopup
  BY <1>1, NothingMoves DEF TogglePopup, nodes, dialog
<1>2. CASE PopupClosed
  <2>1. /\ UNCHANGED <<targets, watched, known, outdated, procs_open, proc_host, proc_remote,
                       install_host, installer, installs>>
        /\ proc_task' = NoTask /\ proc_confirm' = Nobody
    BY <1>2 DEF PopupClosed, nodes, dialog
  <2>2. NoTask \in ProcessTask /\ NoTask.kind = "none"
    BY DEF NoTask, ProcessTask
  <2> QED
    BY <2>1, <2>2 DEF PageInv, PageTyped, AnswerInv, MayCome, ClosedInv, ConfirmInv
<1> QED BY <1>1, <1>2

(* A handler that ends with refresh_processes on an open page.             *)
LEMMA RefreshInv ==
  ASSUME PageInv, NEW active, Refreshed(active, proc_task), procs_open',
         UNCHANGED <<targets, watched, known, outdated, install_host, installer, installs>>,
         \/ UNCHANGED <<proc_host, proc_remote>>
         \/ proc_host' \in 0..Len(targets) /\ proc_remote' = NoList,
         \/ proc_confirm' = Nobody
         \/ UNCHANGED <<procs_open, proc_host, proc_confirm>>
  PROVE  PageInv'
<1>1. targets' \in Seq(Targets) /\ proc_task \in ProcessTask /\ Len(targets) \in Nat
  BY PageFacts DEF PageInv, PageTyped
<1>. PICK task \in ProcessTask: task = proc_task
  BY <1>1
<1>2. ASSUME task.kind = "list", SelectedIsLocal'
      PROVE  MayCome(task.of)' /\ (task.state = "ok" => task.of \notin outdated')
  <2>1. CASE UNCHANGED proc_host
    BY <1>2, <2>1 DEF PageInv, AnswerInv, MayCome
  <2>2. CASE proc_host' \in 0..Len(targets)
    <3>1. proc_host' = 0 \/ proc_host' \in 1..Len(targets')
      BY <1>1, <2>2
    <3> QED BY <1>2, <3>1 DEF PageInv, AnswerInv, MayCome, SelectedIsLocal
  <2> QED BY <2>1, <2>2
<1>3. /\ proc_task' \in ProcessTask
      /\ proc_task'.kind = "list" =>
            /\ MayCome(proc_task.of)'
            /\ proc_task'.state = "ok" => proc_task'.of \notin outdated'
  BY <1>1, <1>2, RefreshedTask
<1>4. PageTyped'
  BY <1>1, <1>3 DEF PageInv, PageTyped
<1>5. proc_remote'.rows => MayCome(proc_remote.of)' /\ proc_remote'.of \notin outdated'
  <2>1. CASE UNCHANGED <<proc_host, proc_remote>>
    BY <2>1 DEF PageInv, AnswerInv, MayCome
  <2>2. CASE proc_remote' = NoList
    BY <2>2 DEF NoList
  <2> QED BY <2>1, <2>2
<1>6. ConfirmInv'
  <2>1. CASE proc_confirm' = Nobody
    BY <2>1 DEF ConfirmInv
  <2>2. CASE UNCHANGED <<procs_open, proc_host, proc_confirm>>
    BY <2>2 DEF PageInv, ConfirmInv, Destination, SelectedIsLocal
  <2> QED BY <2>1, <2>2
<1> QED BY <1>3, <1>4, <1>5, <1>6 DEF PageInv, AnswerInv, ClosedInv

LEMMA ProcessesInv ==
  ASSUME PageInv,
         OpenProcesses \/ RefreshProcesses \/ \E index \in 0..Len(targets): ProcessHost(index)
  PROVE  PageInv'
<1>1. View = "processes" => procs_open
  BY DEF View
<1>2. CASE OpenProcesses
  BY <1>2, RefreshInv DEF OpenProcesses, nodes, dialog
<1>3. CASE RefreshProcesses
  BY <1>1, <1>3, RefreshInv DEF RefreshProcesses, nodes, dialog
<1>4. ASSUME NEW index \in 0..Len(targets), ProcessHost(index)
      PROVE  PageInv'
  <2>1. /\ procs_open' /\ proc_host' \in 0..Len(targets) /\ proc_remote' = NoList
        /\ proc_confirm' = Nobody /\ Refreshed(scanning, proc_task)
        /\ UNCHANGED <<targets, watched, known, outdated, install_host, installer, installs>>
    BY <1>1, <1>4 DEF ProcessHost, nodes, dialog
  <2> QED BY <2>1, RefreshInv
<1> QED BY <1>2, <1>3, <1>4

LEMMA CloseInv ==
  ASSUME PageInv, CloseProcesses
  PROVE  PageInv'
<1>1. /\ UNCHANGED <<targets, watched, known, outdated, proc_host, install_host, installer,
                     installs>>
      /\ ~procs_open' /\ proc_task' = NoTask /\ proc_remote' = NoList
  BY DEF CloseProcesses, nodes, dialog
<1>2. NoTask \in ProcessTask /\ ~NoList.rows
  BY DEF NoTask, ProcessTask, NoList
<1>3. PageTyped'
  BY <1>1, <1>2 DEF PageInv, PageTyped
<1> QED BY <1>1, <1>2, <1>3, PageIsClosed DEF PageInv

(* The signal is asked for a listed row, and its machine is the one the    *)
(* signal would go to.                                                     *)
LEMMA SignalInv ==
  ASSUME PageInv, AskSignal \/ CancelSignal \/ ConfirmSignal
  PROVE  PageInv'
<1>1. /\ UNCHANGED <<targets, watched, known, outdated, procs_open, proc_host, proc_remote,
                     install_host, installer, installs>>
      /\ procs_open
  BY DEF AskSignal, CancelSignal, ConfirmSignal, nodes, dialog, View
<1>2. /\ proc_task' \in ProcessTask
      /\ proc_task' = proc_task \/ proc_task'.kind = "kill"
  <2>1. CASE proc_task' = proc_task
    BY <2>1 DEF PageInv, PageTyped
  <2>2. CASE proc_task' = Request("kill", targets[proc_host]) /\ ~SelectedIsLocal
    <3>1. targets[proc_host] \in Targets
      BY <2>2, PageFacts DEF PageInv, SelectedIsLocal
    <3> QED BY <2>2, <3>1, NewRequest
  <2> QED BY <2>1, <2>2 DEF AskSignal, CancelSignal, ConfirmSignal
<1>3. PageTyped'
  BY <1>1, <1>2 DEF PageInv, PageTyped
<1>4. AnswerInv' /\ ClosedInv'
  <2>1. \A t: MayCome(t)' = MayCome(t)
    BY <1>1 DEF MayCome
  <2> QED BY <1>1, <1>2, <2>1 DEF PageInv, AnswerInv, ClosedInv
<1>5. ConfirmInv'
  <2>1. Destination' = Destination
    BY <1>1 DEF Destination, SelectedIsLocal
  <2>2. CASE AskSignal
    <3>1. proc_confirm' = Listed /\ Listed # Nobody
      BY <2>2 DEF AskSignal
    <3>2. installs = 0 => Listed = Destination
      BY <3>1, ListedIs DEF PageInv
    <3> QED BY <1>1, <2>1, <3>1, <3>2 DEF ConfirmInv
  <2>3. CASE CancelSignal \/ ConfirmSignal
    BY <2>3 DEF ConfirmInv, CancelSignal, ConfirmSignal
  <2> QED BY <2>2, <2>3
<1> QED BY <1>1, <1>3, <1>4, <1>5 DEF PageInv

-----------------------------------------------------------------------------
(* The settings and the dialog, while the process page is closed.          *)
LEMMA AddTargetTyped ==
  ASSUME targets \in Seq(Targets), NEW t \in Targets
  PROVE  AddTarget(t) \in Seq(Targets)
  BY AppendProperties DEF AddTarget

LEMMA RemoveAtTyped ==
  ASSUME targets \in Seq(Targets), NEW index \in 1..Len(targets)
  PROVE  RemoveAt(targets, index) \in Seq(Targets)
<1> DEFINE n == Len(targets)
<1>1. n \in Nat /\ index \in 1..n /\ \A j \in 1..n: targets[j] \in Targets
  BY LenProperties, ElementOfSeq
<1> HIDE DEF n
<1>2. SubSeq(targets, 1, index - 1) \in Seq(Targets)
  <2>1. 1 \in Int /\ index - 1 \in Int /\ \A j \in 1..index - 1: targets[j] \in Targets
    BY <1>1
  <2> QED BY <2>1, SubSeqProperties
<1>3. SubSeq(targets, index + 1, n) \in Seq(Targets)
  <2>1. n \in Int /\ index + 1 \in Int /\ \A j \in index + 1..n: targets[j] \in Targets
    BY <1>1
  <2> QED BY <2>1, SubSeqProperties
<1> QED BY <1>2, <1>3, ConcatProperties DEF RemoveAt, n

LEMMA SettingsInv ==
  ASSUME PageInv,
         \/ \E t \in Targets: AddHost(t)
         \/ \E index \in 0..Len(targets): RemoveHost(index)
         \/ SaveSettings
         \/ \E text \in Targets \union {Nobody}: OpenInstaller(text) \/ InstallHost(text)
         \/ StartInstall \/ CloseInstaller \/ AddHostOnly
  PROVE  PageInv'
<1>1. /\ targets \in Seq(Targets) /\ install_host \in Targets \union {Nobody}
      /\ installs \in Nat /\ outdated \subseteq OldAgents
      /\ installs = 0 => installer = NoInstaller
  BY DEF PageInv, PageTyped
<1>2. View \in {"settings", "installer"} => ~procs_open
  BY DEF View
<1>3. ~procs_open
  BY <1>2 DEF AddHost, RemoveHost, SaveSettings, OpenInstaller, InstallHost, StartInstall,
              CloseInstaller, AddHostOnly
<1>4. UNCHANGED <<procs_open, proc_host, proc_remote, proc_task, outdated>>
  BY DEF AddHost, RemoveHost, SaveSettings, OpenInstaller, InstallHost, StartInstall,
         CloseInstaller, AddHostOnly, page, nodes
<1>5. targets' \in Seq(Targets)
  <2>1. CASE \E t \in Targets: AddHost(t)
    BY <1>1, <2>1, AddTargetTyped DEF AddHost
  <2>2. CASE \E index \in 0..Len(targets): RemoveHost(index)
    BY <1>1, <2>2, RemoveAtTyped DEF RemoveHost
  <2>3. CASE AddHostOnly
    BY <1>1, <2>3, AddTargetTyped DEF AddHostOnly
  <2>4. CASE \/ SaveSettings
             \/ \E text \in Targets \union {Nobody}: OpenInstaller(text) \/ InstallHost(text)
             \/ StartInstall \/ CloseInstaller
    BY <1>1, <2>4 DEF SaveSettings, OpenInstaller, InstallHost, StartInstall, CloseInstaller,
                      nodes
  <2> QED BY <2>1, <2>2, <2>3, <2>4
<1>6. install_host' \in Targets \union {Nobody}
  BY <1>1 DEF AddHost, RemoveHost, SaveSettings, OpenInstaller, InstallHost, StartInstall,
              CloseInstaller, AddHostOnly, dialog
<1>7. installs' \in Nat /\ (installs' = 0 => installer' = NoInstaller)
  <2>1. CASE StartInstall
    BY <1>1, <2>1 DEF StartInstall
  <2>2. CASE ~StartInstall
    BY <1>1, <2>2 DEF AddHost, RemoveHost, SaveSettings, OpenInstaller, InstallHost,
                      CloseInstaller, AddHostOnly, dialog
  <2> QED BY <2>1, <2>2
<1>8. PageTyped'
  BY <1>1, <1>4, <1>5, <1>6, <1>7 DEF PageInv, PageTyped
<1> QED BY <1>3, <1>4, <1>7, <1>8, PageIsClosed DEF PageInv, ClosedInv

(* The one way to leave the page with its list kept: no rows are there,    *)
(* since an outdated agent never sends any, and this machine's is none.    *)
LEMMA UpdateInv ==
  ASSUME ThisHost \intersect OldAgents = {}, PageInv, NEW t \in Targets, UpdateAgent(t)
  PROVE  PageInv'
<1>1. /\ t \in outdated /\ install_host' \in Targets \union {Nobody}
      /\ installer' = NoInstaller
      /\ ~procs_open' /\ proc_task' = NoTask
      /\ UNCHANGED <<targets, outdated, proc_host, proc_remote, installs>>
  BY PageAssumption DEF UpdateAgent, nodes
<1>2. ~proc_remote.rows
  <2>1. CASE View = "settings"
    BY <2>1 DEF View, PageInv, ClosedInv
  <2>2. CASE proc_host \in 1..Len(targets) /\ targets[proc_host] = t
    <3>1. proc_host # 0 /\ t \notin ThisHost
      BY <1>1, <2>2 DEF PageInv, PageTyped
    <3> QED BY <1>1, <2>2, <3>1 DEF PageInv, AnswerInv, MayCome
  <2> QED BY <2>1, <2>2 DEF UpdateAgent
<1>3. NoTask \in ProcessTask
  BY DEF NoTask, ProcessTask
<1>4. PageTyped'
  BY <1>1, <1>3 DEF PageInv, PageTyped
<1> QED BY <1>1, <1>2, <1>4, PageIsClosed

-----------------------------------------------------------------------------
(* What comes from the background.  An adopted node stands behind the      *)
(* others, so it moves nobody.                                             *)
LEMMA PollMoves ==
  ASSUME PageInv, Tick
  PROVE  /\ UNCHANGED <<procs_open, proc_host, proc_confirm, install_host, outdated, installs>>
         /\ targets' \in Seq(Targets)
         /\ installs = 0 => /\ installer' = NoInstaller
                            /\ UNCHANGED <<targets, watched>> /\ known \subseteq known'
         /\ \A t: MayCome(t) => MayCome(t)'
<1>1. PICK arrived: PollInstaller(arrived)
  BY DEF Tick
<1>2. /\ UNCHANGED <<procs_open, proc_host, proc_confirm, install_host, outdated, installs>>
      /\ targets \in Seq(Targets) /\ Len(targets) \in Nat
      /\ install_host \in Targets \union {Nobody}
      /\ installs = 0 => installer = NoInstaller
  BY <1>1, PageFacts DEF Tick, PollInstaller, PageInv, PageTyped
<1>3. /\ targets' \in Seq(Targets) /\ Len(targets') \in Nat /\ Len(targets) <= Len(targets')
      /\ \A j \in 1..Len(targets): targets'[j] = targets[j]
  <2>1. CASE Adopts
    <3>1. targets' = Append(targets, install_host) /\ install_host \in Targets
      BY <1>1, <1>2, <2>1 DEF PollInstaller, Adopts, AddTarget
    <3> QED BY <1>2, <3>1, AppendProperties
  <2>2. CASE ~Adopts
    BY <1>1, <1>2, <2>2 DEF PollInstaller
  <2> QED BY <2>1, <2>2
<1>4. ASSUME installs = 0
      PROVE  installer' = NoInstaller /\ UNCHANGED <<targets, watched>> /\ known \subseteq known'
  <2>1. installer = NoInstaller /\ ~Adopts
    BY <1>2, <1>4 DEF Adopts, NoInstaller
  <2>2. [NoInstaller EXCEPT !.handled = TRUE] = NoInstaller
    <3>1. NoInstaller \in [host: {Nobody}, state: {"none"}, handled: {TRUE}]
      BY DEF NoInstaller
    <3> QED BY <3>1
  <2>3. installer' = [installer EXCEPT !.handled = TRUE]
    BY <1>1, <2>1 DEF PollInstaller, NoInstaller
  <2> QED BY <1>1, <2>1, <2>2, <2>3 DEF PollInstaller
<1>5. ASSUME NEW t, MayCome(t)
      PROVE  MayCome(t)'
  <2>1. CASE proc_host = 0
    BY <1>2, <2>1 DEF MayCome
  <2>2. CASE proc_host \in 1..Len(targets)
    <3>1. proc_host' \in 1..Len(targets') /\ targets'[proc_host'] = targets[proc_host]
      BY <1>2, <1>3, <2>2
    <3> QED BY <1>2, <1>4, <1>5, <2>2, <3>1 DEF MayCome
  <2> QED BY <1>5, <2>1, <2>2 DEF MayCome
<1> QED BY <1>2, <1>3, <1>4, <1>5

LEMMA TickInv ==
  ASSUME PageInv, Tick
  PROVE  PageInv'
<1>1. /\ UNCHANGED <<procs_open, proc_host, proc_confirm, install_host, outdated, installs>>
      /\ targets' \in Seq(Targets) /\ \A t: MayCome(t) => MayCome(t)'
      /\ proc_task \in ProcessTask /\ PollProcessTask
  BY PollMoves DEF PageInv, PageTyped, Tick
<1>2. installs = 0 => /\ installer' = NoInstaller
                      /\ UNCHANGED <<targets, watched>> /\ known \subseteq known'
  BY PollMoves
<1>3. NoTask \in ProcessTask /\ NoTask.kind = "none"
  BY DEF NoTask, ProcessTask
<1>4. PageTyped' /\ AnswerInv' /\ ClosedInv'
  <2>1. CASE UNCHANGED <<proc_task, proc_remote>>
    BY <1>1, <2>1 DEF PageInv, PageTyped, AnswerInv, ClosedInv
  <2>2. CASE /\ proc_task.kind = "list" /\ proc_task' = NoTask
             /\ proc_remote' = [of |-> proc_task.of, rows |-> proc_task.state = "ok"]
    <3>1. procs_open
      BY <1>3, <2>2 DEF PageInv, ClosedInv
    <3>2. \A t: t = proc_task.of => MayCome(t)'
      BY <1>1, <2>2 DEF PageInv, AnswerInv
    <3>3. proc_remote'.of = proc_task.of /\ (proc_remote'.rows <=> proc_task.state = "ok")
      BY <2>2
    <3>4. AnswerInv'
      BY <1>1, <1>3, <2>2, <3>2, <3>3 DEF PageInv, AnswerInv
    <3> QED BY <1>1, <1>3, <2>2, <3>1, <3>4 DEF PageInv, PageTyped, ClosedInv
  <2>3. CASE proc_task' = NoTask /\ UNCHANGED proc_remote
    BY <1>1, <1>3, <2>3 DEF PageInv, PageTyped, AnswerInv, ClosedInv
  <2>4. CASE proc_task.kind = "kill" /\ Refreshed(scanning, NoTask) /\ UNCHANGED proc_remote
    <3>1. procs_open
      BY <1>3, <2>4 DEF PageInv, ClosedInv
    <3>2. /\ proc_task' \in ProcessTask
          /\ proc_task'.kind = "list" =>
                /\ MayCome(proc_task.of)'
                /\ proc_task'.state = "ok" => proc_task'.of \notin outdated'
      BY <1>1, <1>3, <2>4, RefreshedTask
    <3> QED BY <1>1, <2>4, <3>1, <3>2 DEF PageInv, PageTyped, AnswerInv, ClosedInv
  <2> QED BY <1>1, <2>1, <2>2, <2>3, <2>4 DEF PollProcessTask
<1>5. ConfirmInv'
  <2> SUFFICES ASSUME installs = 0
               PROVE  Destination' = Destination
    BY <1>1 DEF PageInv, ConfirmInv
  <2>1. UNCHANGED <<targets, watched, proc_host>> /\ known \subseteq known'
    BY <1>1, <1>2
  <2>2. SelectedIsLocal => SelectedIsLocal'
    BY <2>1 DEF SelectedIsLocal
  <2>3. ~SelectedIsLocal /\ SelectedIsLocal' => targets[proc_host] \in ThisHost
    BY <2>1 DEF SelectedIsLocal
  <2> QED BY <2>1, <2>2, <2>3 DEF Destination, Machine
<1> QED BY <1>1, <1>2, <1>4, <1>5 DEF PageInv

LEMMA EndsInv ==
  ASSUME PageInv, TaskEnds \/ InstallEnds \/ AgentUpdated
  PROVE  PageInv'
<1>1. CASE TaskEnds
  <2>1. /\ UNCHANGED <<targets, watched, known, outdated, procs_open, proc_host, proc_remote,
                       proc_confirm, install_host, installer, installs>>
        /\ proc_task \in ProcessTask /\ proc_task.state = "running"
    BY <1>1 DEF TaskEnds, nodes, dialog, PageInv, PageTyped
  <2>2. /\ proc_task' \in ProcessTask
        /\ proc_task'.kind = proc_task.kind /\ proc_task'.of = proc_task.of
        /\ proc_task'.state = "ok" => proc_task.of \notin outdated
    BY <1>1, <2>1 DEF TaskEnds, ProcessTask, NoTask
  <2>3. procs_open
    BY <2>1 DEF PageInv, ClosedInv, NoTask
  <2>4. \A t: MayCome(t) => MayCome(t)'
    BY <2>1 DEF MayCome
  <2>5. AnswerInv'
    BY <2>1, <2>2, <2>4 DEF PageInv, AnswerInv
  <2> QED BY <2>1, <2>2, <2>3, <2>5 DEF PageInv, PageTyped, ClosedInv, ConfirmInv, Destination,
                                        SelectedIsLocal
<1>2. CASE InstallEnds
  <2>1. /\ UNCHANGED <<targets, watched, known, procs_open, proc_host, proc_remote, proc_task,
                       proc_confirm, install_host, installs>>
        /\ outdated' \subseteq outdated /\ installs # 0
    <3>1. installs # 0
      BY <1>2 DEF InstallEnds, PageInv, NoInstaller
    <3> QED BY <1>2, <3>1 DEF InstallEnds, page
  <2>2. \A t: MayCome(t) => MayCome(t)'
    BY <2>1 DEF MayCome
  <2>3. AnswerInv'
    BY <2>1, <2>2 DEF PageInv, AnswerInv
  <2> QED BY <2>1, <2>3 DEF PageInv, PageTyped, ClosedInv, ConfirmInv
<1>3. CASE AgentUpdated
  <2>1. /\ UNCHANGED <<targets, watched, known, procs_open, proc_host, proc_remote, proc_task,
                       proc_confirm, install_host, installer, installs>>
        /\ outdated' \subseteq outdated
    BY <1>3 DEF AgentUpdated, page, dialog
  <2>2. \A t: MayCome(t) => MayCome(t)'
    BY <2>1 DEF MayCome
  <2>3. AnswerInv'
    BY <2>1, <2>2 DEF PageInv, AnswerInv
  <2>4. PageTyped' /\ ConfirmInv'
    BY <2>1 DEF PageInv, PageTyped, ConfirmInv, Destination, SelectedIsLocal
  <2> QED BY <2>1, <2>3, <2>4 DEF PageInv, ClosedInv
<1> QED BY <1>1, <1>2, <1>3

LEMMA PageInit == Init => PageInv
<1> SUFFICES ASSUME Init PROVE PageInv
  OBVIOUS
<1>1. NoTask \in ProcessTask /\ NoTask.kind = "none" /\ ~NoList.rows
  BY DEF NoTask, ProcessTask, NoList
<1>2. PageTyped
  BY <1>1, PageAssumption DEF Init, PageTyped
<1> QED BY <1>1, <1>2 DEF Init, PageInv, AnswerInv, ClosedInv, ConfirmInv

LEMMA PageNext ==
  ASSUME ThisHost \intersect OldAgents = {}, PageInv, [Next]_vars
  PROVE  PageInv'
<1>1. CASE UNCHANGED vars \/ ToggleSettings
  BY <1>1, NothingMoves DEF vars, page, nodes, dialog, ToggleSettings
<1>2. CASE User /\ ~ToggleSettings
  BY <1>2, PopupInv, ProcessesInv, CloseInv, SignalInv, SettingsInv, UpdateInv DEF User
<1>3. CASE Tick \/ TaskEnds \/ InstallEnds \/ AgentUpdated
  BY <1>3, TickInv, EndsInv
<1> QED BY <1>1, <1>2, <1>3 DEF Next

(* selected_is_local, ProcessHost and poll_process_task: the page lists    *)
(* rows of the selected host only, whatever node list is edited, whichever *)
(* answer comes late and whatever is installed meanwhile.  An agent of     *)
(* this machine must not be an outdated one: UpdateAgent would leave the   *)
(* rows of the host before on the page.                                    *)
THEOREM RowsAreOfSelected ==
  ASSUME ThisHost \intersect OldAgents = {}
  PROVE  Spec => []RowsMatchHost
<1>1. PageInv /\ [Next]_vars => PageInv'
  BY PageNext
<1>2. PageInv => RowsMatchHost
  BY ListedIs DEF PageInv, RowsMatchHost
<1> QED BY <1>1, <1>2, PageInit, PTL DEF Spec

(* perform_signal: until an installation is started, a signal goes to the  *)
(* machine of the row it was asked for.                                    *)
THEOREM SignalsGoWhereAsked ==
  ASSUME ThisHost \intersect OldAgents = {}
  PROVE  Spec => SignalMatchesUntilInstall
<1>1. PageInv /\ [Next]_vars => PageInv'
  BY PageNext
<1>2. PageInv => [ConfirmSignal /\ installs = 0 => Destination = proc_confirm]_vars
  BY DEF PageInv, ConfirmInv, ConfirmSignal, View
<1> QED BY <1>1, <1>2, PageInit, PTL DEF Spec, SignalMatchesUntilInstall

-----------------------------------------------------------------------------
(* Types, and a node list that has no node twice.                          *)
LEMMA AddTargetInjective ==
  ASSUME targets \in Seq(Targets), IsInjective(targets), NEW t \in Targets
  PROVE  AddTarget(t) \in Seq(Targets) /\ IsInjective(AddTarget(t))
<1>1. CASE t \in Range(targets)
  BY <1>1 DEF AddTarget
<1>2. CASE t \notin Range(targets)
  <2> DEFINE s == Append(targets, t)
  <2>1. /\ Len(targets) \in Nat /\ DOMAIN targets = 1..Len(targets)
        /\ \A j \in 1..Len(targets): targets[j] # t
    BY <1>2, LenProperties DEF Range
  <2>2. /\ s \in Seq(Targets) /\ DOMAIN s = 1..Len(targets) + 1 /\ s[Len(targets) + 1] = t
        /\ \A j \in 1..Len(targets): s[j] = targets[j]
    BY AppendProperties, LenProperties
  <2>3. \A j, k \in 1..Len(targets) + 1: s[j] = s[k] => j = k
    <3> SUFFICES ASSUME NEW j \in 1..Len(targets) + 1, NEW k \in 1..Len(targets) + 1, s[j] = s[k]
                 PROVE  j = k
      OBVIOUS
    <3>1. /\ j \in 1..Len(targets) \/ j = Len(targets) + 1
          /\ k \in 1..Len(targets) \/ k = Len(targets) + 1
      BY <2>1
    <3>2. CASE j \in 1..Len(targets) /\ k \in 1..Len(targets)
      BY <2>1, <2>2, <3>2 DEF IsInjective
    <3>3. CASE j = Len(targets) + 1 \/ k = Len(targets) + 1
      BY <2>1, <2>2, <3>1, <3>3
    <3> QED BY <3>1, <3>2, <3>3
  <2> QED BY <1>2, <2>2, <2>3 DEF AddTarget, IsInjective
<1> QED BY <1>1, <1>2

LEMMA RemoveAtInjective ==
  ASSUME targets \in Seq(Targets), IsInjective(targets), NEW index \in 1..Len(targets)
  PROVE  RemoveAt(targets, index) \in Seq(Targets) /\ IsInjective(RemoveAt(targets, index))
<1> DEFINE n == Len(targets)
           s == RemoveAt(targets, index)
           a == SubSeq(targets, 1, index - 1)
           b == SubSeq(targets, index + 1, n)
<1>1. n \in Nat /\ index \in 1..n /\ DOMAIN targets = 1..n /\ \A j \in 1..n: targets[j] \in Targets
  BY LenProperties, ElementOfSeq
<1> HIDE DEF n
<1>2. a \in Seq(Targets) /\ Len(a) = index - 1 /\ \A j \in 1..index - 1: a[j] = targets[j]
  <2>1. 1 \in Int /\ index - 1 \in Int /\ \A j \in 1..index - 1: targets[j] \in Targets
    BY <1>1
  <2>2. a \in Seq(Targets) /\ Len(a) = (IF 1 <= index - 1 THEN index - 1 - 1 + 1 ELSE 0)
    BY <2>1, SubSeqProperties
  <2>3. \A j \in 1..index - 1: a[j] = targets[1 + j - 1]
    BY <2>1, SubSeqProperties
  <2> QED BY <1>1, <2>2, <2>3
<1>3. b \in Seq(Targets) /\ Len(b) = n - index /\ \A j \in 1..n - index: b[j] = targets[index + j]
  <2>1. n \in Int /\ index + 1 \in Int /\ \A j \in index + 1..n: targets[j] \in Targets
    BY <1>1
  <2>2. b \in Seq(Targets) /\ Len(b) = (IF index + 1 <= n THEN n - (index + 1) + 1 ELSE 0)
    BY <2>1, SubSeqProperties
  <2>3. \A j \in 1..n - (index + 1) + 1: b[j] = targets[index + 1 + j - 1]
    BY <2>1, SubSeqProperties
  <2> QED BY <1>1, <2>2, <2>3
<1>4. s = a \o b
  BY DEF RemoveAt, n
<1>5. /\ s \in Seq(Targets) /\ Len(s) = n - 1
      /\ \A j \in 1..n - 1: s[j] = IF j < index THEN targets[j] ELSE targets[j + 1]
  <2> HIDE DEF a, b, s
  <2>1. /\ a \o b \in Seq(Targets) /\ Len(a \o b) = Len(a) + Len(b)
        /\ \A j \in 1..Len(a) + Len(b): (a \o b)[j] = IF j <= Len(a) THEN a[j] ELSE b[j - Len(a)]
    BY <1>2, <1>3, ConcatProperties
  <2>2. Len(a) + Len(b) = n - 1
    BY <1>1, <1>2, <1>3
  <2>3. ASSUME NEW j \in 1..n - 1
        PROVE  s[j] = IF j < index THEN targets[j] ELSE targets[j + 1]
    <3>1. CASE j < index
      BY <1>1, <1>2, <1>4, <2>1, <2>2, <3>1
    <3>2. CASE ~(j < index)
      <4>1. s[j] = b[j - (index - 1)]
        BY <1>1, <1>2, <1>4, <2>1, <2>2, <3>2
      <4>2. j - (index - 1) \in 1..n - index /\ index + (j - (index - 1)) = j + 1
        BY <1>1, <3>2
      <4> QED BY <1>3, <3>2, <4>1, <4>2
    <3> QED BY <3>1, <3>2
  <2> QED BY <1>4, <2>1, <2>2, <2>3
<1>6. ASSUME NEW j \in 1..n - 1, NEW k \in 1..n - 1, s[j] = s[k]
      PROVE  j = k
  <2> DEFINE from(i) == IF i < index THEN i ELSE i + 1
  <2>1. from(j) \in 1..n /\ from(k) \in 1..n
    BY <1>1
  <2>2. targets[from(j)] = targets[from(k)]
    BY <1>5, <1>6
  <2>3. from(j) = from(k)
    BY <1>1, <2>1, <2>2 DEF IsInjective
  <2> QED BY <1>1, <2>3
<1>7. DOMAIN s = 1..n - 1
  BY <1>5, LenProperties
<1> QED BY <1>5, <1>6, <1>7 DEF IsInjective

PageOK ==
    /\ popup \in BOOLEAN /\ settings_open \in BOOLEAN
    /\ procs_open \in BOOLEAN /\ scanning \in BOOLEAN
    /\ proc_host \in Nat /\ proc_remote \in ProcessList /\ proc_task \in ProcessTask
    /\ proc_confirm \in Targets \union {Here, Nobody}

NodesOK ==
    /\ targets \in Seq(Targets) /\ IsInjective(targets)
    /\ watched \subseteq Targets /\ known \subseteq watched /\ outdated \subseteq Targets

DialogOK ==
    /\ install_host \in Targets \union {Nobody} /\ installer \in Installer
    /\ edits \in 0..MaxEdits /\ installs \in 0..MaxInstalls

LEMMA TypeParts == TypeOK => PageOK /\ NodesOK /\ DialogOK
  BY DEF TypeOK, PageOK, NodesOK, DialogOK

LEMMA TypeWhole == PageOK /\ NodesOK /\ DialogOK => TypeOK
  BY DEF TypeOK, PageOK, NodesOK, DialogOK

LEMMA TypeNext == PageOK' /\ NodesOK' /\ DialogOK' => TypeOK'
  BY DEF TypeOK, PageOK, NodesOK, DialogOK

LEMMA Nothings == NoTask \in ProcessTask /\ NoList \in ProcessList /\ NoInstaller \in Installer
  BY DEF NoTask, ProcessTask, NoList, ProcessList, NoInstaller, Installer

LEMMA NodesStay ==
  ASSUME NodesOK, UNCHANGED nodes
  PROVE  NodesOK'
  BY DEF NodesOK, nodes

LEMMA DialogStays ==
  ASSUME DialogOK, UNCHANGED <<dialog, edits, installs>>
  PROVE  DialogOK'
  BY DEF DialogOK, dialog

LEMMA PageStays ==
  ASSUME PageOK, UNCHANGED <<popup, page>>
  PROVE  PageOK'
  BY DEF PageOK, page

LEMMA RefreshedTyped ==
  ASSUME NEW active \in BOOLEAN, NEW task \in ProcessTask, Refreshed(active, task),
         targets' \in Seq(Targets)
  PROVE  scanning' \in BOOLEAN /\ proc_task' \in ProcessTask
<1>1. CASE SelectedIsLocal'
  BY <1>1 DEF Refreshed
<1>2. CASE ~SelectedIsLocal'
  <2>1. proc_host' \in 1..Len(targets')
    BY <1>2 DEF SelectedIsLocal
  <2>2. targets'[proc_host'] \in Targets
    BY <2>1, ElementOfSeq
  <2>3. scanning' = active /\ proc_task' = Request("list", targets'[proc_host'])
    BY <1>2 DEF Refreshed
  <2> QED BY <2>2, <2>3, NewRequest
<1> QED BY <1>1, <1>2

LEMMA PageTypes ==
  ASSUME PageOK, NodesOK,
         \/ TogglePopup \/ PopupClosed \/ OpenProcesses \/ CloseProcesses
         \/ RefreshProcesses \/ AskSignal \/ CancelSignal \/ ConfirmSignal \/ ToggleSettings
         \/ \E index \in 0..Len(targets): ProcessHost(index)
  PROVE  PageOK' /\ UNCHANGED <<nodes, dialog, edits, installs>>
<1>1. UNCHANGED <<nodes, dialog, edits, installs>>
  BY DEF TogglePopup, PopupClosed, OpenProcesses, CloseProcesses, RefreshProcesses, AskSignal,
         CancelSignal, ConfirmSignal, ToggleSettings, ProcessHost
<1>2. targets \in Seq(Targets) /\ targets' \in Seq(Targets)
  BY <1>1 DEF NodesOK, nodes
<1>3. CASE TogglePopup
  <2>1. /\ popup' \in BOOLEAN /\ scanning' \in BOOLEAN
        /\ UNCHANGED <<settings_open, procs_open, proc_host, proc_remote, proc_task,
                       proc_confirm>>
    BY <1>3 DEF TogglePopup, PageOK
  <2> QED BY <1>1, <2>1 DEF PageOK
<1>4. CASE PopupClosed \/ CloseProcesses
  BY <1>1, <1>4, Nothings DEF PopupClosed, CloseProcesses, PageOK
<1>5. CASE OpenProcesses \/ RefreshProcesses
  <2>1. scanning' \in BOOLEAN /\ proc_task' \in ProcessTask
    <3>1. PICK active \in BOOLEAN, task \in ProcessTask: Refreshed(active, task)
      BY <1>5 DEF OpenProcesses, RefreshProcesses, PageOK
    <3> QED BY <1>2, <3>1, RefreshedTyped
  <2>2. /\ UNCHANGED <<popup, settings_open, proc_host, proc_remote>>
        /\ procs_open' = TRUE \/ procs_open' = procs_open
        /\ proc_confirm' = Nobody \/ proc_confirm' = proc_confirm
    BY <1>5 DEF OpenProcesses, RefreshProcesses
  <2> QED BY <1>1, <2>1, <2>2 DEF PageOK
<1>6. ASSUME NEW index \in 0..Len(targets), ProcessHost(index)
      PROVE  PageOK'
  <2>1. scanning' \in BOOLEAN /\ proc_task' \in ProcessTask
    <3>1. PICK active \in BOOLEAN, task \in ProcessTask: Refreshed(active, task)
      BY <1>6 DEF ProcessHost, PageOK
    <3> QED BY <1>2, <3>1, RefreshedTyped
  <2>2. index \in Nat
    OBVIOUS
  <2>3. /\ UNCHANGED <<popup, settings_open, procs_open>> /\ proc_host' = index
        /\ proc_confirm' = Nobody /\ proc_remote' = NoList
    BY <1>6 DEF ProcessHost
  <2> QED BY <2>1, <2>2, <2>3, Nothings DEF PageOK
<1>7. CASE AskSignal \/ CancelSignal
  <2>1. proc_confirm' \in Targets \union {Here, Nobody}
    <3>1. CASE AskSignal
      <4>1. proc_remote.of \in Targets \union {Nobody}
        BY DEF PageOK, ProcessList, NoList
      <4>2. proc_confirm' = Listed /\ Listed # Nobody
        BY <3>1 DEF AskSignal
      <4>3. Listed \in {Here, proc_remote.of, Nobody} /\ (Listed = proc_remote.of => Listed # Nobody)
        BY <4>2 DEF Listed, Machine
      <4> QED BY <4>1, <4>2, <4>3
    <3>2. CASE CancelSignal
      BY <3>2 DEF CancelSignal
    <3> QED BY <1>7, <3>1, <3>2
  <2>2. UNCHANGED <<popup, settings_open, procs_open, scanning, proc_host, proc_remote,
                    proc_task>>
    BY <1>7 DEF AskSignal, CancelSignal
  <2> QED BY <1>1, <2>1, <2>2 DEF PageOK
<1>8. CASE ConfirmSignal
  <2>1. proc_task' \in ProcessTask
    <3>1. CASE SelectedIsLocal
      BY <1>8, <3>1 DEF ConfirmSignal, PageOK
    <3>2. CASE ~SelectedIsLocal
      <4>1. targets[proc_host] \in Targets
        BY <1>2, <3>2, ElementOfSeq DEF SelectedIsLocal
      <4> QED BY <1>8, <3>2, <4>1, NewRequest DEF ConfirmSignal
    <3> QED BY <3>1, <3>2
  <2>2. /\ UNCHANGED <<popup, settings_open, procs_open, scanning, proc_host, proc_remote>>
        /\ proc_confirm' = Nobody
    BY <1>8 DEF ConfirmSignal
  <2> QED BY <1>1, <2>1, <2>2 DEF PageOK
<1>9. CASE ToggleSettings
  <2>1. /\ settings_open' \in BOOLEAN
        /\ UNCHANGED <<popup, procs_open, scanning, proc_host, proc_remote, proc_task,
                       proc_confirm>>
    BY <1>9 DEF ToggleSettings
  <2> QED BY <1>1, <2>1 DEF PageOK
<1> QED BY <1>1, <1>3, <1>4, <1>5, <1>6, <1>7, <1>8, <1>9

LEMMA SettingsTypes ==
  ASSUME TypeOK,
         \/ \E t \in Targets: AddHost(t)
         \/ \E index \in 0..Len(targets): RemoveHost(index)
         \/ SaveSettings \/ AddHostOnly
  PROVE  TypeOK'
<1>1. PageOK /\ NodesOK /\ DialogOK
  BY TypeParts
<1>2. PageOK'
  <2>1. /\ UNCHANGED <<popup, procs_open, scanning, proc_host, proc_remote, proc_task,
                       proc_confirm>>
        /\ settings_open' = TRUE \/ settings_open' = settings_open
    BY DEF AddHost, RemoveHost, SaveSettings, AddHostOnly, page
  <2> QED BY <1>1, <2>1 DEF PageOK
<1>3. NodesOK'
  <2>1. CASE \E t \in Targets: AddHost(t)
    BY <1>1, <2>1, AddTargetInjective DEF AddHost, NodesOK
  <2>2. CASE \E index \in 0..Len(targets): RemoveHost(index)
    BY <1>1, <2>2, RemoveAtInjective DEF RemoveHost, NodesOK
  <2>3. CASE SaveSettings
    <3>1. Range(targets) \subseteq Targets
      BY <1>1, LenProperties, ElementOfSeq DEF NodesOK, Range
    <3> QED BY <1>1, <2>3, <3>1 DEF SaveSettings, NodesOK
  <2>4. CASE AddHostOnly
    <3>1. targets' \in Seq(Targets) /\ IsInjective(targets')
      BY <1>1, <2>4, AddTargetInjective DEF AddHostOnly, NodesOK, DialogOK
    <3> QED BY <1>1, <2>4, <3>1 DEF AddHostOnly, NodesOK
  <2> QED BY <2>1, <2>2, <2>3, <2>4
<1>4. DialogOK'
  <2>1. CASE AddHostOnly
    BY <1>1, <2>1, Nothings DEF AddHostOnly, DialogOK
  <2>2. CASE ~AddHostOnly
    <3>1. UNCHANGED <<install_host, installer, installs>>
      BY <2>2 DEF AddHost, RemoveHost, SaveSettings, dialog
    <3>2. edits' = edits \/ (edits < MaxEdits /\ edits' = edits + 1)
      BY <2>2 DEF AddHost, RemoveHost, SaveSettings
    <3>3. edits' \in 0..MaxEdits
      BY <1>1, <3>2, PageAssumption DEF DialogOK
    <3> QED BY <1>1, <3>1, <3>3 DEF DialogOK
  <2> QED BY <2>1, <2>2
<1> QED BY <1>2, <1>3, <1>4, TypeNext

LEMMA InstallerTypes ==
  ASSUME TypeOK,
         \/ \E text \in Targets \union {Nobody}: OpenInstaller(text) \/ InstallHost(text)
         \/ StartInstall \/ CloseInstaller \/ (\E t \in Targets: UpdateAgent(t)) \/ InstallEnds
  PROVE  TypeOK'
<1>1. PageOK /\ NodesOK /\ DialogOK
  BY TypeParts
<1>2. PageOK'
  <2>1. CASE \E t \in Targets: UpdateAgent(t)
    BY <1>1, <2>1, Nothings DEF UpdateAgent, PageOK
  <2>2. CASE ~ \E t \in Targets: UpdateAgent(t)
    <3>1. /\ UNCHANGED <<popup, procs_open, scanning, proc_host, proc_remote, proc_task,
                         proc_confirm>>
          /\ settings_open' \in {TRUE, FALSE, settings_open}
      BY <2>2 DEF OpenInstaller, InstallHost, StartInstall, CloseInstaller, InstallEnds, page
    <3> QED BY <1>1, <3>1 DEF PageOK
  <2> QED BY <2>1, <2>2
<1>3. NodesOK'
  <2>1. /\ UNCHANGED <<targets, watched, known>>
        /\ outdated' = outdated \/ outdated' = outdated \ {installer.host}
    BY DEF OpenInstaller, InstallHost, StartInstall, CloseInstaller, UpdateAgent, InstallEnds,
           nodes
  <2> QED BY <1>1, <2>1 DEF NodesOK
<1>4. install_host' \in Targets \union {Nobody}
  BY <1>1, PageAssumption
     DEF OpenInstaller, InstallHost, StartInstall, CloseInstaller, UpdateAgent, InstallEnds,
         DialogOK
<1>5. installer' \in Installer
  <2>1. CASE StartInstall
    BY <1>1, <2>1 DEF StartInstall, DialogOK, Installer
  <2>2. CASE InstallEnds
    BY <1>1, <2>2 DEF InstallEnds, DialogOK, Installer
  <2>3. CASE ~StartInstall /\ ~InstallEnds
    BY <1>1, <2>3, Nothings DEF OpenInstaller, InstallHost, CloseInstaller, UpdateAgent, DialogOK
  <2> QED BY <2>1, <2>2, <2>3
<1>6. installs' \in 0..MaxInstalls /\ edits' \in 0..MaxEdits
  <2>1. /\ edits' = edits
        /\ installs' = installs \/ (installs < MaxInstalls /\ installs' = installs + 1)
    BY DEF OpenInstaller, InstallHost, StartInstall, CloseInstaller, UpdateAgent, InstallEnds
  <2> QED BY <1>1, <2>1, PageAssumption DEF DialogOK
<1> QED BY <1>2, <1>3, <1>4, <1>5, <1>6, TypeNext DEF DialogOK

LEMMA TickTypes ==
  ASSUME TypeOK, Tick
  PROVE  TypeOK'
<1>1. PageOK /\ NodesOK /\ DialogOK
  BY TypeParts
<1>2. PICK arrived \in SUBSET (watched \ known): PollInstaller(arrived)
  BY DEF Tick
<1>3. NodesOK'
  <2>1. CASE Adopts
    <3>1. targets' \in Seq(Targets) /\ IsInjective(targets')
      BY <1>1, <1>2, <2>1, AddTargetInjective DEF PollInstaller, Adopts, NodesOK, DialogOK
    <3>2. Range(targets') \subseteq Targets
      BY <3>1, LenProperties, ElementOfSeq DEF Range
    <3> QED BY <1>1, <1>2, <2>1, <3>1, <3>2 DEF PollInstaller, NodesOK
  <2>2. CASE ~Adopts
    BY <1>1, <1>2, <2>2 DEF PollInstaller, NodesOK
  <2> QED BY <2>1, <2>2
<1>4. DialogOK'
  <2>1. installer' \in Installer
    BY <1>1, <1>2 DEF PollInstaller, DialogOK, Installer
  <2> QED BY <1>1, <1>2, <2>1 DEF PollInstaller, DialogOK, Tick
<1>5. scanning' \in BOOLEAN /\ proc_task' \in ProcessTask
  <2>1. CASE Refreshed(scanning, NoTask)
    BY <1>1, <1>3, <2>1, RefreshedTyped, Nothings DEF PageOK, NodesOK
  <2>2. CASE ~Refreshed(scanning, NoTask)
    <3>1. scanning' = scanning /\ (proc_task' = proc_task \/ proc_task' = NoTask)
      BY <2>2 DEF Tick, PollProcessTask
    <3> QED BY <1>1, <3>1, Nothings DEF PageOK
  <2> QED BY <2>1, <2>2
<1>6. proc_remote' \in ProcessList
  <2>1. CASE /\ proc_task.kind = "list"
             /\ proc_remote' = [of |-> proc_task.of, rows |-> proc_task.state = "ok"]
    <3>1. proc_task.of \in Targets
      BY <1>1, <2>1 DEF PageOK, ProcessTask, NoTask
    <3>2. (proc_task.state = "ok") \in BOOLEAN
      OBVIOUS
    <3> QED BY <2>1, <3>1, <3>2 DEF ProcessList
  <2>2. CASE proc_remote' = proc_remote
    BY <1>1, <2>2 DEF PageOK
  <2> QED BY <2>1, <2>2 DEF Tick, PollProcessTask
<1>7. PageOK'
  <2>1. UNCHANGED <<popup, settings_open, procs_open, proc_host, proc_confirm>>
    BY DEF Tick
  <2> QED BY <1>1, <1>5, <1>6, <2>1 DEF PageOK
<1> QED BY <1>3, <1>4, <1>7, TypeNext

(***************************************************************************)
(* The types of the applet's state; add_target and remove keep a list that *)
(* names no node twice, and the monitor's snapshot knows watched nodes.    *)
(***************************************************************************)
THEOREM TypeCorrect == Spec => []TypeOK
<1>1. Init => TypeOK
  <2> SUFFICES ASSUME Init PROVE TypeOK
    OBVIOUS
  <2>1. Range(Configured) \subseteq Targets
    BY PageAssumption, LenProperties, ElementOfSeq DEF Range
  <2>2. PageOK
    BY Nothings DEF Init, PageOK
  <2>3. NodesOK
    BY <2>1, PageAssumption DEF Init, NodesOK
  <2>4. DialogOK
    BY Nothings, PageAssumption DEF Init, DialogOK
  <2> QED BY <2>2, <2>3, <2>4, TypeWhole
<1>2. TypeOK /\ [Next]_vars => TypeOK'
  <2> SUFFICES ASSUME TypeOK, [Next]_vars PROVE TypeOK'
    OBVIOUS
  <2>1. PageOK /\ NodesOK /\ DialogOK
    BY TypeParts
  <2>2. CASE \/ TogglePopup \/ PopupClosed \/ OpenProcesses \/ CloseProcesses
             \/ RefreshProcesses \/ AskSignal \/ CancelSignal \/ ConfirmSignal
             \/ ToggleSettings \/ \E index \in 0..Len(targets): ProcessHost(index)
    BY <2>1, <2>2, PageTypes, NodesStay, DialogStays, TypeNext
  <2>3. CASE \/ \E t \in Targets: AddHost(t)
             \/ \E index \in 0..Len(targets): RemoveHost(index)
             \/ SaveSettings \/ AddHostOnly
    BY <2>3, SettingsTypes
  <2>4. CASE \/ \E text \in Targets \union {Nobody}: OpenInstaller(text) \/ InstallHost(text)
             \/ StartInstall \/ CloseInstaller \/ (\E t \in Targets: UpdateAgent(t))
             \/ InstallEnds
    BY <2>4, InstallerTypes
  <2>5. CASE Tick
    BY <2>5, TickTypes
  <2>6. CASE TaskEnds
    <3>1. proc_task' \in ProcessTask
      BY <2>1, <2>6 DEF TaskEnds, PageOK, ProcessTask, NoTask
    <3>2. /\ UNCHANGED <<popup, settings_open, procs_open, scanning, proc_host, proc_remote,
                         proc_confirm>>
          /\ UNCHANGED <<nodes, dialog, edits, installs>>
      BY <2>6 DEF TaskEnds
    <3>3. PageOK'
      BY <2>1, <3>1, <3>2 DEF PageOK
    <3> QED BY <2>1, <3>2, <3>3, NodesStay, DialogStays, TypeNext
  <2>7. CASE UNCHANGED vars
    BY <2>1, <2>7, PageStays, NodesStay, DialogStays, TypeNext DEF vars
  <2>8. CASE AgentUpdated
    <3>1. /\ UNCHANGED <<popup, page, targets, watched, known, dialog, edits, installs>>
          /\ outdated' \subseteq outdated
      BY <2>8 DEF AgentUpdated
    <3>2. NodesOK' /\ PageOK'
      BY <2>1, <3>1, PageStays DEF NodesOK
    <3> QED BY <2>1, <3>1, <3>2, DialogStays, TypeNext
  <2> QED BY <2>2, <2>3, <2>4, <2>5, <2>6, <2>7, <2>8 DEF Next, User
<1> QED BY <1>1, <1>2, PTL DEF Spec

-----------------------------------------------------------------------------
(* ProcessPage implements InstallDialog.                                   *)

(* Without an installation the dialog has nothing to handle.               *)
NoneInv == installer.state = "none" => installer = NoInstaller

DialogStep == [Dialog!DialogNext]_(Dialog!dialogVars)

(* The actions that change the installation the dialog shows, or an agent.  *)
LEMMA InstallerMoves ==
  ASSUME [Next]_vars
  PROVE  \/ UNCHANGED <<installer, outdated>>
         \/ installer' = NoInstaller /\ UNCHANGED outdated
         \/ StartInstall \/ InstallEnds \/ AgentUpdated \/ Tick
<1>1. CASE \/ TogglePopup \/ PopupClosed \/ OpenProcesses \/ CloseProcesses
           \/ RefreshProcesses \/ AskSignal \/ CancelSignal \/ ConfirmSignal
           \/ \E index \in 0..Len(targets): ProcessHost(index)
  BY <1>1 DEF TogglePopup, PopupClosed, OpenProcesses, CloseProcesses, RefreshProcesses,
             AskSignal, CancelSignal, ConfirmSignal, ProcessHost, nodes, dialog
<1>2. CASE \/ ToggleSettings \/ SaveSettings
           \/ \E t \in Targets: AddHost(t) \/ UpdateAgent(t)
           \/ \E index \in 0..Len(targets): RemoveHost(index)
           \/ \E text \in Targets \union {Nobody}: OpenInstaller(text) \/ InstallHost(text)
           \/ CloseInstaller \/ AddHostOnly
  BY <1>2 DEF ToggleSettings, SaveSettings, AddHost, UpdateAgent, RemoveHost, OpenInstaller,
             InstallHost, CloseInstaller, AddHostOnly, nodes, dialog
<1>3. CASE TaskEnds \/ UNCHANGED vars
  BY <1>3 DEF TaskEnds, vars, nodes, dialog
<1> QED BY <1>1, <1>2, <1>3 DEF Next, User

LEMMA NoneNext ==
  ASSUME TypeOK, NoneInv, [Next]_vars
  PROVE  NoneInv'
<1>1. installer \in Installer
  BY DEF TypeOK
<1>2. CASE UNCHANGED installer
  BY <1>2 DEF NoneInv
<1>3. CASE installer' = NoInstaller
  BY <1>3 DEF NoneInv
<1>4. CASE StartInstall \/ InstallEnds
  <2>1. CASE StartInstall
    BY <2>1 DEF StartInstall, NoneInv
  <2>2. CASE InstallEnds
    <3>1. \E s \in {"ok", "failed"}: installer' = [installer EXCEPT !.host = Nobody, !.state = s]
      BY <2>2 DEF InstallEnds
    <3>2. installer'.state # "none"
      BY <1>1, <3>1 DEF Installer
    <3> QED BY <3>2 DEF NoneInv
  <2> QED BY <1>4, <2>1, <2>2
<1>5. CASE Tick
  <2>1. installer' = [installer EXCEPT !.handled = @ \/ installer.state # "running"]
    BY <1>5 DEF Tick, PollInstaller
  <2>2. CASE installer.state = "none"
    <3>1. installer = NoInstaller
      BY <2>2 DEF NoneInv
    <3> QED BY <2>1, <3>1 DEF NoneInv, NoInstaller
  <2>3. CASE installer.state # "none"
    BY <1>1, <2>1, <2>3 DEF NoneInv, Installer
  <2> QED BY <2>2, <2>3
<1>6. CASE AgentUpdated
  BY <1>2, <1>6 DEF AgentUpdated, dialog
<1> QED BY <1>2, <1>3, <1>4, <1>5, <1>6, InstallerMoves

LEMMA PageStepMaps ==
  ASSUME TypeOK, NoneInv, [Next]_vars
  PROVE  DialogStep
<1>1. installer \in Installer /\ outdated \subseteq Targets
  BY DEF TypeOK
<1>2. installer.host \in Targets \union {Nobody} /\ installer.handled \in BOOLEAN
  BY <1>1 DEF Installer
<1>3. CASE UNCHANGED <<installer, outdated>>
  BY <1>3 DEF DialogStep, Dialog!dialogVars
<1>4. CASE installer' = NoInstaller /\ UNCHANGED outdated
  <2>1. Dialog!Forget
    BY <1>4 DEF Dialog!Forget, Dialog!Nothing, NoInstaller
  <2> QED BY <2>1 DEF DialogStep, Dialog!DialogNext
<1>5. CASE StartInstall
  <2>1. /\ installer.handled /\ install_host \in Targets \union {Nobody}
        /\ installer' = [host |-> install_host, state |-> "running", handled |-> FALSE]
        /\ outdated' = outdated
    BY <1>5 DEF StartInstall, nodes, TypeOK
  <2>2. Dialog!Begin
    BY <2>1 DEF Dialog!Begin
  <2> QED BY <2>2 DEF DialogStep, Dialog!DialogNext
<1>6. CASE InstallEnds
  <2>1. CASE /\ installer.host # Nobody
             /\ installer' = [installer EXCEPT !.host = Nobody, !.state = "ok"]
             /\ \/ outdated' = outdated \ {installer.host}
                \/ installer.host \in MuteAgents /\ UNCHANGED outdated
    <3>1. /\ installer'.host = Nobody /\ installer'.state = "ok"
          /\ installer'.handled = installer.handled
      BY <1>1, <2>1 DEF Installer
    <3>2. installer.host \in Targets
      BY <1>2, <2>1
    <3>3. (Targets \ (outdated \ MuteAgents))'
             = (Targets \ (outdated \ MuteAgents)) \union {installer.host}
      BY <2>1, <3>2
    <3>4. Dialog!Ends
      BY <1>6, <3>1, <3>2, <3>3 DEF InstallEnds, Dialog!Ends, Dialog!OnlyAt
    <3> QED BY <3>4 DEF DialogStep, Dialog!DialogNext
  <2>2. CASE /\ installer' = [installer EXCEPT !.host = Nobody, !.state = "failed"]
             /\ UNCHANGED outdated
    <3>1. /\ installer'.host = Nobody /\ installer'.state = "failed"
          /\ installer'.handled = installer.handled
      BY <1>1, <2>2 DEF Installer
    <3>2. Dialog!Ends
      BY <1>6, <2>2, <3>1 DEF InstallEnds, Dialog!Ends
    <3> QED BY <3>2 DEF DialogStep, Dialog!DialogNext
  <2> QED BY <1>6, <2>1, <2>2 DEF InstallEnds
<1>7. CASE AgentUpdated
  <2>1. PICK t \in outdated: outdated' = outdated \ {t}
    BY <1>7 DEF AgentUpdated
  <2>2. installer' = installer
    BY <1>7 DEF AgentUpdated, dialog
  <2>3. /\ t \in Targets
        /\ (Targets \ (outdated \ MuteAgents))'
              = (Targets \ (outdated \ MuteAgents)) \union {t}
    BY <1>1, <2>1
  <2>4. Dialog!Elsewhere
    BY <2>2, <2>3 DEF Dialog!Elsewhere, Dialog!OnlyAt
  <2> QED BY <2>4 DEF DialogStep, Dialog!DialogNext
<1>8. CASE Tick
  <2>1. /\ installer' = [installer EXCEPT !.handled = @ \/ installer.state # "running"]
        /\ outdated' = outdated
    BY <1>8 DEF Tick, PollInstaller
  <2>2. CASE installer.state = "running"
    <3>1. installer' = installer
      BY <1>1, <2>1, <2>2 DEF Installer
    <3> QED BY <1>3, <2>1, <3>1
  <2>3. CASE installer.state = "none"
    <3>1. installer = NoInstaller
      BY <2>3 DEF NoneInv
    <3>2. (installer.handled \/ installer.state # "running") = installer.handled
      BY <2>3, <3>1 DEF NoInstaller
    <3>3. installer' = [installer EXCEPT !.handled = installer.handled]
      BY <2>1, <3>2
    <3>4. installer' = installer
      BY <1>1, <3>3 DEF Installer
    <3> QED BY <1>3, <2>1, <3>4
  <2>4. CASE installer.state \in {"ok", "failed"}
    <3>1. /\ installer'.handled = TRUE /\ installer'.host = installer.host
          /\ installer'.state = installer.state
      BY <1>1, <2>1, <2>4 DEF Installer
    <3>2. Dialog!Mirror
      BY <2>1, <2>4, <3>1 DEF Dialog!Mirror
    <3> QED BY <3>2 DEF DialogStep, Dialog!DialogNext
  <2>5. installer.state \in {"none", "running", "ok", "failed"}
    BY <1>1 DEF Installer
  <2> QED BY <2>2, <2>3, <2>4, <2>5
<1> QED BY <1>3, <1>4, <1>5, <1>6, <1>7, <1>8, InstallerMoves

(* The popup treats its installation as the dialog's contract says, which  *)
(* the jobs of install.rs keep (NodeInstall): it starts one when the end   *)
(* of the last is known, adopts an end once, and takes a host's agent for  *)
(* updated only after a success or when another has updated it.            *)
THEOREM PageImplementsDialog == Spec => PageKeepsDialog
<1>1. Init => Dialog!DialogInit /\ NoneInv
  BY PageAssumption DEF Init, Dialog!DialogInit, Dialog!Nothing, NoInstaller, NoneInv
<1>2. TypeOK /\ NoneInv /\ [Next]_vars => [Dialog!DialogNext]_(Dialog!dialogVars)
  BY PageStepMaps DEF DialogStep
<1> QED
  BY TypeCorrect, NoneNext, <1>1, <1>2, PTL DEF Spec, PageKeepsDialog, Dialog!DialogSpec
=============================================================================
