---------------------------- MODULE ProcessPage ----------------------------
(***************************************************************************)
(* The popup of one applet (src/main.rs): its pages, the process page with *)
(* its node requests and signals, and what else changes under that page:   *)
(* the node list, the monitor's snapshot and the installer that adds a     *)
(* node from the background.  update() runs one message at a time; between *)
(* two messages a request thread or the installer may finish.              *)
(*                                                                         *)
(* A process row is reduced to the machine it was read on: a pid means     *)
(* nothing without it.                                                     *)
(***************************************************************************)
EXTENDS Naturals, SequencesExt

CONSTANTS
    Targets,       \* nodes the configuration may name
    ThisHost,      \* the targets whose agent reports this machine's hostname
    OldAgents,     \* the targets whose agent is too old for process requests
    MuteAgents,    \* those of them whose version the installer cannot read
    HostOf,        \* HostOf[t]: what the text before t's first colon names
    Configured,    \* the node list the applet starts with
    MaxEdits,      \* bound: nodes added or removed in the settings
    MaxInstalls,   \* bound: installations started
    Here,          \* this machine
    Nobody         \* no node, no text, no process

ASSUME PageAssumption ==
    /\ ThisHost \subseteq Targets
    /\ OldAgents \subseteq Targets /\ MuteAgents \subseteq OldAgents
    /\ HostOf \in [Targets -> Targets \union {Nobody}]
    /\ Configured \in Seq(Targets)
    /\ IsInjective(Configured)      \* SparkConfig::load drops duplicates
    /\ MaxEdits \in Nat
    /\ MaxInstalls \in Nat
    /\ Here \notin Targets
    /\ Nobody \notin Targets \union {Here}

VARIABLES
    popup,         \* the popup is open
    settings_open,
    procs_open,
    scanning,      \* proc_local.active: the thread reads /proc
    targets,       \* config.targets
    watched,       \* the targets of the running SparkMonitor
    known,         \* those whose hostname and version spark_state holds,
                   \* as far as one of them matters
    outdated,      \* the targets whose agent is still too old
    proc_host,     \* selected host: 0 is this machine
    proc_remote,   \* last process list of a node agent
    proc_task,     \* request to a node agent
    proc_confirm,  \* the machine of the row a signal was asked for
    install_host,  \* text of the dialog's host field
    installer,     \* the installation the dialog shows
    edits,
    installs

page == <<settings_open, procs_open, scanning, proc_host, proc_remote, proc_task,
          proc_confirm>>
nodes == <<targets, watched, known, outdated>>
dialog == <<install_host, installer>>
vars == <<popup, page, nodes, dialog, edits, installs>>

NoList == [of |-> Nobody, rows |-> FALSE]
ProcessList == [of: Targets, rows: BOOLEAN] \union {NoList}

NoTask == [kind |-> "none", of |-> Nobody, state |-> "done"]
ProcessTask == [kind: {"list", "kill"}, of: Targets, state: {"running", "ok", "failed"}]
                   \union {NoTask}

(* host matters while it runs.  handled: the result has been mirrored into *)
(* the dialog.                                                             *)
NoInstaller == [host |-> Nobody, state |-> "none", handled |-> TRUE]
Installer == [host: Targets \union {Nobody}, state: {"none", "running", "ok", "failed"},
              handled: BOOLEAN]

Init ==
    /\ popup = FALSE
    /\ settings_open = FALSE
    /\ procs_open = FALSE
    /\ scanning = FALSE
    /\ targets = Configured
    /\ watched = Range(Configured)
    /\ known = {}
    /\ outdated = OldAgents
    /\ proc_host = 0
    /\ proc_remote = NoList
    /\ proc_task = NoTask
    /\ proc_confirm = Nobody
    /\ install_host = Nobody
    /\ installer = NoInstaller
    /\ edits = 0
    /\ installs = 0

-----------------------------------------------------------------------------
(* Which page view_window shows; the header with its two buttons is on     *)
(* every one.  The page of a node's models is left out: it has no buttons  *)
(* of its own that touch this state.                                       *)
View ==
    IF ~popup THEN "closed"
    ELSE IF procs_open THEN "processes"
    ELSE IF installer # NoInstaller \/ install_host # Nobody THEN "installer"
    ELSE IF settings_open THEN "settings"
    ELSE "values"

(* An index beyond the list counts as this machine.                        *)
SelectedIsLocal ==
    \/ proc_host \notin 1..Len(targets)
    \/ targets[proc_host] \in ThisHost \intersect watched \intersect known

SelectedIsKnown ==
    proc_host \in 1..Len(targets) /\ targets[proc_host] \in ThisHost
        => targets[proc_host] \in watched \intersect known

Machine(t) == IF t \in ThisHost THEN Here ELSE t

(* Where perform_signal delivers a signal.                                 *)
Destination == IF SelectedIsLocal THEN Here ELSE Machine(targets[proc_host])

(* The machine whose rows the page lists.                                  *)
Listed ==
    IF SelectedIsLocal THEN Here
    ELSE IF proc_remote.rows THEN Machine(proc_remote.of)
    ELSE Nobody

Request(kind, t) == [kind |-> kind, of |-> t, state |-> "running"]

(* refresh_processes at the end of a handler: active and task are what the *)
(* handler has made of them so far.                                        *)
Refreshed(active, task) ==
    IF SelectedIsLocal'
    THEN scanning' = TRUE /\ proc_task' = task
    ELSE scanning' = active /\ proc_task' = Request("list", targets'[proc_host'])

-----------------------------------------------------------------------------
(* Opening shows the page the popup was closed on.  Closing by the button  *)
(* takes the popup out of the state at once.                               *)
TogglePopup ==
    /\ popup' = ~popup
    /\ scanning' = IF popup THEN scanning ELSE procs_open
    /\ UNCHANGED <<settings_open, procs_open, proc_host, proc_remote, proc_task,
                   proc_confirm, nodes, dialog, edits, installs>>

(* The compositor closes the popup that the state still holds.             *)
PopupClosed ==
    /\ popup
    /\ popup' = FALSE
    /\ scanning' = FALSE
    /\ proc_task' = NoTask
    /\ proc_confirm' = Nobody
    /\ UNCHANGED <<settings_open, procs_open, proc_host, proc_remote, nodes, dialog,
                   edits, installs>>

OpenProcesses ==
    /\ View # "closed"
    /\ procs_open' = TRUE
    /\ proc_confirm' = Nobody
    /\ UNCHANGED <<popup, settings_open, proc_host, proc_remote, nodes, dialog,
                   edits, installs>>
    /\ Refreshed(TRUE, proc_task)

CloseProcesses ==
    /\ View = "processes"
    /\ procs_open' = FALSE
    /\ scanning' = FALSE
    /\ proc_task' = NoTask
    /\ proc_remote' = NoList
    /\ proc_confirm' = Nobody
    /\ UNCHANGED <<popup, settings_open, proc_host, nodes, dialog, edits, installs>>

(* Definitions whose name ends in Mutant are faulty variants of the one     *)
(* that follows: a property below fails when its variant is used.          *)
ProcessHostKeepsRowsMutant(index) ==
    /\ View = "processes"
    /\ index \in 0..Len(targets) /\ index # proc_host
    /\ proc_host' = index
    /\ proc_confirm' = Nobody
    /\ UNCHANGED <<popup, settings_open, procs_open, proc_remote, nodes, dialog, edits,
                   installs>>
    /\ Refreshed(scanning, proc_task)

ProcessHostKeepsConfirmMutant(index) ==
    /\ View = "processes"
    /\ index \in 0..Len(targets) /\ index # proc_host
    /\ proc_host' = index
    /\ proc_remote' = NoList
    /\ UNCHANGED <<popup, settings_open, procs_open, proc_confirm, nodes, dialog, edits,
                   installs>>
    /\ Refreshed(scanning, proc_task)

(* There is a button for this machine and one for each configured node.    *)
ProcessHost(index) ==
    /\ View = "processes"
    /\ index \in 0..Len(targets) /\ index # proc_host
    /\ proc_host' = index
    /\ proc_remote' = NoList
    /\ proc_confirm' = Nobody
    /\ UNCHANGED <<popup, settings_open, procs_open, nodes, dialog, edits, installs>>
    /\ Refreshed(scanning, proc_task)

RefreshProcesses ==
    /\ View = "processes"
    /\ UNCHANGED <<popup, settings_open, procs_open, proc_host, proc_remote, proc_confirm,
                   nodes, dialog, edits, installs>>
    /\ Refreshed(scanning, proc_task)

(* A button of a listed row.                                               *)
AskSignal ==
    /\ View = "processes" /\ Listed # Nobody
    /\ proc_confirm' = Listed
    /\ UNCHANGED <<popup, settings_open, procs_open, scanning, proc_host, proc_remote,
                   proc_task, nodes, dialog, edits, installs>>

CancelSignal ==
    /\ View = "processes" /\ proc_confirm # Nobody
    /\ proc_confirm' = Nobody
    /\ UNCHANGED <<popup, settings_open, procs_open, scanning, proc_host, proc_remote,
                   proc_task, nodes, dialog, edits, installs>>

(* perform_signal: kill_local at once, or a request that replaces whatever *)
(* request was running.                                                    *)
ConfirmSignal ==
    /\ View = "processes" /\ proc_confirm # Nobody
    /\ proc_confirm' = Nobody
    /\ proc_task' = IF SelectedIsLocal THEN proc_task
                    ELSE Request("kill", targets[proc_host])
    /\ UNCHANGED <<popup, settings_open, procs_open, scanning, proc_host, proc_remote,
                   nodes, dialog, edits, installs>>

-----------------------------------------------------------------------------
ToggleSettings ==
    /\ View # "closed"
    /\ settings_open' = ~settings_open
    /\ UNCHANGED <<popup, procs_open, scanning, proc_host, proc_remote, proc_task,
                   proc_confirm, nodes, dialog, edits, installs>>

(* add_target: a node that is listed already is not added again.           *)
AddTarget(t) == IF t \in Range(targets) THEN targets ELSE Append(targets, t)

AddHost(t) ==
    /\ View = "settings"
    /\ edits < MaxEdits
    /\ edits' = edits + 1
    /\ targets' = AddTarget(t)
    /\ UNCHANGED <<popup, page, watched, known, outdated, dialog, installs>>

RemoveHost(index) ==
    /\ View = "settings"
    /\ index \in 1..Len(targets)
    /\ edits < MaxEdits
    /\ edits' = edits + 1
    /\ targets' = RemoveAt(targets, index)
    /\ UNCHANGED <<popup, page, watched, known, outdated, dialog, installs>>

(* The saved list gets a new monitor, which knows no node yet; when saving *)
(* fails the old one stays.                                                *)
SaveSettings ==
    /\ View = "settings"
    /\ watched' = Range(targets)
    /\ known' = {}
    /\ UNCHANGED <<popup, page, targets, outdated, dialog, edits, installs>>

(* draft: the settings' text field.                                        *)
OpenInstaller(draft) ==
    /\ View = "settings"
    /\ install_host' = IF draft = Nobody THEN install_host ELSE draft
    /\ installer' = NoInstaller
    /\ settings_open' = FALSE
    /\ UNCHANGED <<popup, procs_open, scanning, proc_host, proc_remote, proc_task,
                   proc_confirm, nodes, edits, installs>>

(* The host field stays editable while an installation runs.               *)
InstallHost(text) ==
    /\ View = "installer"
    /\ install_host' = text
    /\ UNCHANGED <<popup, page, nodes, installer, edits, installs>>

StartInstall ==
    /\ View = "installer"
    /\ installer.handled
    /\ installs < MaxInstalls
    /\ installs' = installs + 1
    /\ installer' = [host |-> install_host, state |-> "running", handled |-> FALSE]
    /\ UNCHANGED <<popup, page, nodes, install_host, edits>>

(* Both leave a running installation to itself.                            *)
CloseInstaller ==
    /\ View = "installer"
    /\ installer' = NoInstaller
    /\ install_host' = Nobody
    /\ settings_open' = TRUE
    /\ UNCHANGED <<popup, procs_open, scanning, proc_host, proc_remote, proc_task,
                   proc_confirm, nodes, edits, installs>>

AddHostOnly ==
    /\ View = "installer"
    /\ targets' = IF install_host = Nobody THEN targets ELSE AddTarget(install_host)
    /\ installer' = NoInstaller
    /\ install_host' = Nobody
    /\ settings_open' = TRUE
    /\ UNCHANGED <<popup, procs_open, scanning, proc_host, proc_remote, proc_task,
                   proc_confirm, watched, known, outdated, edits, installs>>

UpdateAgentMutant(t) ==
    /\ t \in outdated \intersect watched \intersect known \intersect Range(targets)
    /\ \/ View = "settings"
       \/ View = "processes" /\ proc_host \in 1..Len(targets) /\ targets[proc_host] = t
    /\ install_host' = HostOf[t]
    /\ installer' = NoInstaller
    /\ settings_open' = FALSE
    /\ procs_open' = FALSE
    /\ scanning' = FALSE
    /\ UNCHANGED <<popup, proc_host, proc_remote, proc_confirm, proc_task, nodes, edits,
                   installs>>

(* Offered by the settings, and by the process page for its selected node, *)
(* when the agent's version is known to be old.  The dialog gets the host: *)
(* the port is dropped, and of a scheme only its name is left.             *)
UpdateAgent(t) ==
    /\ t \in outdated \intersect watched \intersect known \intersect Range(targets)
    /\ \/ View = "settings"
       \/ View = "processes" /\ proc_host \in 1..Len(targets) /\ targets[proc_host] = t
    /\ install_host' = HostOf[t]
    /\ installer' = NoInstaller
    /\ settings_open' = FALSE
    /\ procs_open' = FALSE
    /\ scanning' = FALSE
    /\ proc_task' = NoTask
    /\ UNCHANGED <<popup, proc_host, proc_remote, proc_confirm, nodes, edits, installs>>

-----------------------------------------------------------------------------
(* poll_installer: the first tick after a success adopts the host and      *)
(* starts a new monitor when the list has grown.                           *)
Adopts == ~installer.handled /\ installer.state = "ok" /\ install_host # Nobody
              /\ install_host \notin Range(targets)

PollInstallerMutant(arrived) ==
    /\ installer' = [installer EXCEPT !.handled = TRUE]
    /\ \/ /\ Adopts
          /\ targets' = AddTarget(install_host)
          /\ watched' = Range(targets')
          /\ known' = {}
       \/ /\ ~Adopts
          /\ known' = known \union arrived
          /\ UNCHANGED <<targets, watched>>
    /\ UNCHANGED <<install_host, outdated>>

PollInstaller(arrived) ==
    /\ installer' = [installer EXCEPT !.handled = @ \/ installer.state # "running"]
    /\ \/ /\ Adopts
          /\ targets' = AddTarget(install_host)
          /\ watched' = Range(targets')
          /\ known' = {}
       \/ /\ ~Adopts
          /\ known' = known \union arrived
          /\ UNCHANGED <<targets, watched>>
    /\ UNCHANGED <<install_host, outdated>>

(* poll_process_task: a finished request is adopted, and a delivered       *)
(* signal asks for a new list.                                             *)
PollProcessTask ==
    \/ /\ proc_task = NoTask \/ proc_task.state = "running"
       /\ UNCHANGED <<scanning, proc_task, proc_remote>>
    \/ /\ proc_task.kind = "list" /\ proc_task.state # "running"
       /\ proc_remote' = [of |-> proc_task.of, rows |-> proc_task.state = "ok"]
       /\ proc_task' = NoTask
       /\ UNCHANGED scanning
    \/ /\ proc_task.kind = "kill" /\ proc_task.state = "failed"
       /\ proc_task' = NoTask
       /\ UNCHANGED <<scanning, proc_remote>>
    \/ /\ proc_task.kind = "kill" /\ proc_task.state = "ok"
       /\ Refreshed(scanning, NoTask)
       /\ UNCHANGED proc_remote

(* Once a second, popup or not: the snapshot (arrived: the nodes that have *)
(* answered the monitor since the last one), the installer, the request.   *)
Tick ==
    /\ \E arrived \in SUBSET ((watched \ known) \intersect (ThisHost \union OldAgents)):
          PollInstaller(arrived)
    /\ UNCHANGED <<popup, settings_open, procs_open, proc_host, proc_confirm,
                   edits, installs>>
    /\ PollProcessTask

(* The thread of a request ends; an old agent never answers it.            *)
TaskEnds ==
    /\ proc_task.state = "running"
    /\ \/ proc_task.of \notin outdated
          /\ proc_task' = [proc_task EXCEPT !.state = "ok"]
       \/ proc_task' = [proc_task EXCEPT !.state = "failed"]
    /\ UNCHANGED <<popup, settings_open, procs_open, scanning, proc_host, proc_remote,
                   proc_confirm, nodes, dialog, edits, installs>>

(* The installer's thread ends; a success leaves a current agent behind,   *)
(* or an old one that the installer takes for its own.                     *)
InstallEnds ==
    /\ installer.state = "running"
    /\ \/ /\ installer.host # Nobody
          /\ installer' = [installer EXCEPT !.host = Nobody, !.state = "ok"]
          /\ \/ outdated' = outdated \ {installer.host}
             \/ installer.host \in MuteAgents /\ UNCHANGED outdated
       \/ /\ installer' = [installer EXCEPT !.host = Nobody, !.state = "failed"]
          /\ UNCHANGED outdated
    /\ UNCHANGED <<popup, page, targets, watched, known, install_host, edits, installs>>

User ==
    \/ TogglePopup \/ PopupClosed
    \/ OpenProcesses \/ CloseProcesses
    \/ \E index \in 0..Len(targets): ProcessHost(index) \/ RemoveHost(index)
    \/ RefreshProcesses \/ AskSignal \/ CancelSignal \/ ConfirmSignal
    \/ ToggleSettings \/ SaveSettings
    \/ \E t \in Targets: AddHost(t) \/ UpdateAgent(t)
    \/ \E text \in Targets \union {Nobody}: OpenInstaller(text) \/ InstallHost(text)
    \/ StartInstall \/ CloseInstaller \/ AddHostOnly

(* An installation that the dialog has let go, or one of another applet,   *)
(* updates an agent.                                                       *)
AgentUpdated ==
    /\ \E t \in outdated: outdated' = outdated \ {t}
    /\ UNCHANGED <<popup, page, targets, watched, known, dialog, edits, installs>>

Next == User \/ Tick \/ TaskEnds \/ InstallEnds \/ AgentUpdated

Spec == Init /\ [][Next]_vars

-----------------------------------------------------------------------------
(* Type invariant of the applet's state; the list has no node twice and    *)
(* the monitor's snapshot names no node it does not watch.                 *)
TypeOK ==
    /\ popup \in BOOLEAN /\ settings_open \in BOOLEAN
    /\ procs_open \in BOOLEAN /\ scanning \in BOOLEAN
    /\ targets \in Seq(Targets) /\ IsInjective(targets)
    /\ watched \subseteq Targets /\ known \subseteq watched /\ outdated \subseteq Targets
    /\ proc_host \in Nat
    /\ proc_remote \in ProcessList
    /\ proc_task \in ProcessTask
    /\ proc_confirm \in Targets \union {Here, Nobody}
    /\ install_host \in Targets \union {Nobody}
    /\ installer \in Installer
    /\ edits \in 0..MaxEdits /\ installs \in 0..MaxInstalls

(* While the process page is not the popup's page, /proc is not scanned    *)
(* and no answer of a node is awaited, whatever finishes in the            *)
(* background: CloseProcesses, UpdateAgent, poll_process_task.             *)
LeftPageIsIdle == ~procs_open => ~scanning /\ proc_task = NoTask

(* proc_remote: the page never lists rows of one machine under the name of *)
(* another, whichever answer comes late.  Excepted is a node of this very  *)
(* machine when an installation has replaced the monitor and the new one   *)
(* has not heard the node yet: selected_is_local takes it for another.     *)
RowsMatchHost ==
    View = "processes" /\ (installs = 0 \/ SelectedIsKnown) => Listed \in {Nobody, Destination}

(* perform_signal: a confirmed signal goes to the machine of the row it    *)
(* was asked for.                                                          *)
SignalGoesWhereAsked == [][ConfirmSignal => Destination = proc_confirm]_vars

(* perform_signal and poll_installer: until the first installation is      *)
(* started, which may append a node where the selected index points, this  *)
(* holds whatever nodes are added, removed, saved and selected meanwhile.  *)
SignalMatchesUntilInstall ==
    [][ConfirmSignal /\ installs = 0 => Destination = proc_confirm]_vars

(* start_install and poll_installer: whatever else happens on the pages,   *)
(* the popup starts, shows and drops installations as the dialog's         *)
(* contract says, and assumes of their end only what it grants.            *)
Dialog == INSTANCE InstallDialog
              WITH Hosts <- Targets, NoHost <- Nobody,
                   host <- installer.host, state <- installer.state,
                   handled <- installer.handled,
                   current <- Targets \ (outdated \ MuteAgents)

PageKeepsDialog == Dialog!DialogSpec

=============================================================================
