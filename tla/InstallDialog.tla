--------------------------- MODULE InstallDialog ---------------------------
(***************************************************************************)
(* What the installer's dialog may rely on (src/main.rs, src/install.rs):  *)
(* one installation at a time, whose end is shown once and truly, while    *)
(* others that it no longer knows of run on.  The jobs of NodeInstall      *)
(* implement it, and ProcessPage, which knows no more of a job than this.  *)
(***************************************************************************)
CONSTANTS Hosts, NoHost

VARIABLES
    host,     \* where the installation of the dialog runs, else NoHost
    state,    \* its state: "none", "running", "ok" or "failed"
    handled,  \* the dialog knows of its end; there may be a next one
    current   \* the hosts whose agent passes the installer's last check

dialogVars == <<host, state, handled, current>>

Nothing == host = NoHost /\ state = "none" /\ handled = TRUE

DialogInit == Nothing /\ current \in SUBSET Hosts

Begin ==
    /\ handled
    /\ host' \in Hosts \union {NoHost}
    /\ state' = "running" /\ handled' = FALSE
    /\ UNCHANGED current

(* Something happens to the agent of host h alone.                         *)
OnlyAt(h) == h \in Hosts /\ current' \in {current, current \union {h}, current \ {h}}

(* An end in success leaves the host with an agent that passes.            *)
Ends ==
    /\ state = "running"
    /\ host' = NoHost
    /\ \/ state' = "ok" /\ OnlyAt(host) /\ host \in current'
       \/ state' = "failed" /\ (OnlyAt(host) \/ UNCHANGED current)
    /\ UNCHANGED handled

Mirror ==
    /\ state \in {"ok", "failed"}
    /\ handled' = TRUE
    /\ UNCHANGED <<host, state, current>>

(* The dialog is closed; its installation runs on, if it still runs.       *)
Forget == Nothing' /\ UNCHANGED current

(* An installation that is not, or no longer, the dialog's.                *)
Elsewhere ==
    /\ \E h \in Hosts: OnlyAt(h)
    /\ UNCHANGED <<host, state, handled>>

DialogNext == Begin \/ Ends \/ Mirror \/ Forget \/ Elsewhere

DialogSpec == DialogInit /\ [][DialogNext]_dialogVars
=============================================================================
