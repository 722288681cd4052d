--------------------------- MODULE MCNodeInstall ----------------------------
(* Small instances of NodeInstall: what the user asks for, and where.      *)
EXTENDS NodeInstall

(* A password where it takes one, else a key; no host; no user.            *)
Questions ==
    {[host |-> h, user |-> TRUE, password |-> h \notin KeyHosts]: h \in Hosts}
    \union {[host |-> NoHost, user |-> TRUE, password |-> TRUE],
            [host |-> CHOOSE h \in KeyHosts: TRUE, user |-> FALSE, password |-> FALSE]}

(* One password.                                                           *)
OnePassword == {[host |-> h, user |-> TRUE, password |-> TRUE]: h \in Hosts}

(* Updates: every host has an agent, an old one.                           *)
UpdateInit == Init /\ agent = [h \in Hosts |-> "old"]

UpdateSpec == UpdateInit /\ [][Next]_vars

UpdateFairSpec ==
    /\ UpdateSpec
    /\ WF_vars(PollInstaller)
    /\ \A j \in 1..Jobs: WF_vars(Step(j))
=============================================================================
