------------------------------ MODULE NodeList ------------------------------
(***************************************************************************)
(* The list of nodes (src/spark.rs, SparkConfig): each running applet      *)
(* keeps one in memory, loads it from the configuration file when it       *)
(* starts, and writes its whole configuration back.  The panel runs one    *)
(* applet per output, so several share the file.                           *)
(*                                                                         *)
(* The users write a node in different spellings; of a spelling the model  *)
(* keeps the host, the scheme, the port, and whether a slash ends it.      *)
(***************************************************************************)
EXTENDS Naturals, FiniteSets, SequencesExt

CONSTANTS
    Applets,
    Spellings,    \* what users type and what files hold
    Defaults,     \* DEFAULT_TARGETS
    SavedLists,        \* node lists the file may hold at first, by any version
    EnvNodes,     \* SYSMON_SPARK_AGENTS, <<>> where it is not set
    DefaultPort,  \* DEFAULT_AGENT_PORT
    WebPort,      \* the port of a ws:// address that names none
    NoPort,
    MaxEdits

Schemes == {"", "ws://", "WS://", "http://"}

ASSUME ListAssumption ==
    /\ Spellings \subseteq [host: STRING, scheme: Schemes,
                            port: {NoPort, DefaultPort, WebPort}, slash: BOOLEAN]
    /\ \A s \in Spellings: s.scheme = "" /\ ~s.slash =>
           [s EXCEPT !.port = DefaultPort] \in Spellings
    /\ Defaults \in Seq(Spellings) /\ EnvNodes \in Seq(Spellings)
    /\ SavedLists \subseteq Seq(Spellings)
    /\ Cardinality({NoPort, DefaultPort, WebPort}) = 3
    /\ MaxEdits \in Nat

VARIABLES
    up,       \* up[a]: applet a runs
    list,     \* list[a]: the targets of its configuration
    env,      \* env[a]: it was started with SYSMON_SPARK_AGENTS
    file,     \* the file: absent, broken off, or whole with its "agents"
    removed,  \* history: nodes a's user took out since a and the file agreed
    current,  \* history: a's list has come from what the file holds now
    edits

listVars == <<up, list, env, file, removed, current, edits>>
session == <<up, env>>

-----------------------------------------------------------------------------
(* Definitions whose name ends in Mutant are faulty variants of the one    *)
(* that follows: a property below fails when its variant is used.          *)
CanonicalMutant(s) == <<s.host, s.port>>

(* canonical_target: scheme and slash do not count, the default port may   *)
(* be left out.                                                            *)
Canonical(s) == <<s.host, IF s.port = DefaultPort THEN NoPort ELSE s.port>>

(* The key of a text that names no host, such as "/".                      *)
NoName == <<"", NoPort>>

(* agent_url: where the applet connects to.  It knows "ws://" in lower     *)
(* case only, puts it in front of everything else, and puts the default    *)
(* port behind a slash as well.                                            *)
agent_url(s) ==
    IF s.scheme \notin {"", "ws://"} THEN <<"nowhere", NoPort>>
    ELSE <<s.host, IF s.port # NoPort THEN s.port
                   ELSE IF s.scheme = "" /\ ~s.slash THEN DefaultPort ELSE WebPort>>

contains_target(nodes, s) == \E k \in DOMAIN nodes: Canonical(nodes[k]) = Canonical(s)

Nodes(nodes) == {Canonical(nodes[k]): k \in DOMAIN nodes}

(* deduplicate_targets keeps the first spelling of each node that has a    *)
(* name: kept[k] is what is left of the first k.                           *)
deduplicate_targets(nodes) ==
    LET kept[k \in 0..Len(nodes)] ==
            IF k = 0 THEN <<>>
            ELSE IF Canonical(nodes[k]) = NoName \/ contains_target(kept[k - 1], nodes[k])
                 THEN kept[k - 1]
                 ELSE Append(kept[k - 1], nodes[k])
    IN kept[Len(nodes)]

Bare(s) == s.scheme = "" /\ s.port = NoPort /\ ~s.slash

(* add_target: a bare host gets the default port.  The empty text, and a   *)
(* node that is there, are not added; any other text is.                   *)
Entry(s) == IF Bare(s) THEN [s EXCEPT !.port = DefaultPort] ELSE s

Adds(nodes, s) == ~(Bare(s) /\ s.host = "") /\ ~contains_target(nodes, s)

add_target(nodes, s) == IF Adds(nodes, s) THEN Append(nodes, Entry(s)) ELSE nodes

NoFile == [state |-> "absent", agents |-> <<>>]

(* load: the file's nodes if it holds any, else the defaults; the          *)
(* environment wins over both.                                             *)
LoadMutant(withEnv) ==
    IF withEnv /\ EnvNodes # <<>> THEN EnvNodes
    ELSE IF file.state = "whole" /\ file.agents # <<>> THEN file.agents
    ELSE Defaults

Load(withEnv) ==
    deduplicate_targets(IF withEnv /\ EnvNodes # <<>> THEN EnvNodes
                        ELSE IF file.state = "whole" /\ file.agents # <<>> THEN file.agents
                        ELSE Defaults)

ListInit ==
    /\ up = [a \in Applets |-> FALSE]
    /\ list = [a \in Applets |-> <<>>]
    /\ env = [a \in Applets |-> FALSE]
    /\ file \in {NoFile} \union {[state |-> "whole", agents |-> nodes]: nodes \in SavedLists}
    /\ removed = [a \in Applets |-> {}]
    /\ current = [a \in Applets |-> FALSE]
    /\ edits = 0

-----------------------------------------------------------------------------
Start(a, withEnv) ==
    /\ ~up[a]
    /\ withEnv => EnvNodes # <<>>
    /\ up' = [up EXCEPT ![a] = TRUE]
    /\ env' = [env EXCEPT ![a] = withEnv]
    /\ list' = [list EXCEPT ![a] = Load(withEnv)]
    /\ removed' = [removed EXCEPT ![a] = {}]
    /\ current' = [current EXCEPT ![a] = ~withEnv /\ file.state = "whole"]
    /\ UNCHANGED <<file, edits>>

(* save writes the whole configuration over the file.  It may fail, or the *)
(* applet may end, after the file has been truncated.                      *)
Save(a, nodes) ==
    \/ /\ file' = [state |-> "whole", agents |-> nodes]
       /\ current' = [b \in Applets |-> b = a]
       /\ removed' = [removed EXCEPT ![a] = {}]
    \/ /\ file' = [state |-> "broken", agents |-> <<>>]
       /\ current' = [b \in Applets |-> FALSE]
       /\ UNCHANGED removed
    \/ UNCHANGED <<file, current, removed>>

AddNodeMutant(a, s) ==
    /\ up[a] /\ edits < MaxEdits
    /\ edits' = edits + 1
    /\ list' = [list EXCEPT ![a] = Append(@, Entry(s))]
    /\ Save(a, list'[a])
    /\ UNCHANGED session

(* AddHost, AddHostOnly and poll_installer: a new node is saved at once,   *)
(* whatever else has been changed in memory.                               *)
AddNode(a, s) ==
    /\ up[a] /\ edits < MaxEdits
    /\ edits' = edits + 1
    /\ list' = [list EXCEPT ![a] = add_target(@, s)]
    /\ IF Adds(list[a], s) THEN Save(a, list'[a]) ELSE UNCHANGED <<file, current, removed>>
    /\ UNCHANGED session

(* RemoveHost takes a node out of the list in memory.                      *)
RemoveHostMutant(a, k) ==
    /\ up[a] /\ k \in DOMAIN list[a] /\ edits < MaxEdits
    /\ edits' = edits + 1
    /\ list' = [list EXCEPT ![a] = SubSeq(@, 1, k - 1)]
    /\ removed' = [removed EXCEPT ![a] = @ \union {Canonical(list[a][k])}]
    /\ UNCHANGED <<session, file, current>>

RemoveHost(a, k) ==
    /\ up[a] /\ k \in DOMAIN list[a] /\ edits < MaxEdits
    /\ edits' = edits + 1
    /\ list' = [list EXCEPT ![a] = RemoveAt(@, k)]
    /\ removed' = [removed EXCEPT ![a] = @ \union {Canonical(list[a][k])}]
    /\ UNCHANGED <<session, file, current>>

SaveSettings(a) ==
    /\ up[a]
    /\ Save(a, list[a])
    /\ UNCHANGED <<session, list, edits>>

(* The panel ends an applet; unsaved changes are lost.                     *)
Exit(a) ==
    /\ up[a]
    /\ up' = [up EXCEPT ![a] = FALSE]
    /\ list' = [list EXCEPT ![a] = <<>>]
    /\ env' = [env EXCEPT ![a] = FALSE]
    /\ removed' = [removed EXCEPT ![a] = {}]
    /\ current' = [current EXCEPT ![a] = FALSE]
    /\ UNCHANGED <<file, edits>>

ListNext == \E a \in Applets:
    \/ \E withEnv \in BOOLEAN: Start(a, withEnv)
    \/ \E s \in Spellings: AddNode(a, s)
    \/ \E k \in 1..Len(list[a]): RemoveHost(a, k)
    \/ SaveSettings(a)
    \/ Exit(a)

ListSpec == ListInit /\ [][ListNext]_listVars

-----------------------------------------------------------------------------
(* Type invariant of the configurations in memory and in the file.  A list *)
(* in memory names no node twice.                                          *)
ListTypeOK ==
    /\ up \in [Applets -> BOOLEAN] /\ env \in [Applets -> BOOLEAN]
    /\ list \in [Applets -> Seq(Spellings)]
    /\ \A a \in Applets: Cardinality(Nodes(list[a])) = Len(list[a])
    /\ file \in [state: {"absent", "broken", "whole"}, agents: Seq(Spellings)]
    /\ \A a \in Applets: removed[a] \subseteq {Canonical(s): s \in Spellings}
    /\ current \in [Applets -> BOOLEAN]
    /\ edits \in 0..MaxEdits

(* A spelling that canonical_target and agent_url read alike.              *)
Plain(s) == s.scheme = "" /\ (s.port # NoPort \/ ~s.slash)

(* No applet connects twice to one agent: deduplicate_targets, add_target. *)
(* Their test compares names, and agent_url makes an address of the name;  *)
(* the two agree on plain spellings.                                       *)
NoAgentTwice ==
    \A a \in Applets: \A j, k \in DOMAIN list[a]:
        /\ Plain(list[a][j]) /\ Plain(list[a][k])
        /\ agent_url(list[a][j]) = agent_url(list[a][k])
        => j = k

(* save: a node of the file disappears from it only when the user of the   *)
(* applet that saves has removed it, as long as that applet has loaded or  *)
(* written what the file holds and was not started with                    *)
(* SYSMON_SPARK_AGENTS.  A text without a name is no node.                 *)
NodesAreKept ==
    [][file.state = "whole" /\ file'.state = "whole" =>
          \A a \in Applets: current[a] /\ current'[a] =>
              Nodes(file.agents) \ Nodes(file'.agents) \subseteq removed[a] \union {NoName}]_listVars

(* save and load: "so the settings view survives a restart".  A list that  *)
(* is in the file as some applet has it in memory, is not empty, and holds *)
(* no text without a name, comes back as it was, spelling and order        *)
(* included.                                                               *)
SavedSurvives ==
    [][\A a, b \in Applets:
          /\ file.state = "whole" /\ file.agents = list[a] /\ list[a] # <<>>
          /\ NoName \notin Nodes(list[a]) /\ Start(b, FALSE)
          => list'[b] = list[a]]_listVars
=============================================================================
