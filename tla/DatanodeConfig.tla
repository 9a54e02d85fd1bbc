---------------------------- MODULE DatanodeConfig ----------------------------
(***************************************************************************)
(* Configuration and start of the datanode: Config::ParseConfig and        *)
(* CheckConfig (config.cc) as main (main.cc) calls them.  The YAML library *)
(* is external: a node of a file is absent, null, a sequence or map, or a  *)
(* scalar with its text.                                                   *)
(***************************************************************************)
EXTENDS Naturals

CONSTANTS
    Nodes,              \* bound: for each key, the nodes that files have for it
    k_system_min_listen_port,
    U16,                \* 2^16, the modulus of uint16_t
    Repaired            \* defects taken as repaired; {} is the code as it stands

\* The keys, in the order in which they are tested and read.
datanode_id == 1
datanode_ip == 2
cluster_id == 3
http_server_port == 4
manager_service_port == 5
data_service_port_min == 6
data_service_port_max == 7
Keys == 1..7
StringKeys == 1..3
PortKeys == 4..7

\* Texts that CheckConfig tells from others.
Empty == "empty"
Address == "IPv4"
NullText == "null"

Shapes == {"absent", "null", "sequence", "scalar"}

ASSUME ConfigAssumption ==
    /\ k_system_min_listen_port \in Nat \ {0}
    /\ U16 \in Nat
    /\ \A key \in Keys : \A node \in Nodes[key] :
        /\ node.shape \in Shapes
        /\ key \in PortKeys => node.value \in Nat

\* A file that is a map has a node for each key; of the others nothing matters.
Files == [kind : {"no path", "unreadable", "no map"}]
    \cup [kind : {"map"}, nodes : Nodes[1] \X Nodes[2] \X Nodes[3] \X Nodes[4]
                                    \X Nodes[5] \X Nodes[6] \X Nodes[7]]

OK == "PANCAKE_STORE_OK"
ConfigInvalid == "PANCAKE_STORE_YAML_CONFIG_INVALID"
Exception == "exception"

\* Mutant of Refused: a key without a value is let through.
RefusedNotNull(node) == node.shape \notin {"null", "scalar"}

\* !config_node[key] || config_node[key].IsScalar()
Refused(node) ==
    node.shape = "absent" \/ (IF "scalar" \in Repaired THEN node.shape # "scalar"
                                                       ELSE node.shape = "scalar")

\* as<std::string> and as<uint16_t>: whether they return, and what.  A text that
\* is no number is like a number that is too large.
Converts(key, node) ==
    IF key \in StringKeys THEN node.shape \in {"null", "scalar"}
                          ELSE node.shape = "scalar" /\ node.value < U16

As(node) == IF node.shape = "null" THEN NullText ELSE node.value

\* What ParseConfig returns, or that an exception leaves it.
ParseOutcome(file) ==
    IF file.kind = "unreadable" THEN Exception
    ELSE IF file.kind # "map" THEN ConfigInvalid
    ELSE IF \E key \in Keys : Refused(file.nodes[key]) THEN ConfigInvalid
    ELSE IF \E key \in Keys : ~Converts(key, file.nodes[key]) THEN Exception
    ELSE OK

\* The fields that ParseConfig assigns: none when it refuses the file, those in
\* front of the first one that cannot be converted otherwise.
Assigned(file) ==
    IF file.kind # "map" THEN {}
    ELSE IF \E key \in Keys : Refused(file.nodes[key]) THEN {}
    ELSE {key \in Keys : \A k \in 1..key : Converts(k, file.nodes[k])}

CheckOutcome(config) ==
    IF \/ config[datanode_id] = Empty
       \/ config[datanode_ip] # Address
       \/ config[cluster_id] = Empty
       \/ \E key \in PortKeys : config[key] < k_system_min_listen_port
       \/ config[data_service_port_min] > config[data_service_port_max]
    THEN ConfigInvalid ELSE OK

NoFile == [kind |-> "none"]
DefaultConfig == [key \in Keys |-> IF key \in StringKeys THEN Empty ELSE 0]

VARIABLES
    file,               \* the file of the running process
    config_,            \* fields of the Config singleton
    phase               \* of main

vars == <<file, config_, phase>>

TypeOK ==
    /\ file \in Files \cup {NoFile}
    /\ \A key \in Keys : \/ config_[key] = DefaultConfig[key]
                         \/ /\ key \in Assigned(file)
                            /\ config_[key] = As(file.nodes[key])
    /\ phase \in {"boot", "parsed", "checked", "serving", "exited", "failed"}

Init == file = NoFile /\ config_ = DefaultConfig /\ phase = "boot"

\* Mutant of ParseConfig: reading goes on behind a field that does not convert.
ParseConfigReadsOn(f) ==
    /\ phase = "boot"
    /\ file' = f
    /\ config_' = [key \in Keys |-> IF Assigned(f) # {} THEN As(f.nodes[key]) ELSE config_[key]]
    /\ phase' = CASE ParseOutcome(f) = OK -> "parsed"
                  [] ParseOutcome(f) = ConfigInvalid -> "exited"
                  [] ParseOutcome(f) = Exception -> "failed"

\* main parses the file it is given: it goes on, ends without a failure, or ends
\* with the exception.
ParseConfig(f) ==
    /\ phase = "boot"
    /\ file' = f
    /\ config_' = [key \in Keys |-> IF key \in Assigned(f) THEN As(f.nodes[key]) ELSE config_[key]]
    /\ phase' = CASE ParseOutcome(f) = OK -> "parsed"
                  [] ParseOutcome(f) = ConfigInvalid -> "exited"
                  [] ParseOutcome(f) = Exception -> "failed"

CheckConfig ==
    /\ phase = "parsed"
    /\ phase' = IF CheckOutcome(config_) = OK THEN "checked" ELSE "exited"
    /\ UNCHANGED <<file, config_>>

\* The first worker starts the manager service on its port: it listens, or Start
\* throws (the port is in use, a handler is registered twice).
StartWorker ==
    /\ phase = "checked"
    /\ phase' \in {"serving", "failed"}
    /\ UNCHANGED <<file, config_>>

\* The process is started again, after its end or a crash.
Restart ==
    /\ phase \in {"exited", "failed", "serving"}
    /\ file' = NoFile
    /\ config_' = DefaultConfig
    /\ phase' = "boot"

Next == (\E f \in Files : ParseConfig(f)) \/ CheckConfig \/ StartWorker \/ Restart

Spec == Init /\ [][Next]_vars

-----------------------------------------------------------------------------
(* Properties.                                                             *)

\* A datanode serves only with a configuration that comes as a whole from its
\* file, no field of it being a default, the text of a missing value, or left over
\* from parsing that was broken off; and that is complete, with ports in range.
ServesItsFile ==
    phase = "serving" =>
        /\ \A key \in Keys : /\ file.nodes[key].shape = "scalar"
                             /\ config_[key] = file.nodes[key].value
        /\ Empty \notin {config_[datanode_id], config_[cluster_id]}
        /\ config_[datanode_ip] = Address
        /\ \A key \in PortKeys : config_[key] >= k_system_min_listen_port
        /\ config_[data_service_port_min] <= config_[data_service_port_max]

\* As the code stands no file gets past ParseConfig: what its tests let through
\* is not scalar, and no such node converts to a port.
NoFileIsAccepted == phase \in {"boot", "exited", "failed"}
=============================================================================
