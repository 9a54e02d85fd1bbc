------------------------- MODULE DatanodeConfigProofs -------------------------
(***************************************************************************)
(* Theorems about DatanodeConfig, for all files.                           *)
(***************************************************************************)
EXTENDS DatanodeConfig, TLAPS

\* Whoever is past ParseConfig has the fields of a file that it accepted, and
\* whoever is past CheckConfig has fields that it accepted.
ConfigInv ==
    /\ file \in Files \cup {NoFile}
    /\ phase \in {"boot", "parsed", "checked", "serving", "exited", "failed"}
    /\ phase \in {"parsed", "checked", "serving"} =>
        /\ ParseOutcome(file) = OK
        /\ \A key \in Keys : config_[key] = As(file.nodes[key])
    /\ phase \in {"checked", "serving"} => CheckOutcome(config_) = OK

USE DEF OK, ConfigInvalid, Exception

\* What ParseConfig accepts is a map all of whose nodes are let through and
\* converted.
LEMMA AcceptedFile ==
    ASSUME NEW f, ParseOutcome(f) = OK
    PROVE  /\ f.kind = "map"
           /\ \A key \in Keys : ~Refused(f.nodes[key]) /\ Converts(key, f.nodes[key])
BY DEF ParseOutcome

\* Nothing is accepted as long as scalars are refused: a port converts from
\* nothing else.
LEMMA NothingAccepted ==
    ASSUME NEW f, "scalar" \notin Repaired
    PROVE  ParseOutcome(f) # OK
<1> SUFFICES ASSUME ParseOutcome(f) = OK PROVE FALSE
  OBVIOUS
<1>1. ~Refused(f.nodes[4]) /\ Converts(4, f.nodes[4])
  BY AcceptedFile DEF Keys
<1> QED BY <1>1 DEF Refused, Converts, StringKeys

\* An accepted file has scalars only, with ports that are numbers.
LEMMA AcceptedScalars ==
    ASSUME NEW f \in Files, ParseOutcome(f) = OK
    PROVE  /\ \A key \in Keys : f.nodes[key].shape = "scalar" /\ As(f.nodes[key]) = f.nodes[key].value
           /\ \A key \in PortKeys : f.nodes[key].value \in Nat
<1>1. "scalar" \in Repaired
  BY NothingAccepted
<1>2. \A key \in Keys : f.nodes[key].shape = "scalar"
  BY <1>1, AcceptedFile DEF Refused
<1>3. f.nodes \in Nodes[1] \X Nodes[2] \X Nodes[3] \X Nodes[4] \X Nodes[5] \X Nodes[6] \X Nodes[7]
  BY AcceptedFile DEF Files
<1>4. /\ f.nodes[4] \in Nodes[4] /\ f.nodes[5] \in Nodes[5]
      /\ f.nodes[6] \in Nodes[6] /\ f.nodes[7] \in Nodes[7]
  BY <1>3
<1>5. \A key \in PortKeys : f.nodes[key].value \in Nat
  BY <1>4, ConfigAssumption DEF PortKeys, Keys
<1> QED BY <1>2, <1>5 DEF As

\* The invariant holds at first, and along every step.
LEMMA ConfigInvariant == Spec => []ConfigInv
<1>1. Init => ConfigInv
  BY DEF Init, ConfigInv
<1>2. ConfigInv /\ [Next]_vars => ConfigInv'
  <2> SUFFICES ASSUME ConfigInv, [Next]_vars PROVE ConfigInv'
    OBVIOUS
  <2>1. ASSUME NEW f \in Files, ParseConfig(f) PROVE ConfigInv'
    <3>1. CASE ParseOutcome(f) = OK
      <4>1. Assigned(f) = Keys
        BY <3>1, AcceptedFile DEF Assigned, Keys
      <4> QED BY <2>1, <3>1, <4>1 DEF ParseConfig, ConfigInv
    <3>2. CASE ParseOutcome(f) # OK
      BY <2>1, <3>2 DEF ParseConfig, ParseOutcome, ConfigInv
    <3> QED BY <3>1, <3>2
  <2>2. ASSUME CheckConfig PROVE ConfigInv'
    BY <2>2 DEF CheckConfig, ConfigInv
  <2>3. ASSUME StartWorker PROVE ConfigInv'
    BY <2>3 DEF StartWorker, ConfigInv
  <2>4. ASSUME Restart PROVE ConfigInv'
    BY <2>4 DEF Restart, ConfigInv
  <2>5. CASE UNCHANGED vars
    BY <2>5 DEF vars, ConfigInv
  <2> QED BY <2>1, <2>2, <2>3, <2>4, <2>5 DEF Next
<1> QED BY <1>1, <1>2, PTL DEF Spec

\* Until ParseConfig has run, the fields are those of a new Config.
BootIsDefault == phase = "boot" => config_ = DefaultConfig

\* A field is the default or the value that ParseConfig assigned from the file of
\* the running process: nothing is left from a file of an earlier start, and no
\* field that ParseConfig did not come to is changed.
THEOREM ConfigTypeCorrect == Spec => []TypeOK
<1>1. Init => TypeOK /\ BootIsDefault
  BY DEF Init, TypeOK, BootIsDefault
<1>2. TypeOK /\ BootIsDefault /\ [Next]_vars => (TypeOK /\ BootIsDefault)'
  <2> SUFFICES ASSUME TypeOK, BootIsDefault, [Next]_vars
               PROVE  (TypeOK /\ BootIsDefault)'
    OBVIOUS
  <2>1. ASSUME NEW f \in Files, ParseConfig(f) PROVE (TypeOK /\ BootIsDefault)'
    <3>1. phase' \in {"parsed", "exited", "failed"}
      BY <2>1 DEF ParseConfig, ParseOutcome
    <3>2. ASSUME NEW key \in Keys
          PROVE  \/ config_'[key] = DefaultConfig[key]
                 \/ key \in Assigned(file') /\ config_'[key] = As(file'.nodes[key])
      BY <2>1 DEF ParseConfig, BootIsDefault
    <3>3. file' \in Files
      BY <2>1 DEF ParseConfig
    <3> QED BY <3>1, <3>2, <3>3 DEF TypeOK, BootIsDefault
  <2>2. ASSUME CheckConfig PROVE (TypeOK /\ BootIsDefault)'
    BY <2>2 DEF CheckConfig, TypeOK, BootIsDefault
  <2>3. ASSUME StartWorker PROVE (TypeOK /\ BootIsDefault)'
    BY <2>3 DEF StartWorker, TypeOK, BootIsDefault
  <2>4. ASSUME Restart PROVE (TypeOK /\ BootIsDefault)'
    BY <2>4 DEF Restart, TypeOK, BootIsDefault
  <2>5. CASE UNCHANGED vars
    BY <2>5 DEF vars, TypeOK, BootIsDefault
  <2> QED BY <2>1, <2>2, <2>3, <2>4, <2>5 DEF Next
<1> QED BY <1>1, <1>2, PTL DEF Spec

\* A datanode serves only with the complete and checked configuration of its
\* file, with the defect of ParseConfig repaired or not.
THEOREM ServesItsFileHolds == Spec => []ServesItsFile
<1>1. ConfigInv => ServesItsFile
  <2> SUFFICES ASSUME ConfigInv, phase = "serving" PROVE ServesItsFile
    BY DEF ServesItsFile
  <2>1. /\ ParseOutcome(file) = OK
        /\ \A key \in Keys : config_[key] = As(file.nodes[key])
        /\ CheckOutcome(config_) = OK
    BY DEF ConfigInv
  <2>2. file \in Files
    BY <2>1, AcceptedFile DEF ConfigInv, NoFile
  <2>3. /\ \A key \in Keys : file.nodes[key].shape = "scalar" /\ config_[key] = file.nodes[key].value
        /\ \A key \in PortKeys : config_[key] \in Nat
    BY <2>1, <2>2, AcceptedScalars DEF Keys, PortKeys
  <2>4. /\ config_[datanode_id] # Empty /\ config_[datanode_ip] = Address /\ config_[cluster_id] # Empty
        /\ \A key \in PortKeys : ~(config_[key] < k_system_min_listen_port)
        /\ ~(config_[data_service_port_min] > config_[data_service_port_max])
    BY <2>1 DEF CheckOutcome
  <2>5. /\ \A key \in PortKeys : config_[key] >= k_system_min_listen_port
        /\ config_[data_service_port_min] <= config_[data_service_port_max]
    BY <2>3, <2>4, ConfigAssumption DEF PortKeys, data_service_port_min, data_service_port_max
  <2> QED BY <2>3, <2>4, <2>5 DEF ServesItsFile
<1> QED BY <1>1, ConfigInvariant, PTL

\* As the code stands, no file whatever gets a datanode past ParseConfig.
THEOREM NoFileIsAcceptedHolds == "scalar" \notin Repaired => (Spec => []NoFileIsAccepted)
<1> SUFFICES ASSUME "scalar" \notin Repaired PROVE Spec => []NoFileIsAccepted
  OBVIOUS
<1>1. ConfigInv => NoFileIsAccepted
  BY NothingAccepted DEF ConfigInv, NoFileIsAccepted
<1> QED BY <1>1, ConfigInvariant, PTL
=============================================================================
