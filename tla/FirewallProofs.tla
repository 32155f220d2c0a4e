--------------------------- MODULE FirewallProofs ---------------------------
(***************************************************************************)
(* Proofs about Firewall for every set of addresses and ports, every       *)
(* timeout and every set of nft faults, under the assumption that each     *)
(* port is requested with one port type.                                   *)
(***************************************************************************)
EXTENDS Firewall, FiniteSetTheorems, TLAPS

(***************************************************************************)
(* The inductive invariant. An operation works on leases that are not in   *)
(* the map (a new one, or removed ones), so that what its batch deletes is *)
(* never the rule of a lease in the map; and the phases of the process     *)
(* allow each operation only where async_main does.                        *)
(***************************************************************************)
Phases ==
    /\ op.kind = "none" => op = NoOp
    /\ op.kind = "init" <=> daemon = "init"
    /\ op.kind \in {"open", "close", "maintain", "rebuild"} =>
           daemon \in {"running", "exiting"}
    /\ op.kind = "shutdown" => daemon = "exiting"
    /\ daemon \in {"init", "setup", "running"} => ~shutdown
    /\ daemon = "exiting" => (shutdown <=> op.kind = "shutdown")
    /\ daemon \in {"exited", "failed", "init", "setup"} \/ op.kind = "shutdown" =>
           DOMAIN leases = {}

Apart ==
    /\ op.ids \cap DOMAIN leases = {}
    /\ \A id \in DOMAIN leases \cup op.ids : id.port # CtrlPort

IndInv ==
    /\ TypeOK
    /\ Phases
    /\ Apart
    /\ LeasedPortsAreOpen
    /\ ControlPortOpen

-----------------------------------------------------------------------------

(* Two leases that share a rule are the same lease. *)
LEMMA RulesDisjoint ==
    ASSUME OneTypePerPort,
           NEW i \in LeaseIds, NEW j \in LeaseIds,
           NEW r, r \in RulesOf(i), r \in RulesOf(j)
    PROVE  i = j
<1>1. i.addr = j.addr /\ i.port = j.port
  BY DEF RulesOf
<1>2. i.port \in Ports /\ i.type \in TypesOf[i.port] /\ j.type \in TypesOf[i.port]
  BY <1>1 DEF LeaseIds
<1>3. i.type = j.type
  BY <1>2 DEF OneTypePerPort, OneType
<1> QED
  BY <1>1, <1>3 DEF LeaseIds

(* The rules of a lease are address-specific rules, never control port rules. *)
LEMMA RulesAreLeaseRules ==
    ASSUME NEW id \in LeaseIds, NEW r \in RulesOf(id)
    PROVE  r \in LeaseRules /\ r \in Rules /\ r \notin CtrlRules
  BY ConstAssumption DEF LeaseIds, RulesOf, LeaseRules, Rules, CtrlRules, LeaseProtos

(* A rebuilt chain holds the control port rules and the rules of the leases, one
   copy of each. *)
LEMMA RebuiltValue ==
    ASSUME OneTypePerPort, NEW ids \in SUBSET LeaseIds, NEW r \in Rules
    PROVE  /\ Rebuilt(ids)[r] \in {0, 1}
           /\ r \in CtrlRules => Rebuilt(ids)[r] = 1
           /\ r \notin CtrlRules =>
                 (Rebuilt(ids)[r] = 1 <=> \E id \in ids : r \in RulesOf(id))
<1> DEFINE S == {id \in ids : r \in RulesOf(id)}
<1>1. CASE r \in CtrlRules
  BY <1>1 DEF Rebuilt
<1>2. CASE r \notin CtrlRules /\ S = {}
  BY <1>2, FS_EmptySet DEF Rebuilt
<1>3. CASE r \notin CtrlRules /\ S # {}
  <2>1. PICK x \in S : TRUE
    BY <1>3
  <2>2. S = {x}
    BY <2>1, RulesDisjoint
  <2>3. Cardinality(S) = 1
    BY <2>2, FS_Singleton
  <2> QED
    BY <1>3, <2>1, <2>3 DEF Rebuilt
<1> QED
  BY <1>1, <1>2, <1>3

(* What a batch may do to the chain, whatever the operation. *)
LEMMA EffectType ==
    ASSUME OneTypePerPort, TypeOK
    PROVE  Effect \in [Rules -> Nat]
<1>1. Added(op.ids) \in [Rules -> Nat]
  BY DEF TypeOK, Added
<1>2. Removed(op.ids) \in [Rules -> Nat]
  BY DEF TypeOK, Removed
<1>3. ASSUME NEW ids \in SUBSET LeaseIds PROVE Rebuilt(ids) \in [Rules -> Nat]
  <2>1. \A r \in Rules : Rebuilt(ids)[r] \in Nat
    BY RebuiltValue
  <2> QED
    BY <2>1 DEF Rebuilt
<1>4. EmptyChain \in [Rules -> Nat]
  BY DEF EmptyChain
<1>5. Rebuilt(DOMAIN leases) \in [Rules -> Nat] /\ Rebuilt({}) \in [Rules -> Nat]
  BY <1>3 DEF TypeOK
<1> QED
  BY <1>1, <1>2, <1>4, <1>5 DEF Effect, TypeOK

(* The batch of each kind of operation. *)
LEMMA EffectIs ==
    /\ op.kind = "open" => Effect = Added(op.ids)
    /\ op.kind \in {"close", "maintain"} => Effect = Removed(op.ids)
    /\ op.kind = "rebuild" => Effect = Rebuilt(DOMAIN leases)
    /\ op.kind = "init" => Effect = Rebuilt({})
    /\ op.kind = "shutdown" => Effect = EmptyChain
  BY DEF Effect

(* Adding or removing the rules of leases outside the map leaves the rules of
   the leases in the map and the control port rules in the chain. *)
LEMMA EffectSpares ==
    ASSUME OneTypePerPort, IndInv, op.kind \in {"open", "close", "maintain", "rebuild"}
    PROVE  /\ \A id \in DOMAIN leases : \A r \in RulesOf(id) : Effect[r] > 0
           /\ \A r \in CtrlRules : Effect[r] = 1
<1> USE DEF IndInv, TypeOK
<1>0. /\ \A id \in LeaseIds : \A r \in RulesOf(id) : r \in Rules /\ r \notin CtrlRules
      /\ CtrlRules \subseteq Rules
      /\ \A r \in CtrlRules : kernel[r] = 1
  BY RulesAreLeaseRules, ConstAssumption DEF ControlPortOpen, Phases, CtrlRules, Rules
<1>1. CASE op.kind = "open"
  BY <1>0, <1>1, EffectIs DEF Added, LeasedPortsAreOpen
<1>2. CASE op.kind \in {"close", "maintain"}
  <2>1. \A id \in DOMAIN leases : \A r \in RulesOf(id) : ~\E i \in op.ids : r \in RulesOf(i)
    BY RulesDisjoint DEF Apart
  <2> QED
    BY <1>0, <1>2, <2>1, EffectIs DEF Removed, LeasedPortsAreOpen
<1>3. CASE op.kind = "rebuild"
  <2>1. Effect = Rebuilt(DOMAIN leases)
    BY <1>3, EffectIs
  <2>2. ASSUME NEW id \in DOMAIN leases, NEW r \in RulesOf(id)
        PROVE  Rebuilt(DOMAIN leases)[r] = 1
    BY <1>0, RebuiltValue
  <2>3. \A r \in CtrlRules : Rebuilt(DOMAIN leases)[r] = 1
    BY <1>0, RebuiltValue
  <2> QED
    BY <2>1, <2>2, <2>3
<1> QED
  BY <1>1, <1>2, <1>3

-----------------------------------------------------------------------------
(* Each action preserves the inductive invariant. *)

(* Before the first start there is nothing in the map or in the chain. *)
LEMMA InitInd == Init => IndInv
<1> SUFFICES ASSUME Init PROVE IndInv
  OBVIOUS
<1> USE DEF Init
<1>1. DOMAIN leases = {} /\ leases \in [DOMAIN leases -> 0..Timeout]
  BY DEF NoLeases
<1>2. op \in [kind : Kinds \cup {"none"}, ids : SUBSET LeaseIds, ttl : 0..Timeout]
  BY ConstAssumption DEF NoOp
<1>3. kernel \in [Rules -> Nat]
  BY DEF EmptyChain
<1>4. TypeOK
  BY <1>1, <1>2, <1>3 DEF TypeOK
<1>5. Phases /\ Apart
  BY <1>1 DEF Phases, Apart, NoOp
<1>6. LeasedPortsAreOpen /\ ControlPortOpen
  BY <1>1 DEF LeasedPortsAreOpen, ControlPortOpen
<1> QED
  BY <1>4, <1>5, <1>6 DEF IndInv

(* Requests on the unix socket: handle_message up to its await. *)
LEMMA RequestInd ==
    ASSUME OneTypePerPort, IndInv, Request
    PROVE  IndInv'
<1> USE ConstAssumption DEF IndInv, CanLock, Kinds
<1>1. ASSUME NEW id \in LeaseIds, RejectRequest(id) PROVE IndInv'
  BY <1>1 DEF RejectRequest, TypeOK, Phases, Apart, LeasedPortsAreOpen, ControlPortOpen
<1>2. ASSUME NEW id \in LeaseIds, RefreshLease(id) PROVE IndInv'
  <2> USE <1>2 DEF RefreshLease
  <2>1. TypeOK'
    BY DEF TypeOK
  <2>2. DOMAIN leases' = DOMAIN leases
    OBVIOUS
  <2> QED
    BY <2>1, <2>2 DEF Phases, Apart, LeasedPortsAreOpen, ControlPortOpen
<1>3. ASSUME NEW id \in LeaseIds, BeginOpen(id) PROVE IndInv'
  <2> USE <1>3 DEF BeginOpen
  <2>1. TypeOK'
    BY DEF TypeOK
  <2>2. Phases' /\ Apart'
    BY DEF Phases, Apart, Acceptable, NoOp
  <2> QED
    BY <2>1, <2>2 DEF LeasedPortsAreOpen, ControlPortOpen
<1>4. ASSUME NEW id \in LeaseIds, OpenUnmatchable(id) PROVE IndInv'
  BY <1>4 DEF OpenUnmatchable, TypeOK, Phases, Apart, LeasedPortsAreOpen, ControlPortOpen
<1>5. ASSUME NEW id \in LeaseIds, BeginClose(id) PROVE IndInv'
  <2> USE <1>5 DEF BeginClose
  <2>1. TypeOK'
    BY DEF TypeOK
  <2>2. DOMAIN leases' = DOMAIN leases \ {id}
    OBVIOUS
  <2>3. Phases' /\ Apart'
    BY <2>2 DEF Phases, Apart, Acceptable, NoOp
  <2> QED
    BY <2>1, <2>2, <2>3 DEF LeasedPortsAreOpen, ControlPortOpen
<1> QED
  BY <1>1, <1>2, <1>3, <1>4, <1>5 DEF Request

(* The end of an nft process, successful or not. *)
LEMMA FinishInd ==
    ASSUME OneTypePerPort, IndInv, Finish
    PROVE  IndInv'
<1> USE ConstAssumption DEF IndInv, Kinds, NoOp
<1>0. Effect \in [Rules -> Nat]
  BY EffectType
<1>1. CASE FinishOpen
  <2> USE <1>1 DEF FinishOpen
  <2>1. CASE /\ NftOk
             /\ leases' = [id \in DOMAIN leases \cup op.ids |->
                               IF id \in op.ids THEN op.ttl ELSE leases[id]]
             /\ reply' = "Ack"
    <3>1. kernel' = Added(op.ids) /\ kernel' = Effect
      BY <2>1, EffectIs DEF NftOk
    <3>2. DOMAIN leases' = DOMAIN leases \cup op.ids
      BY <2>1
    <3>3. TypeOK'
      BY <1>0, <2>1, <3>1, <3>2 DEF TypeOK
    <3>4. Phases' /\ Apart'
      BY <3>2 DEF Phases, Apart
    <3>5. \A id \in op.ids : \A r \in RulesOf(id) : kernel'[r] > 0
      BY <3>1, RulesAreLeaseRules DEF Added, TypeOK
    <3>6. LeasedPortsAreOpen' /\ ControlPortOpen'
      BY <3>1, <3>2, <3>5, EffectSpares DEF LeasedPortsAreOpen, ControlPortOpen, Phases
    <3> QED
      BY <3>3, <3>4, <3>6
  <2>2. CASE NftFail /\ leases' = leases /\ reply' = "Nack"
    BY <2>2 DEF NftFail, TypeOK, Phases, Apart, LeasedPortsAreOpen, ControlPortOpen
  <2> QED
    BY <2>1, <2>2
<1>2. CASE FinishClose
  <2> USE <1>2 DEF FinishClose
  <2>1. TypeOK'
    BY <1>0 DEF TypeOK, NftOk, NftFail
  <2>2. Phases' /\ Apart'
    BY DEF Phases, Apart
  <2>3. LeasedPortsAreOpen' /\ ControlPortOpen'
    BY EffectSpares DEF LeasedPortsAreOpen, ControlPortOpen, NftOk, NftFail
  <2> QED
    BY <2>1, <2>2, <2>3
<1>3. CASE FinishMaintain
  <2> USE <1>3 DEF FinishMaintain
  <2>1. TypeOK'
    BY <1>0 DEF TypeOK, NftOk, NftFail
  <2>2. Phases' /\ Apart'
    BY DEF Phases, Apart, TypeOK
  <2>3. LeasedPortsAreOpen' /\ ControlPortOpen'
    BY EffectSpares DEF LeasedPortsAreOpen, ControlPortOpen, NftOk, NftFail
  <2> QED
    BY <2>1, <2>2, <2>3
<1>4. CASE FinishRebuild
  <2> USE <1>4 DEF FinishRebuild
  <2>1. TypeOK'
    BY <1>0 DEF TypeOK, NftOk, NftFail
  <2>2. Phases' /\ Apart'
    BY DEF Phases, Apart
  <2>3. LeasedPortsAreOpen' /\ ControlPortOpen'
    BY EffectSpares DEF LeasedPortsAreOpen, ControlPortOpen, NftOk, NftFail, Phases
  <2> QED
    BY <2>1, <2>2, <2>3
<1>5. CASE FinishInit
  <2> USE <1>5 DEF FinishInit
  <2>1. TypeOK'
    BY <1>0 DEF TypeOK, NftOk, NftFail
  <2>2. Phases' /\ Apart'
    BY DEF Phases, Apart, TypeOK
  <2>3. LeasedPortsAreOpen'
    BY DEF LeasedPortsAreOpen, Phases
  <2>4. CtrlRules \subseteq Rules
    BY DEF CtrlRules, Rules
  <2>5. \A r \in CtrlRules : Rebuilt({})[r] = 1
    BY <2>4, RebuiltValue
  <2>6. ControlPortOpen'
    BY <2>5, EffectIs DEF ControlPortOpen, NftOk, NftFail, Phases
  <2> QED
    BY <2>1, <2>2, <2>3, <2>6
<1>6. CASE FinishShutdown
  <2> USE <1>6 DEF FinishShutdown
  <2>1. TypeOK'
    BY <1>0 DEF TypeOK, NftOk, NftFail
  <2>2. Phases' /\ Apart'
    BY DEF Phases, Apart
  <2> QED
    BY <2>1, <2>2 DEF LeasedPortsAreOpen, ControlPortOpen, Phases
<1> QED
  BY <1>1, <1>2, <1>3, <1>4, <1>5, <1>6 DEF Finish

(* Maintenance, the clock, startup, signals, shutdown and crashes. *)
LEMMA OtherInd ==
    ASSUME OneTypePerPort, IndInv,
           \/ BeginMaintain \/ Tick \/ Start \/ Setup
           \/ \E why \in {"sigterm", "sigint", "socket"} : EndMainLoop(why)
           \/ BeginShutdown \/ Crash
    PROVE  IndInv'
<1> USE ConstAssumption DEF IndInv, Kinds, NoOp
<1>1. CASE BeginMaintain
  <2> USE <1>1 DEF BeginMaintain
  <2>1. DOMAIN leases' = DOMAIN leases \ Expired /\ Expired \subseteq DOMAIN leases
    BY DEF Expired
  <2>2. TypeOK'
    BY <2>1 DEF TypeOK
  <2>3. Phases' /\ Apart'
    BY <2>1 DEF Phases, Apart, CanLock
  <2> QED
    BY <2>1, <2>2, <2>3 DEF LeasedPortsAreOpen, ControlPortOpen
<1>2. CASE Tick
  <2> USE <1>2 DEF Tick
  <2>1. DOMAIN leases' = DOMAIN leases
    OBVIOUS
  <2>2. op'.kind = op.kind /\ op'.ids = op.ids /\ op'.ttl \in 0..Timeout
    BY DEF TypeOK
  <2>3. leases' \in [DOMAIN leases' -> 0..Timeout]
    BY <2>1 DEF TypeOK
  <2>4. op' \in [kind : Kinds \cup {"none"}, ids : SUBSET LeaseIds, ttl : 0..Timeout]
    BY <2>2 DEF TypeOK
  <2>5. TypeOK'
    BY <2>1, <2>3, <2>4 DEF TypeOK
  <2>6. op.kind = "none" => op' = NoOp
    <3>1. op.kind = "none" => op'.kind = "none" /\ op'.ids = {} /\ op'.ttl = 0
      BY <2>2 DEF Phases, TypeOK
    <3> QED
      BY <2>4, <3>1
  <2>7. Phases' /\ Apart'
    BY <2>1, <2>2, <2>6 DEF Phases, Apart
  <2> QED
    BY <2>1, <2>5, <2>7 DEF LeasedPortsAreOpen, ControlPortOpen
<1>3. CASE Start \/ BeginShutdown \/ Crash
  <2>1. DOMAIN leases' = {} /\ leases' \in [DOMAIN leases' -> 0..Timeout]
    BY <1>3 DEF Start, BeginShutdown, Crash, NoLeases
  <2>2. kernel' \in [Rules -> Nat]
    BY <1>3, EffectType DEF Start, BeginShutdown, Crash, TypeOK
  <2>3. op' \in [kind : Kinds \cup {"none"}, ids : SUBSET LeaseIds, ttl : 0..Timeout]
    BY <1>3 DEF Start, BeginShutdown, Crash
  <2>4. TypeOK'
    BY <1>3, <2>1, <2>2, <2>3 DEF Start, BeginShutdown, Crash, TypeOK
  <2>5. Phases' /\ Apart'
    BY <1>3, <2>1 DEF Start, BeginShutdown, Crash, Phases, Apart
  <2>6. LeasedPortsAreOpen' /\ ControlPortOpen'
    BY <1>3, <2>1 DEF Start, BeginShutdown, Crash, LeasedPortsAreOpen, ControlPortOpen
  <2> QED
    BY <2>4, <2>5, <2>6
<1>4. CASE Setup
  BY <1>4 DEF Setup, TypeOK, Phases, Apart, LeasedPortsAreOpen, ControlPortOpen
<1>5. ASSUME NEW why \in {"sigterm", "sigint", "socket"}, EndMainLoop(why)
      PROVE  IndInv'
  BY <1>5 DEF EndMainLoop, TypeOK, Phases, Apart, LeasedPortsAreOpen, ControlPortOpen
<1> QED
  BY <1>1, <1>2, <1>3, <1>4, <1>5

(* Every step of the daemon and of its environment. *)
LEMMA StepInd ==
    ASSUME OneTypePerPort, IndInv, [Next]_vars
    PROVE  IndInv'
<1>1. CASE UNCHANGED vars
  BY <1>1 DEF vars, IndInv, TypeOK, Phases, Apart, LeasedPortsAreOpen, ControlPortOpen
<1>2. CASE Next
  BY <1>2, RequestInd, FinishInd, OtherInd DEF Next
<1> QED
  BY <1>1, <1>2

(* The inductive invariant holds in every reachable state. *)
LEMMA Invariance == OneTypePerPort => (Spec => []IndInv)
<1> SUFFICES ASSUME OneTypePerPort PROVE Spec => []IndInv
  OBVIOUS
<1>1. IndInv /\ [Next]_vars => IndInv'
  BY StepInd
<1> QED
  BY <1>1, InitInd, PTL DEF Spec

(* The type invariant holds in every reachable state. *)
THEOREM TypeCorrect == OneTypePerPort => (Spec => []TypeOK)
<1>1. IndInv => TypeOK
  BY DEF IndInv
<1> QED
  BY <1>1, Invariance, PTL

(* For any faults of nft, with or without debug: whenever open_port would only
   refresh a lease, the port of that lease is open in the kernel. *)
THEOREM LeasesOpen == OneTypePerPort => (Spec => []LeasedPortsAreOpen)
<1>1. IndInv => LeasedPortsAreOpen
  BY DEF IndInv
<1> QED
  BY <1>1, Invariance, PTL

(* The control port stays open from NftFirewall::new to the flush of shutdown. *)
THEOREM ControlOpen == OneTypePerPort => (Spec => []ControlPortOpen)
<1>1. IndInv => ControlPortOpen
  BY DEF IndInv
<1> QED
  BY <1>1, Invariance, PTL

(* No assertion of NftFirewall or of Lease::new fails. *)
THEOREM AssertionsHold == OneTypePerPort => (Spec => []FirewallAssertions)
<1>1. IndInv => FirewallAssertions
  BY DEF IndInv, FirewallAssertions, Phases, Apart
<1> QED
  BY <1>1, Invariance, PTL

-----------------------------------------------------------------------------
(***************************************************************************)
(* When the nft calls of close_port succeed and debug is off, the chain    *)
(* holds no rule without a lease. The strengthening: one copy of each rule *)
(* at most, none yet of a lease that is being opened, and an empty set of  *)
(* address-specific rules when the daemon enters its main loop.            *)
(***************************************************************************)
BeingRemoved == IF op.kind = "open" THEN {} ELSE op.ids

Accounted ==
    /\ daemon = "setup" => \A r \in LeaseRules : kernel[r] = 0
    /\ daemon = "running" =>
          \A r \in LeaseRules :
              /\ kernel[r] <= 1
              /\ kernel[r] > 0 =>
                    \E id \in DOMAIN leases \cup BeingRemoved : r \in RulesOf(id)

CloseIsReliable == ~Debug /\ "close" \notin NftFaults

(* No step leaves a rule without an account of it, if closing works. *)
LEMMA StepAccounted ==
    ASSUME OneTypePerPort, CloseIsReliable, IndInv, Accounted, [Next]_vars
    PROVE  Accounted'
<1> USE ConstAssumption DEF IndInv, TypeOK, BeingRemoved
<1>0. LeaseRules \subseteq Rules /\ \A r \in LeaseRules : r \notin CtrlRules
  BY DEF LeaseRules, CtrlRules
<1>1. CASE UNCHANGED vars
  BY <1>1 DEF vars, Accounted
<1>2. ASSUME NEW id \in LeaseIds, RejectRequest(id) \/ OpenUnmatchable(id)
      PROVE  Accounted'
  BY <1>2 DEF RejectRequest, OpenUnmatchable, Accounted
<1>3. ASSUME NEW id \in LeaseIds, RefreshLease(id) PROVE Accounted'
  <2>1. DOMAIN leases' = DOMAIN leases
    BY <1>3 DEF RefreshLease
  <2> QED
    BY <1>3, <2>1 DEF RefreshLease, Accounted
<1>4. ASSUME NEW id \in LeaseIds, BeginOpen(id) PROVE Accounted'
  BY <1>4 DEF BeginOpen, Accounted, CanLock, NoOp
<1>5. ASSUME NEW id \in LeaseIds, BeginClose(id) PROVE Accounted'
  <2>1. DOMAIN leases' \cup op'.ids = DOMAIN leases \cup {id} /\ op'.kind = "close"
    BY <1>5 DEF BeginClose
  <2> QED
    BY <1>5, <2>1 DEF BeginClose, Accounted, CanLock, NoOp
<1>6. CASE FinishOpen
  <2> USE <1>6 DEF FinishOpen
  <2>1. CASE /\ NftOk
             /\ leases' = [id \in DOMAIN leases \cup op.ids |->
                               IF id \in op.ids THEN op.ttl ELSE leases[id]]
    <3>1. kernel' = Added(op.ids) /\ DOMAIN leases' = DOMAIN leases \cup op.ids
      BY <2>1, EffectIs DEF NftOk
    <3>2. daemon = "running" =>
             \A r \in LeaseRules :
                 (\E id \in op.ids : r \in RulesOf(id)) => kernel[r] = 0
      BY <1>0, RulesDisjoint DEF Accounted, Apart
    <3> QED
      BY <1>0, <3>1, <3>2 DEF Accounted, Added, NoOp, Phases
  <2>2. CASE NftFail /\ leases' = leases
    BY <2>2 DEF NftFail, Accounted, NoOp, Phases
  <2> QED
    BY <2>1, <2>2
<1>7. CASE FinishClose
  <2>1. kernel' = Removed(op.ids)
    BY <1>7, EffectIs DEF FinishClose, NftOk, NftFail, CloseIsReliable
  <2> QED
    BY <1>0, <1>7, <2>1 DEF FinishClose, Accounted, Removed, NoOp, Phases
<1>8. CASE FinishMaintain
  <2> USE <1>8 DEF FinishMaintain
  <2>1. CASE NftOk /\ op' = NoOp
    <3>1. kernel' = Removed(op.ids)
      BY <2>1, EffectIs DEF NftOk
    <3> QED
      BY <1>0, <2>1, <3>1 DEF Accounted, Removed, NoOp, Phases
  <2>2. CASE NftFail /\ op' = [op EXCEPT !.kind = "rebuild"]
    BY <2>2 DEF NftFail, Accounted, Phases
  <2> QED
    BY <2>1, <2>2 DEF CloseIsReliable
<1>9. CASE FinishRebuild
  <2> USE <1>9 DEF FinishRebuild
  <2>1. CASE NftOk
    <3>1. kernel' = Rebuilt(DOMAIN leases)
      BY <2>1, EffectIs DEF NftOk
    <3>2. \A r \in LeaseRules :
             /\ kernel'[r] \in {0, 1}
             /\ kernel'[r] = 1 => \E id \in DOMAIN leases : r \in RulesOf(id)
      BY <1>0, <3>1, RebuiltValue
    <3> QED
      BY <3>2 DEF Accounted, Phases
  <2>2. CASE daemon' = "exiting"
    BY <2>2 DEF Accounted
  <2> QED
    BY <2>1, <2>2
<1>10. CASE FinishInit
  <2> USE <1>10 DEF FinishInit
  <2>1. CASE NftOk /\ daemon' = "setup"
    <3>1. kernel' = Rebuilt({})
      BY <2>1, EffectIs DEF NftOk
    <3>2. \A r \in LeaseRules : kernel'[r] = 0
      BY <1>0, <3>1, RebuiltValue
    <3> QED
      BY <2>1, <3>2 DEF Accounted
  <2>2. CASE daemon' = "failed"
    BY <2>2 DEF Accounted
  <2> QED
    BY <2>1, <2>2
<1>11. CASE FinishShutdown \/ Start \/ BeginShutdown \/ Crash
  BY <1>11 DEF FinishShutdown, Start, BeginShutdown, Crash, Accounted
<1>12. CASE BeginMaintain
  <2>1. DOMAIN leases' \cup op'.ids = DOMAIN leases /\ op'.kind = "maintain"
    BY <1>12 DEF BeginMaintain, Expired
  <2> QED
    BY <1>12, <2>1 DEF BeginMaintain, Accounted, CanLock, NoOp
<1>13. CASE Tick
  <2>1. DOMAIN leases' = DOMAIN leases /\ op'.kind = op.kind /\ op'.ids = op.ids
    BY <1>13 DEF Tick
  <2> QED
    BY <1>13, <2>1 DEF Tick, Accounted
<1>14. CASE Setup
  BY <1>0, <1>14 DEF Setup, Accounted
<1>15. ASSUME NEW why, EndMainLoop(why) PROVE Accounted'
  BY <1>15 DEF EndMainLoop, Accounted
<1> QED
  BY <1>1, <1>2, <1>3, <1>4, <1>5, <1>6, <1>7, <1>8, <1>9, <1>10, <1>11, <1>12,
     <1>13, <1>14, <1>15 DEF Next, Request, Finish

(* All rules are accounted for in every reachable state, if closing works. *)
LEMMA AccountedInvariance ==
    OneTypePerPort /\ CloseIsReliable => (Spec => [](IndInv /\ Accounted))
<1> SUFFICES ASSUME OneTypePerPort, CloseIsReliable
             PROVE  Spec => [](IndInv /\ Accounted)
  OBVIOUS
<1>1. Init => Accounted
  BY DEF Init, Accounted
<1>2. IndInv /\ Accounted /\ [Next]_vars => Accounted'
  BY StepAccounted
<1> QED
  BY <1>1, <1>2, Invariance, PTL DEF Spec

(* While letmeinfwd runs, no rule outlives its lease, whatever other nft calls
   fail and wherever the daemon crashed before. *)
THEOREM NoOrphans ==
    OneTypePerPort /\ CloseIsReliable => (Spec => []NoOrphanRules)
<1>1. IndInv /\ Accounted => NoOrphanRules
  BY DEF IndInv, TypeOK, Accounted, NoOrphanRules, BeingRemoved
<1> QED
  BY <1>1, AccountedInvariance, PTL

(* The Ack and Nack that letmeind receives agree with the kernel. *)
THEOREM TrueReplies ==
    OneTypePerPort /\ CloseIsReliable => (Spec => RepliesAreTrue)
<1> SUFFICES ASSUME OneTypePerPort, CloseIsReliable PROVE Spec => RepliesAreTrue
  OBVIOUS
<1> DEFINE Finished ==
        daemon = "running" /\ op' = NoOp =>
        /\ op.kind = "open" /\ reply' = "Ack" =>
              /\ op.ids \subseteq DOMAIN leases'
              /\ \A id \in op.ids : \A r \in RulesOf(id) : kernel'[r] > 0
        /\ \/ op.kind = "open" /\ reply' = "Nack"
           \/ op.kind = "close" /\ reply' = "Ack"
           => \A id \in op.ids : OneType(id.port) =>
                  \A r \in RulesOf(id) : kernel'[r] = 0
<1> DEFINE Refreshed ==
        \A id \in LeaseIds : RefreshLease(id) /\ OneType(id.port) =>
              \A r \in RulesOf(id) : kernel'[r] > 0
<1>1. IndInv /\ Accounted /\ [Next]_vars => [Finished]_vars
  <2> SUFFICES ASSUME IndInv, Accounted, Next, daemon = "running", op' = NoOp,
                      op.kind \in {"open", "close"}
               PROVE  Finished
    OBVIOUS
  <2> USE DEF IndInv, TypeOK
  <2>1. \A id \in op.ids : \A r \in RulesOf(id) : r \in LeaseRules /\ r \in Rules
    BY RulesAreLeaseRules
  <2>2. CASE FinishOpen
    <3>1. CASE /\ NftOk
               /\ leases' = [id \in DOMAIN leases \cup op.ids |->
                                 IF id \in op.ids THEN op.ttl ELSE leases[id]]
               /\ reply' = "Ack"
      BY <2>1, <2>2, <3>1, EffectIs DEF FinishOpen, NftOk, Added
    <3>2. CASE NftFail /\ reply' = "Nack"
      <4>1. \A id \in op.ids : \A r \in RulesOf(id) : kernel[r] = 0
        BY <2>1, <2>2, RulesDisjoint DEF Accounted, Apart, BeingRemoved, FinishOpen
      <4> QED
        BY <2>2, <3>2, <4>1 DEF NftFail, FinishOpen
    <3> QED
      BY <2>2, <3>1, <3>2 DEF FinishOpen
  <2>3. CASE FinishClose
    <3>1. kernel' = Removed(op.ids)
      BY <2>3, EffectIs DEF FinishClose, NftOk, NftFail, CloseIsReliable
    <3>2. \A id \in op.ids : \A r \in RulesOf(id) : kernel[r] <= 1 /\ kernel[r] \in Nat
      BY <2>1 DEF Accounted
    <3> QED
      BY <2>1, <2>3, <3>1, <3>2 DEF FinishClose, Removed
  <2>4. CASE Crash
    BY <2>4 DEF Crash
  <2>5. op'.kind # op.kind /\ op # NoOp
    BY DEF NoOp
  <2>6. ~Request
    BY <2>5 DEF Request, CanLock, RejectRequest, RefreshLease, BeginOpen,
       OpenUnmatchable, BeginClose
  <2>7. ~Tick
    BY <2>5 DEF Tick
  <2>8. ~(FinishMaintain \/ FinishRebuild \/ FinishInit \/ FinishShutdown)
    BY DEF FinishMaintain, FinishRebuild, FinishInit, FinishShutdown
  <2>9. ~(BeginMaintain \/ Start \/ Setup \/ BeginShutdown)
    BY <2>5 DEF BeginMaintain, CanLock, Start, Setup, BeginShutdown
  <2>10. ~\E why \in {"sigterm", "sigint", "socket"} : EndMainLoop(why)
    BY <2>5 DEF EndMainLoop
  <2> QED
    BY <2>2, <2>3, <2>4, <2>6, <2>7, <2>8, <2>9, <2>10 DEF Next, Finish
<1>2. IndInv => Refreshed
  BY DEF IndInv, LeasedPortsAreOpen, RefreshLease
<1> DEFINE Told == /\ Refreshed
                   /\ Finished
<1>3. RepliesAreTrue <=> [][Told]_vars
  BY DEF RepliesAreTrue
<1>4. IndInv /\ Accounted /\ [Next]_vars => [Told]_vars
  BY <1>1, <1>2
<1> QED
  BY <1>3, <1>4, AccountedInvariance, PTL DEF Spec

(* Maintenance, rebuilds and requests for other leases never cut off a client
   whose lease has time left, whatever nft calls fail, with or without debug. *)
THEOREM NotClosedEarly == OneTypePerPort => (Spec => NeverClosedEarly)
<1> SUFFICES ASSUME OneTypePerPort PROVE Spec => NeverClosedEarly
  OBVIOUS
<1> DEFINE Kept ==
        \A id \in DOMAIN leases : leases[id] > 0 =>
          \/ /\ id \in DOMAIN leases'
             /\ \A r \in RulesOf(id) : kernel'[r] > 0
          \/ op'.kind = "close" /\ id \in op'.ids
          \/ shutdown'
          \/ daemon' = "failed"
<1>1. IndInv /\ IndInv' /\ [Next]_vars => [Kept]_vars
  <2> SUFFICES ASSUME IndInv, IndInv', Next,
                      NEW id \in DOMAIN leases, leases[id] > 0
               PROVE  \/ id \in DOMAIN leases'
                      \/ op'.kind = "close" /\ id \in op'.ids
                      \/ shutdown'
                      \/ daemon' = "failed"
    BY DEF IndInv, LeasedPortsAreOpen
  <2>0. daemon \in {"running", "exiting"} /\ id \in LeaseIds
    BY DEF IndInv, Phases, TypeOK
  <2>1. CASE Request
    BY <2>1 DEF Request, RejectRequest, RefreshLease, BeginOpen, OpenUnmatchable, BeginClose
  <2>2. CASE Finish
    BY <2>2 DEF Finish, FinishOpen, FinishClose, FinishMaintain, FinishRebuild, FinishInit,
       FinishShutdown
  <2>3. CASE BeginMaintain
    BY <2>3 DEF BeginMaintain, Expired
  <2>4. CASE Tick \/ Setup \/ \E why \in {"sigterm", "sigint", "socket"} : EndMainLoop(why)
    BY <2>4 DEF Tick, Setup, EndMainLoop
  <2>5. CASE Start \/ BeginShutdown \/ Crash
    BY <2>0, <2>5 DEF Start, BeginShutdown, Crash
  <2> QED
    BY <2>1, <2>2, <2>3, <2>4, <2>5 DEF Next
<1>2. NeverClosedEarly <=> [][Kept]_vars
  BY DEF NeverClosedEarly
<1> QED
  BY <1>1, <1>2, Invariance, PTL DEF Spec
=============================================================================
