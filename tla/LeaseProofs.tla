---------------------------- MODULE LeaseProofs -----------------------------
(***************************************************************************)
(* letmeinfwd implements Leases, for every set of addresses and ports,     *)
(* every timeout and every set of nft faults, under the assumption that    *)
(* each port is requested with one port type.                              *)
(***************************************************************************)
EXTENDS FirewallProofs

\* The doors of Leases that are open: address-specific rules in the chain.
OpenDoors == {r \in LeaseRules : kernel[r] > 0}

\* What is being opened was asked for and passed the checks of handle_message.
OpensAccepted ==
    op.kind = "open" => \E id \in LeaseIds : Acceptable(id) /\ op.ids = {id}

(* An open in progress goes back to an accepted request. *)
LEMMA OpensAcceptedInvariance == OneTypePerPort => (Spec => []OpensAccepted)
<1> SUFFICES ASSUME OneTypePerPort PROVE Spec => []OpensAccepted
  OBVIOUS
<1>1. Init => OpensAccepted
  BY DEF Init, NoOp, OpensAccepted
<1>2. ASSUME TypeOK, OpensAccepted, [Next]_vars PROVE OpensAccepted'
  <2> USE DEF OpensAccepted, Acceptable, addr_check
  <2>1. CASE UNCHANGED vars
    BY <1>2, <2>1 DEF vars
  <2>2. CASE Request
    BY <1>2, <2>2 DEF Request, RejectRequest, RefreshLease, BeginOpen, OpenUnmatchable,
       BeginClose
  <2>3. CASE Finish
    <3>1. op' = NoOp \/ (op.kind = "maintain" /\ op' = [op EXCEPT !.kind = "rebuild"])
      BY <2>3 DEF Finish, FinishOpen, FinishClose, FinishMaintain, FinishRebuild,
         FinishInit, FinishShutdown
    <3> QED
      BY <1>2, <3>1 DEF NoOp, TypeOK
  <2>4. CASE Tick
    <3>1. op'.kind = op.kind /\ op'.ids = op.ids
      BY <1>2, <2>4 DEF Tick, TypeOK
    <3> QED
      BY <1>2, <3>1
  <2>5. CASE BeginMaintain \/ Start \/ BeginShutdown \/ Crash
    BY <2>5 DEF BeginMaintain, Start, BeginShutdown, Crash, NoOp
  <2>6. CASE Setup \/ \E why \in {"sigterm", "sigint", "socket"} : EndMainLoop(why)
    BY <1>2, <2>6 DEF Setup, EndMainLoop
  <2> QED
    BY <1>2, <2>1, <2>2, <2>3, <2>4, <2>5, <2>6 DEF Next
<1> QED
  BY <1>1, <1>2, TypeCorrect, PTL DEF Spec

-----------------------------------------------------------------------------
(* What the steps of letmeinfwd are to Leases. *)

(* A step that leaves leases and chain alone is none. *)
LEMMA Stutters ==
    ASSUME UNCHANGED <<leases, kernel>>
    PROVE  UNCHANGED LeaseSpec!vars
  BY DEF LeaseSpec!vars

(* Granting: the rules of one accepted lease are added, and it enters the map. *)
LEMMA AddedDoors ==
    ASSUME TypeOK, NEW id \in LeaseIds, kernel' = Added({id})
    PROVE  OpenDoors' = OpenDoors \cup RulesOf(id)
<1>1. \A r \in Rules : kernel'[r] = IF r \in RulesOf(id) THEN kernel[r] + 1 ELSE kernel[r]
  BY DEF Added
<1>2. \A r \in Rules : kernel[r] \in Nat
  BY DEF TypeOK
<1>3. RulesOf(id) \subseteq LeaseRules /\ LeaseRules \subseteq Rules
  BY RulesAreLeaseRules DEF LeaseRules
<1> QED
  BY <1>1, <1>2, <1>3 DEF OpenDoors

(* Shutting: rules go, but none of a lease in the map, which does not change. *)
LEMMA ShutsDoors ==
    ASSUME TypeOK, leases' = leases, OpenDoors' \subseteq OpenDoors,
           \A id \in DOMAIN leases : \A r \in RulesOf(id) : kernel'[r] > 0
    PROVE  LeaseSpec!Shut
<1>1. \A id \in DOMAIN leases : id \in LeaseIds
  BY DEF TypeOK
<1>2. \A id \in DOMAIN leases : RulesOf(id) \subseteq OpenDoors'
  BY <1>1, RulesAreLeaseRules DEF OpenDoors
<1> QED
  BY <1>1, <1>2 DEF LeaseSpec!Shut, LeaseSpec!DoorsOf, OpenDoors

(* A batch other than that of open_port, and a failed one, opens nothing. *)
LEMMA EffectOpensNothing ==
    ASSUME OneTypePerPort, IndInv, op.kind # "open", kernel' \in {kernel, Effect}
    PROVE  OpenDoors' \subseteq OpenDoors
<1> SUFFICES ASSUME NEW r \in LeaseRules, Effect[r] > 0, kernel' = Effect
             PROVE  kernel[r] > 0
  BY DEF OpenDoors
<1>0. r \in Rules /\ kernel[r] \in Nat /\ r \notin CtrlRules
  BY ConstAssumption DEF LeaseRules, IndInv, TypeOK, CtrlRules
<1>1. CASE op.kind \in {"close", "maintain"}
  BY <1>0, <1>1, EffectIs DEF Removed
<1>2. CASE op.kind \in {"rebuild", "init"}
  <2>1. PICK ids \in {DOMAIN leases, {}} : Effect = Rebuilt(ids)
    BY <1>2, EffectIs
  <2>2. DOMAIN leases \subseteq LeaseIds
    BY DEF IndInv, TypeOK
  <2>3. \E id \in ids : r \in RulesOf(id)
    BY <1>0, <2>1, <2>2, RebuiltValue
  <2> QED
    BY <2>1, <2>3 DEF IndInv, LeasedPortsAreOpen
<1>3. CASE op.kind = "shutdown"
  BY <1>0, <1>3, EffectIs DEF EmptyChain
<1>4. CASE op.kind = "none"
  BY <1>4 DEF Effect
<1> QED
  BY <1>1, <1>2, <1>3, <1>4 DEF IndInv, TypeOK, Kinds

(* Requests: a refresh grants another term, a close cancels the lease. *)
LEMMA RequestRefines ==
    ASSUME IndInv, Request
    PROVE  [LeaseSpec!Next]_(LeaseSpec!vars)
<1>1. PICK id \in LeaseIds :
          RejectRequest(id) \/ RefreshLease(id) \/ BeginOpen(id) \/ OpenUnmatchable(id)
            \/ BeginClose(id)
  BY DEF Request
<1>2. CASE RejectRequest(id) \/ BeginOpen(id) \/ OpenUnmatchable(id)
  BY <1>2, Stutters DEF RejectRequest, BeginOpen, OpenUnmatchable
<1>3. CASE RefreshLease(id)
  <2>0. Timeout \in 0..Timeout
    BY ConstAssumption
  <2>1. id \in DOMAIN leases /\ DOMAIN leases \cup {id} = DOMAIN leases
    BY <1>3 DEF RefreshLease
  <2>2. leases' = [i \in DOMAIN leases \cup {id} |-> IF i = id THEN Timeout ELSE leases[i]]
    BY <1>3, <2>1 DEF RefreshLease, IndInv, TypeOK
  <2>3. RulesOf(id) \subseteq OpenDoors
    BY <1>3, RulesAreLeaseRules DEF RefreshLease, OpenDoors, IndInv, LeasedPortsAreOpen
  <2>4. OpenDoors' = OpenDoors
    BY <1>3 DEF RefreshLease, OpenDoors
  <2>5. LeaseSpec!Grant(id)
    BY <2>0, <2>1, <2>2, <2>3, <2>4 DEF LeaseSpec!Grant, OpenDoors
  <2> QED
    BY <1>3, <2>5 DEF LeaseSpec!Next, RefreshLease
<1>4. CASE BeginClose(id)
  <2>1. LeaseSpec!Cancel(id)
    BY <1>4 DEF BeginClose, LeaseSpec!Cancel
  <2> QED
    BY <1>4, <2>1 DEF LeaseSpec!Next, BeginClose
<1> QED
  BY <1>1, <1>2, <1>3, <1>4

(* Completed nft calls: an open grants, all others shut doors or do nothing. *)
LEMMA FinishRefines ==
    ASSUME OneTypePerPort, IndInv, OpensAccepted, Finish
    PROVE  [LeaseSpec!Next]_(LeaseSpec!vars)
<1>1. CASE FinishOpen
  <2>1. PICK id \in LeaseIds : Acceptable(id) /\ op.ids = {id}
    BY <1>1 DEF FinishOpen, OpensAccepted
  <2>2. CASE NftFail /\ leases' = leases
    BY <2>2, Stutters DEF NftFail
  <2>3. CASE /\ NftOk
             /\ leases' = [i \in DOMAIN leases \cup op.ids |->
                               IF i \in op.ids THEN op.ttl ELSE leases[i]]
    <3>1. OpenDoors' = OpenDoors \cup RulesOf(id)
      BY <1>1, <2>1, <2>3, EffectIs, AddedDoors DEF FinishOpen, NftOk, IndInv
    <3>2. id \notin DOMAIN leases /\ op.ttl \in 0..Timeout
      BY <2>1 DEF IndInv, Apart, TypeOK
    <3>3. leases' = [i \in DOMAIN leases \cup {id} |-> IF i = id THEN op.ttl ELSE leases[i]]
      BY <2>1, <2>3
    <3>4. LeaseSpec!Grant(id)
      BY <3>1, <3>2, <3>3 DEF LeaseSpec!Grant, OpenDoors
    <3> QED
      BY <2>1, <3>4 DEF LeaseSpec!Next
  <2> QED
    BY <1>1, <2>2, <2>3 DEF FinishOpen
<1>2. CASE ~FinishOpen
  <2>1. leases' = leases /\ kernel' \in {kernel, Effect} /\ op.kind # "open" /\ op.kind # "none"
    BY <1>2 DEF Finish, FinishClose, FinishMaintain, FinishRebuild, FinishInit,
       FinishShutdown, NftOk, NftFail
  <2>2. \A id \in DOMAIN leases : \A r \in RulesOf(id) : kernel'[r] > 0
    <3>1. CASE op.kind \in {"close", "maintain", "rebuild"}
      BY <2>1, <3>1, EffectSpares DEF IndInv, LeasedPortsAreOpen
    <3>2. CASE op.kind \in {"init", "shutdown"}
      BY <3>2 DEF IndInv, Phases
    <3> QED
      BY <2>1, <3>1, <3>2 DEF IndInv, TypeOK, Kinds
  <2>3. LeaseSpec!Shut
    BY <2>1, <2>2, EffectOpensNothing, ShutsDoors DEF IndInv
  <2> QED
    BY <2>3 DEF LeaseSpec!Next
<1> QED
  BY <1>1, <1>2

(* The clock, maintenance, and the end of the process. *)
LEMMA OtherRefines ==
    ASSUME OneTypePerPort, IndInv, OpensAccepted,
           \/ BeginMaintain \/ Tick \/ Start \/ Setup \/ BeginShutdown \/ Crash
           \/ \E why \in {"sigterm", "sigint", "socket"} : EndMainLoop(why)
    PROVE  [LeaseSpec!Next]_(LeaseSpec!vars)
<1>1. CASE Setup \/ \E why \in {"sigterm", "sigint", "socket"} : EndMainLoop(why)
  BY <1>1, Stutters DEF Setup, EndMainLoop
<1>2. CASE BeginMaintain
  <2>1. DOMAIN leases \ Expired = {j \in DOMAIN leases : leases[j] > 0}
    BY DEF Expired, IndInv, TypeOK
  <2>2. LeaseSpec!Expire
    BY <1>2, <2>1 DEF BeginMaintain, LeaseSpec!Expire
  <2> QED
    BY <2>2 DEF LeaseSpec!Next
<1>3. CASE Tick
  <2>1. LeaseSpec!Tick
    BY <1>3 DEF Tick, LeaseSpec!Tick
  <2> QED
    BY <2>1 DEF LeaseSpec!Next
<1>4. CASE Start \/ BeginShutdown
  <2>1. leases' = [id \in {} |-> 0] /\ kernel' = kernel
    BY <1>4 DEF Start, BeginShutdown, NoLeases
  <2>2. OpenDoors' \subseteq OpenDoors \cup UNION {}
    BY <2>1 DEF OpenDoors
  <2>3. LeaseSpec!Outage
    BY <2>1 DEF LeaseSpec!Outage, LeaseSpec!DoorsOf
  <2> QED
    BY <2>3 DEF LeaseSpec!Next
<1>5. CASE Crash
  <2>1. leases' = [id \in {} |-> 0] /\ kernel' \in {kernel, Effect}
    BY <1>5 DEF Crash, NoLeases
  <2>2. CASE op.kind # "open"
    <3>1. OpenDoors' \subseteq OpenDoors
      BY <2>1, <2>2, EffectOpensNothing
    <3>2. LeaseSpec!Outage
      BY <2>1, <3>1 DEF LeaseSpec!Outage, LeaseSpec!DoorsOf, OpenDoors
    <3> QED
      BY <3>2 DEF LeaseSpec!Next
  <2>3. CASE op.kind = "open"
    <3>1. PICK id \in LeaseIds : Acceptable(id) /\ op.ids = {id}
      BY <2>3 DEF OpensAccepted
    <3>2. OpenDoors' \subseteq OpenDoors \cup RulesOf(id)
      <4>1. CASE kernel' = kernel
        BY <4>1 DEF OpenDoors
      <4>2. CASE kernel' = Effect
        BY <2>3, <3>1, <4>2, EffectIs, AddedDoors DEF IndInv
      <4> QED
        BY <2>1, <4>1, <4>2
    <3>3. LeaseSpec!DoorsOf({id}) = RulesOf(id)
      BY <3>1 DEF LeaseSpec!DoorsOf
    <3>4. LeaseSpec!Outage
      BY <2>1, <3>1, <3>2, <3>3 DEF LeaseSpec!Outage, OpenDoors
    <3> QED
      BY <3>4 DEF LeaseSpec!Next
  <2> QED
    BY <2>2, <2>3
<1> QED
  BY <1>1, <1>2, <1>3, <1>4, <1>5

(* The daemon with its nft processes, failures, shutdown, crashes and restarts
   implements the promises of Leases. *)
THEOREM FirewallImplementsLeases == OneTypePerPort => (Spec => ImplementsLeases)
<1> SUFFICES ASSUME OneTypePerPort PROVE Spec => ImplementsLeases
  OBVIOUS
<1>1. Init => LeaseSpec!Init
  BY DEF Init, NoLeases, EmptyChain, LeaseSpec!Init, LeaseRules
<1>2. IndInv /\ OpensAccepted /\ [Next]_vars => [LeaseSpec!Next]_(LeaseSpec!vars)
  <2>1. ASSUME UNCHANGED vars PROVE UNCHANGED LeaseSpec!vars
    BY <2>1, Stutters DEF vars
  <2> QED
    BY <2>1, RequestRefines, FinishRefines, OtherRefines DEF Next
<1> QED
  BY <1>1, <1>2, Invariance, OpensAcceptedInvariance, PTL
     DEF Spec, ImplementsLeases, LeaseSpec!Spec
=============================================================================
