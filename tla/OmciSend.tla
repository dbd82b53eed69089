------------------------------ MODULE OmciSend ------------------------------
(***************************************************************************)
(* The requests for managed entities of one ONU, as the Send functions of  *)
(* OmciCC (internal/pkg/common/omci_cc.go) build them for the configuration *)
(* FSMs, and what the ONU (external) does with them.                       *)
(*                                                                         *)
(* Each function takes a transaction id, builds the managed entity, encodes *)
(* and serialises it, and gives the frame to Send with the channel of the  *)
(* FSM for the answer.  Each step may fail; the function then returns an   *)
(* error and nothing is sent.  A request is its action, the class and the  *)
(* instance; of the attributes only those are kept that tell requests for  *)
(* one instance apart ("val").  Transaction ids, retransmission and the    *)
(* matching of answers are in the modules OmciTid and OmciCC.              *)
(***************************************************************************)
EXTENDS FiniteSets

NoReq == [act |-> "none", me |-> "none", id |-> "none", val |-> "none"]

Create(me, id)   == [act |-> "create", me |-> me, id |-> id, val |-> "none"]
Set(me, id, val) == [act |-> "set", me |-> me, id |-> id, val |-> val]
Delete(me, id)   == [act |-> "delete", me |-> me, id |-> id, val |-> "none"]

-----------------------------------------------------------------------------
(* The ANI side: T-CONT, GEM ports, mapper and bridge port.                *)

SendCreateDot1PMapper(id)         == Create("Ieee8021PMapperServiceProfile", id)
SendSetDot1PMapperVar(id, ptrs)   == Set("Ieee8021PMapperServiceProfile", id, ptrs)
SendDeleteDot1PMapper(id)         == Delete("Ieee8021PMapperServiceProfile", id)
SendCreateMBPConfigDataVar(id)    == Create("MacBridgePortConfigurationData", id)
SendDeleteMBPConfigData(id)       == Delete("MacBridgePortConfigurationData", id)
SendSetTcontVar(id, alloc)        == Set("TCont", id, alloc)
SendCreateGemNCTPVar(gem)         == Create("GemPortNetworkCtp", gem)
SendSetGemNCTPVar(gem, td)        == Set("GemPortNetworkCtp", gem, td)
SendDeleteGemNCTP(gem)            == Delete("GemPortNetworkCtp", gem)
SendCreateGemIWTPVar(gem)         == Create("GemInterworkingTerminationPoint", gem)
SendDeleteGemIWTP(gem)            == Delete("GemInterworkingTerminationPoint", gem)
SendCreateMulticastGemIWTPVar(gem) == Create("MulticastGemInterworkingTerminationPoint", gem)
SendSetMulticastGemIWTPVar(gem, table) == Set("MulticastGemInterworkingTerminationPoint", gem, table)
SendSetPrioQueueVar(gem, weight)  == Set("PriorityQueue", gem, weight)
SendDeleteTD(gem)                 == Delete("TrafficDescriptor", gem)
SendCreateTDVar(gem)              == Create("TrafficDescriptor", gem)

-----------------------------------------------------------------------------
(* The VLAN side: filter, tagging operations and multicast subscription.   *)

SendCreateVtfdVar(tp)             == Create("VlanTaggingFilterData", tp)
SendDeleteVtfd(tp)                == Delete("VlanTaggingFilterData", tp)
SendCreateEvtocdVar(uni)          == Create("ExtendedVlanTaggingOperationConfigurationData", uni)
SendSetEvtocdVar(uni, entry)      == Set("ExtendedVlanTaggingOperationConfigurationData", uni, entry)
SendDeleteEvtocd(uni)             == Delete("ExtendedVlanTaggingOperationConfigurationData", uni)
SendCreateMulticastOperationProfileVar(id)    == Create("MulticastOperationsProfile", id)
SendSetMulticastOperationProfileVar(id, acl)  == Set("MulticastOperationsProfile", id, acl)
SendCreateMulticastSubConfigInfoVar(id)       == Create("MulticastSubscriberConfigInfo", id)

-----------------------------------------------------------------------------
(* What the ONU does: mib is the set of [me, id] it has.  An instance that *)
(* exists already, or is unknown to a delete, is reported as such; the     *)
(* FSMs take both for success.                                             *)

Entity(me, id) == [me |-> me, id |-> id]

Applied(mib, r) ==
  CASE r.act = "create" -> mib \cup {Entity(r.me, r.id)}
    [] r.act = "delete" -> mib \ {Entity(r.me, r.id)}
    [] r.act = "set"    -> mib

=============================================================================
