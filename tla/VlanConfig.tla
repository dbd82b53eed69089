----------------------------- MODULE VlanConfig -----------------------------
(***************************************************************************)
(* The flows of one UNI: the goroutine of the device handler that takes    *)
(* one flow at a time (PerOnuFlowHandlerRoutine), SetUniFlowParams and     *)
(* RemoveUniFlowParams, and the FSM UniVlanConfigFsm that turns their      *)
(* rules into VLAN filters and tagging operations of the ONU               *)
(* (internal/pkg/avcfg/omci_vlan_config.go).                               *)
(*                                                                         *)
(* A flow has a cookie and a rule; flows with one rule share it.  "cb" is  *)
(* the place where an enter callback waits, with the lock of the FSM and   *)
(* in some places mutexFlowParams ("Locked").  "pend" are goroutines with  *)
(* an event for the FSM, tagged with whose they are.  The FSM object is    *)
(* made with the first flow and thrown away in its state Disabled; st is   *)
(* "none" without one.                                                     *)
(*                                                                         *)
(* Of the FSMs of the technology profiles (module AniConfig) one at a time *)
(* waits for the end of the removals here ("ani").  "cancel" is how far    *)
(* the procedure for a lost ONU has come in the FSMs of this UNI.          *)
(***************************************************************************)
EXTENDS Integers, Sequences, FiniteSets, SequencesExt, OmciSend

CONSTANTS
  Flows,        \* pairs of cookie and rule
  Rules,        \* rules, as the flows have them
  Tps,          \* technology profiles
  TpOf(_),      \* of a rule: its technology profile,
  MatchOf(_),   \* the VLAN it matches, or "any",
  SetOf(_),     \* the VLAN it sets, "any" for a transparent rule,
  InnerOf(_),   \* and InnerCvlan, "none" for frames with one tag
  Metered,      \* rules with a meter
  McastTps,     \* technology profiles with a multicast GEM port
  Incremental,  \* acceptIncrementalEvtoOption
  MaxRules,     \* cMaxAllowedFlows
  None,
  MaxFlow,      \* bound on flow requests
  MaxTp,        \* bound on configurations and removals of technology profiles
  MaxDisturb,   \* bound on disturbances
  Kinds         \* send error, lost request, refused request, late answer or
                \* signal (timers), failure of the technology profile,
                \* loss of the ONU

ASSUME VlanConfigAssumption ==
  /\ IsFiniteSet(Flows) /\ \A x \in Flows : Len(x) = 2 /\ x[1] # None /\ x[2] \in Rules
  /\ \A r \in Rules : TpOf(r) \in Tps /\ r # None
  /\ Metered \subseteq Rules /\ McastTps \subseteq Tps /\ None \notin Tps
  /\ Incremental \in BOOLEAN /\ MaxRules \in Nat \ {0}
  /\ {MaxFlow, MaxTp, MaxDisturb} \subseteq Nat
  /\ Kinds \subseteq {"sendErr", "lost", "refused", "late", "tpFail", "down"}

VARIABLES
  st,     \* current state of the FSM
  cb,     \* where an enter callback waits
  pend,   \* events on their way to the FSM
  f,      \* members of UniVlanConfigFsm
  wk,     \* the goroutine of a step with several requests
  loop,   \* goroutines processOmciVlanMessages: reading, or offering a result
  ch,     \* CommChan, capacity 2
  sent,   \* requests the ONU has not answered
  mib,    \* the ONU: its managed entities and the rules of its tagging table
  tpd,    \* the technology profiles: not configured, done, to be deleted
  ani,    \* the FSM of a profile that waits for removals of flows
  fl,     \* the flow in the hands of the flow handler
  add,    \* a suspended SetUniFlowParams
  ready,  \* IsReadyForOmciConfig
  cancel, \* resetFsms: where it is
  n,      \* what the bounds count
  hist    \* for the properties, see TypeOK

vars == <<st, cb, pend, f, wk, loop, ch, sent, mib, tpd, ani, fl, add, ready, cancel, n, hist>>

-----------------------------------------------------------------------------
States == {"Disabled", "Preparing", "Starting", "WaitingTechProf", "ConfigVtfd", "ConfigEvtocd",
  "ConfigDone", "ConfigIncrFlow", "IncrFlowWaitTP", "RemoveFlow", "CleanupDone", "Resetting"}

\* The FSM's table, but for the two events of a reconciliation.
Table ==
  [PrepareDone      |-> [s \in {"Preparing"} |-> "Starting"],
   WaitTechProf     |-> [s \in {"Starting"} |-> "WaitingTechProf"],
   CancelOutstandingConfig |-> [s \in {"WaitingTechProf"} |-> "ConfigDone"],
   ContinueConfig   |-> [s \in {"WaitingTechProf"} |-> "ConfigVtfd"],
   StartConfig      |-> [s \in {"Starting"} |-> "ConfigVtfd"],
   RxConfigVtfd     |-> [s \in {"ConfigVtfd"} |-> "ConfigEvtocd"],
   RxConfigEvtocd   |-> [s \in {"ConfigEvtocd", "ConfigIncrFlow"} |-> "ConfigDone"],
   Renew            |-> [s \in {"ConfigDone"} |-> "Starting"],
   WaitTPIncr       |-> [s \in {"ConfigDone"} |-> "IncrFlowWaitTP"],
   IncrFlowConfig   |-> [s \in {"ConfigDone", "IncrFlowWaitTP"} |-> "ConfigIncrFlow"],
   RemFlowConfig    |-> [s \in {"ConfigDone"} |-> "RemoveFlow"],
   RemFlowDone      |-> [s \in {"RemoveFlow"} |-> "CleanupDone"],
   FlowDataRemoved  |-> [s \in {"CleanupDone"} |-> "ConfigDone"],
   Reset            |-> [s \in {"Starting", "WaitingTechProf", "ConfigVtfd", "ConfigEvtocd", "ConfigDone",
                                "ConfigIncrFlow", "RemoveFlow", "CleanupDone", "Preparing"} |-> "Resetting"],
   Restart          |-> [s \in {"Resetting"} |-> "Disabled"]]

Events == DOMAIN Table
Post(ev, by) == [ev |-> ev, by |-> by]
NoWork == [at |-> "none", todo |-> <<>>, ev |-> "Reset"]
NoFlow == [op |-> "none", c |-> None, r |-> None, at |-> "none"]
NoAdd == [at |-> "none", c |-> None, r |-> None, ptr |-> 0, own |-> FALSE]
NoAni == [at |-> "no", tp |-> None]
EmptyMib == [me |-> {}, tab |-> {}]
Answer(r, ok) == [abort |-> FALSE, req |-> r, ok |-> ok]
Abort == [abort |-> TRUE, req |-> NoReq, ok |-> FALSE]
Waiting == {"WaitingTechProf", "IncrFlowWaitTP"}

\* initUniFlowParams and SetUniFlowParams: what a transparent rule matches does
\* not matter, nor what any rule matches without the incremental option.
Params(r) == [tp |-> TpOf(r), set |-> SetOf(r), inner |-> InnerOf(r),
              match |-> IF SetOf(r) = "any" \/ ~Incremental THEN "any" ELSE MatchOf(r)]
Normal(r) == CHOOSE x \in Rules : Params(x) = Params(r)

\* The members of a new FSM; clean are variables of enterVlanCleanupDone.
NoClean == [c |-> None, resp |-> FALSE]
NewFsm(c, r) ==
  [rules |-> <<[rule |-> r, cookies |-> <<c>>, resp |-> TRUE]>>, removes |-> <<>>, configured |-> 0,
   filter |-> <<>>, actual |-> [rule |-> r, resp |-> FALSE], waitTp |-> None, delay |-> None,
   signal |-> FALSE, canceled |-> FALSE, awaiting |-> FALSE, last |-> NoReq,
   clean |-> NoClean]

NoFsm == [NewFsm(None, None) EXCEPT !.rules = <<>>]

TypeOK ==
  /\ st \in States \cup {"none"}
  /\ cb \in {"none", "vtfd", "remvtfd", "remchan", "cookie", "flowdel", "self", "panic"}
  /\ pend \subseteq [ev : Events, by : {"go", "loop", "wk", "add", "rem", "tp", "flow", "ani", "down"}]
  /\ \A k \in DOMAIN f.rules : f.rules[k].rule \in Rules /\ f.rules[k].cookies # <<>>
  /\ Len(f.rules) <= MaxRules /\ f.configured \in 0 .. Len(f.rules)
  /\ \A k \in DOMAIN f.removes : f.removes[k].rule \in Rules
  /\ wk.at \in {"none", "send", "wait", "reset"}
  /\ loop \in [read : 0 .. 1, offer : 0 .. 1]
  /\ Len(ch) <= 2 /\ Len(sent) <= 2
  /\ mib.tab \subseteq Rules /\ tpd \in [Tps -> {"no", "done", "del"}]
  /\ ani \in [at : {"no", "wait", "due", "ask", "gem"}, tp : Tps \cup {None}]
  /\ cancel \in {"no", "tp", "await", "send"}
  /\ fl.at \in {"none", "wait", "ok", "err", "giveup"} /\ fl.op \in {"none", "add", "remove"}
  /\ add.at \in {"none", "rule", "eval", "cookie", "revise"}
  /\ ready \in BOOLEAN
  /\ n \in [flow : 0 .. MaxFlow, tp : 0 .. MaxTp, disturb : 0 .. MaxDisturb]
  \* the cookies that rw-core takes for installed; a Reset was not taken
  /\ hist.want \subseteq {x[1] : x \in Flows} /\ hist.ignored \in BOOLEAN

Init ==
  /\ st = "none" /\ cb = "none" /\ pend = {} /\ f = NoFsm /\ wk = NoWork
  /\ loop = [read |-> 0, offer |-> 0] /\ ch = <<>> /\ sent = <<>> /\ mib = EmptyMib
  /\ tpd = [t \in Tps |-> "no"] /\ ani = NoAni /\ fl = NoFlow /\ add = NoAdd
  /\ ready = TRUE /\ cancel = "no"
  /\ n = [flow |-> 0, tp |-> 0, disturb |-> 0]
  /\ hist = [want |-> {}, ignored |-> FALSE]

Disturb(k) == k \in Kinds /\ n.disturb < MaxDisturb /\ n' = [n EXCEPT !.disturb = @ + 1]

\* The callback holds mutexFlowParams while it waits.
Locked == cb \in {"vtfd", "cookie", "flowdel"}

-----------------------------------------------------------------------------
(* The response channel of the flow in progress; a response that nobody    *)
(* waits for is dropped (pushReponseOnFlowResponseChannel).                *)

\* The flow has ended: the channels the FSM has kept are without a reader.
Stale(g) ==
  [g EXCEPT !.rules = [k \in DOMAIN @ |-> [@[k] EXCEPT !.resp = FALSE]],
            !.removes = [k \in DOMAIN @ |-> [@[k] EXCEPT !.resp = FALSE]],
            !.actual.resp = FALSE, !.clean.resp = FALSE]

\* Response r, "none" for none, from a step that leaves the members g.
Respond(r, g) ==
  IF r # "none" /\ fl.at = "wait"
  THEN /\ fl' = [fl EXCEPT !.at = r] /\ f' = Stale(g)
       /\ hist' = IF r = "ok" /\ fl.op = "remove" THEN [hist EXCEPT !.want = @ \ {fl.c}] ELSE hist
  ELSE fl' = fl /\ f' = g /\ UNCHANGED hist

-----------------------------------------------------------------------------
(* The enter callbacks: what each sends, changes and starts.               *)

Keep == [cb |-> "none", post |-> {}, f |-> f, wk |-> wk, ch |-> ch, sent |-> sent,
         resp |-> "none", abortAdd |-> FALSE]

Done(tp) == tpd[tp] = "done"
Vtfd == "VlanTaggingFilterData"

\* A request that is sent.
Ask(e, r) == [e EXCEPT !.f.last = r, !.sent = Append(@, r)]

\* The wait inside a callback; not begun once the FSM is cancelled.
AwaitIn(e, place) ==
  IF f.canceled THEN [e EXCEPT !.post = {"Reset"}] ELSE [e EXCEPT !.cb = place, !.f.awaiting = TRUE]

\* enterConfigStarting
EnterStarting ==
  IF f.rules = <<>> THEN [Keep EXCEPT !.post = {"Reset"}]
  ELSE LET x == Head(f.rules)
           tp == TpOf(x.rule)
       IN [Keep EXCEPT !.f.actual = [rule |-> x.rule, resp |-> x.resp], !.f.waitTp = tp,
                       !.post = {IF Done(tp) THEN "StartConfig" ELSE "WaitTechProf"}]

\* enterConfigVtfd
EnterConfigVtfd(err) ==
  LET r == f.actual.rule
      e == [Keep EXCEPT !.f.waitTp = None]
  IN IF SetOf(r) = "any" THEN [e EXCEPT !.post = {"RxConfigVtfd"}]
     ELSE IF err THEN [e EXCEPT !.f.filter = <<SetOf(r)>>, !.post = {"Reset"}]
     ELSE Ask([e EXCEPT !.f.filter = <<SetOf(r)>>], SendCreateVtfdVar(TpOf(r)))

Entry(r, on) == [rule |-> r, on |-> on]
Item(part, req) == [part |-> part, req |-> req]
Items(part, reqs) == [k \in DOMAIN reqs |-> Item(part, reqs[k])]
Evtocd == "evtocd"

\* performConfigEvtocdEntries: the entity with the first rule, then the entry of
\* the rule, which is for every frame, for the frames with its VLAN (and inner
\* VLAN) or, without the incremental option, for untagged and for
\* priority-tagged frames.
SetEntry(r, on) == SendSetEvtocdVar(Evtocd, Entry(r, on))
CreateEvtocd == <<SendCreateEvtocdVar(Evtocd), SetEntry(None, TRUE)>>
TransparentEntry(r) == <<SetEntry(r, TRUE)>>
TranslationEntry(r) == <<SetEntry(r, TRUE)>>
StackingEntries(r) == <<SetEntry(None, TRUE), SetEntry(r, TRUE)>>
ConfigEvtocdEntries(r, first) ==
  (IF first THEN CreateEvtocd ELSE <<>>)
  \o (IF SetOf(r) = "any" /\ InnerOf(r) = "none" THEN TransparentEntry(r)
      ELSE IF Incremental THEN TranslationEntry(r) ELSE StackingEntries(r))

\* performSettingMulticastME with the functions it calls.
CreatingMulticastOperationProfile == <<SendCreateMulticastOperationProfileVar("uni")>>
SettingMulticastOperationProfile == <<SendSetMulticastOperationProfileVar("uni", "acl")>>
CreatingMulticastSubscriberConfigInfo == <<SendCreateMulticastSubConfigInfoVar("uni")>>
SettingMulticastME ==
  CreatingMulticastOperationProfile \o SettingMulticastOperationProfile
  \o CreatingMulticastSubscriberConfigInfo
  \o <<SendCreateMBPConfigDataVar("mcast"), SendCreateVtfdVar("mcast")>>

\* createTrafficDescriptor for the one GEM port, and its use.
SetTrafficDescriptorToGemPortNWCTP(tp) == <<SendSetGemNCTPVar(tp, "td")>>
TrafficDescriptor(tp) == <<SendCreateTDVar(tp)>> \o SetTrafficDescriptorToGemPortNWCTP(tp)

\* enterConfigEvtocd and the goroutine of enterConfigIncrFlow
ConfigWork(r, first) ==
  [at |-> "send", ev |-> "RxConfigEvtocd",
   todo |-> Items("rule", ConfigEvtocdEntries(r, first))
            \o (IF TpOf(r) \in McastTps THEN Items("mcast", SettingMulticastME) ELSE <<>>)
            \o (IF r \in Metered THEN Items("td", TrafficDescriptor(TpOf(r))) ELSE <<>>)]

EnterConfigEvtocd == [Keep EXCEPT !.wk = ConfigWork(f.actual.rule, TRUE)]

\* The next rule, with the event for it.
NextRule(e, g) ==
  LET x == g.rules[g.configured + 1]
      tp == TpOf(x.rule)
  IN [e EXCEPT !.f = [g EXCEPT !.actual = [rule |-> x.rule, resp |-> x.resp], !.waitTp = tp],
               !.post = {IF Done(tp) THEN "IncrFlowConfig" ELSE "WaitTPIncr"}]

\* enterVlanConfigDone: the response, then removals before additions.
EnterConfigDone ==
  LET e == [Keep EXCEPT !.resp = IF f.rules # <<>> /\ f.actual.resp THEN "ok" ELSE "none"]
  IN CASE f.removes # <<>> -> [e EXCEPT !.post = {"RemFlowConfig"}]
       [] f.removes = <<>> /\ Len(f.rules) > f.configured /\ f.configured = 0 ->
            [e EXCEPT !.post = {"Renew"}]
       [] f.removes = <<>> /\ Len(f.rules) > f.configured /\ f.configured > 0 -> NextRule(e, f)
       [] OTHER -> e

\* enterConfigIncrFlow: the filter is awaited in the callback; on a failure to
\* send, with a filter configured before, the event Reset is fired in the
\* callback, whose lock the goroutine itself holds.
EnterConfigIncrFlow(err) ==
  LET r == f.actual.rule
      e == [Keep EXCEPT !.f.waitTp = None]
      g == [e EXCEPT !.f.filter = Append(@, SetOf(r))]
  IN IF SetOf(r) = "any" THEN [e EXCEPT !.wk = ConfigWork(r, f.configured = 0)]
     ELSE IF err THEN (IF f.filter = <<>> THEN [g EXCEPT !.post = {"Reset"}] ELSE [g EXCEPT !.cb = "self"])
     ELSE AwaitIn(Ask(g, SendCreateVtfdVar(TpOf(r))), "vtfd")

\* removeEvtocdEntries: the default treatment instead of a transparent rule,
\* whatever its inner VLAN, the end of the entry, or the end of the entity with
\* the only rule.
RemoveTransparent(r) == <<SetEntry(r, FALSE)>>

\* Mutant: the entry is written, not taken out.
RemoveTranslationKept(r) == <<SetEntry(r, TRUE)>>

RemoveTranslation(r) == <<SetEntry(r, FALSE)>>
RemoveStacking(r) ==
  IF f.configured = 1 THEN <<SendDeleteEvtocd(Evtocd)>> ELSE <<SetEntry(None, TRUE), SetEntry(r, FALSE)>>
RemoveEvtocdEntries(r) ==
  IF SetOf(r) = "any" THEN RemoveTransparent(r)
  ELSE IF Incremental THEN RemoveTranslation(r) ELSE RemoveStacking(r)

RemoveWork(r) == [at |-> "send", ev |-> "RemFlowDone", todo |-> Items("remove", RemoveEvtocdEntries(r))]

\* The VLAN leaves the filter list, wherever it is if it is the only one.
Dropped(list, vid) ==
  IF Len(list) = 1 THEN <<>>
  ELSE LET k == SelectInSeq(list, LAMBDA v : v = vid) IN IF k = 0 THEN list ELSE RemoveAt(list, k)

\* enterRemoveFlow: a filter is deleted and its answer awaited in the callback;
\* on a failure to send the goroutine waits for its own lock.  An ONU that is
\* not ready is left alone.
EnterRemoveFlow(err) ==
  LET r == Head(f.removes).rule
      vtfd == SetOf(r) # "any" /\ (Len(f.filter) = 1 \/ \E k \in DOMAIN f.filter : f.filter[k] = SetOf(r))
  IN IF f.removes = <<>> THEN [Keep EXCEPT !.cb = "panic"]
     ELSE IF ~ready THEN [Keep EXCEPT !.f.filter = IF vtfd THEN Dropped(@, SetOf(r)) ELSE @,
                                      !.post = {"RemFlowDone"}]
     ELSE IF ~vtfd THEN [Keep EXCEPT !.wk = RemoveWork(r)]
     ELSE IF err THEN [Keep EXCEPT !.cb = "self"]
     ELSE AwaitIn(Ask(Keep, SendDeleteVtfd(TpOf(r))), "remvtfd")

\* removeFlowFromParamsSlice, for a rule that has the cookie.
HasCookie(g, c) == \E k \in DOMAIN g.rules : \E i \in DOMAIN g.rules[k].cookies : g.rules[k].cookies[i] = c
RuleOf(g, c) == CHOOSE k \in DOMAIN g.rules :
                  /\ \E i \in DOMAIN g.rules[k].cookies : g.rules[k].cookies[i] = c
                  /\ \A j \in 1 .. k - 1 : \A i \in DOMAIN g.rules[j].cookies : g.rules[j].cookies[i] # c

\* Mutant: a configured rule is removed and still counted.
RemoveFromSliceUncounted(g, c, configured) ==
  IF Len(g.rules) <= 1 THEN [g EXCEPT !.rules = <<>>, !.configured = 0]
  ELSE [g EXCEPT !.rules = RemoveAt(@, RuleOf(g, c))]

RemoveFromSlice(g, c, configured) ==
  IF Len(g.rules) <= 1 THEN [g EXCEPT !.rules = <<>>, !.configured = 0]
  ELSE [g EXCEPT !.rules = RemoveAt(@, RuleOf(g, c)),
                 !.configured = IF configured /\ @ > 0 THEN @ - 1 ELSE @]

\* enterVlanCleanupDone has three places to wait: for a suspended addition of
\* the rule, for one that waits for the cookie, and for the ANI FSM that waits
\* for the end of all removals.
CleanupEnd(e) ==
  [e EXCEPT !.cb = "none", !.f.clean = NoClean, !.resp = IF e.f.clean.resp THEN "ok" ELSE "none"]
CleanupSignal(e) ==
  IF e.f.signal /\ e.f.removes = <<>> THEN [e EXCEPT !.cb = "flowdel"] ELSE CleanupEnd(e)
CleanupCookie(e) == IF e.f.clean.c = e.f.delay THEN [e EXCEPT !.cb = "cookie"] ELSE CleanupSignal(e)
CleanupRule(e) ==
  CleanupCookie([e EXCEPT !.f.clean.resp = Head(e.f.removes).resp, !.f.removes = Tail(@),
                          !.post = @ \cup {"FlowDataRemoved"}])

EnterCleanupDone ==
  LET x == Head(f.removes)
      e == [Keep EXCEPT !.f = [RemoveFromSlice(f, x.c, TRUE) EXCEPT !.clean = [c |-> x.c, resp |-> FALSE]]]
  IN IF ~HasCookie(f, x.c) THEN [Keep EXCEPT !.post = {"Reset"}]
     ELSE IF x.susp THEN [e EXCEPT !.cb = "remchan"]
     ELSE CleanupRule(e)

\* What those get that wait for a response.
ResetAnswer ==
  IF \E k \in DOMAIN f.removes : f.removes[k].resp THEN (IF f.canceled THEN "ok" ELSE "err")
  ELSE IF \E k \in DOMAIN f.rules : f.rules[k].resp THEN "err" ELSE "none"

\* Mutant: the goroutine that goes on to Disabled is forgotten.
EnterResettingNoRestart ==
  [Keep EXCEPT !.f.last = NoReq, !.ch = Append(@, Abort), !.resp = ResetAnswer, !.abortAdd = TRUE]

\* enterResetting: the loop is ended, suspended additions are aborted if they
\* wait just then, and all that wait for a response get one.
EnterResetting ==
  [Keep EXCEPT !.f.last = NoReq, !.ch = Append(@, Abort), !.resp = ResetAnswer, !.abortAdd = TRUE,
               !.post = {"Restart"}]

Enter(d, err) ==
  CASE d = "Starting"       -> EnterStarting
    [] d = "ConfigVtfd"     -> EnterConfigVtfd(err)
    [] d = "ConfigEvtocd"   -> EnterConfigEvtocd
    [] d = "ConfigDone"     -> EnterConfigDone
    [] d = "ConfigIncrFlow" -> EnterConfigIncrFlow(err)
    [] d = "RemoveFlow"     -> EnterRemoveFlow(err)
    [] d = "CleanupDone"    -> EnterCleanupDone
    [] d = "Resetting"      -> EnterResetting
    [] d \in {"WaitingTechProf", "IncrFlowWaitTP", "Disabled"} -> Keep

-----------------------------------------------------------------------------
(* The FSM takes an event, or rejects it.                                  *)

\* CancelProcessing of the FSM of a technology profile: it no longer waits.  The
\* Reset it has for this FSM finds it in Resetting.
CancelTechProfile(tp) ==
  /\ tpd' = [tpd EXCEPT ![tp] = "no"]
  /\ ani' = IF ani.tp = tp /\ ani.at \in {"wait", "due"} THEN NoAni ELSE ani

\* The aborted addition: its flow gets an error.
AbortedAdd(e) == e.abortAdd /\ add.at \in {"rule", "cookie"}

\* What the goroutine of the event does next.
Fire ==
  \E p \in pend, err \in BOOLEAN :
    LET taken == st \in DOMAIN Table[p.ev]
        d == IF taken THEN Table[p.ev][st] ELSE st
        e == IF taken THEN Enter(d, err) ELSE Keep
        own == ~taken /\ p.by = "add" /\ p.ev # "Renew"
        resp == IF own \/ (AbortedAdd(e) /\ add.own) THEN "err" ELSE e.resp
        g == IF AbortedAdd(e) /\ add.at = "cookie" THEN [e.f EXCEPT !.delay = None] ELSE e.f
    IN /\ cb = "none"
       /\ IF err THEN taken /\ ready /\ d \in {"ConfigVtfd", "ConfigIncrFlow", "RemoveFlow"}
                      /\ Disturb("sendErr")
                 ELSE UNCHANGED n
       /\ st' = d /\ cb' = e.cb /\ ch' = e.ch /\ sent' = e.sent
       /\ pend' = (pend \ {p}) \cup {Post(x, "go") : x \in e.post}
       /\ loop' = [loop EXCEPT !.read = @ + (IF p.by = "loop" THEN 1 ELSE 0)]
       /\ wk' = IF p.by = "wk" /\ wk.at = "reset" THEN [wk EXCEPT !.at = "send"] ELSE e.wk
       /\ add' = IF AbortedAdd(e) THEN NoAdd ELSE add
       /\ IF p.by = "flow"
          THEN /\ fl' = NoFlow /\ f' = Stale(g) /\ CancelTechProfile(TpOf(fl.r))
               /\ hist' = [hist EXCEPT !.ignored = @ \/ st = "IncrFlowWaitTP"]
          ELSE /\ UNCHANGED <<tpd, ani>>
               /\ IF ~taken /\ p.ev = "Reset" /\ st = "IncrFlowWaitTP"
                  THEN hist' = [hist EXCEPT !.ignored = TRUE] /\ UNCHANGED fl /\ f' = g
                  ELSE Respond(resp, g)
       /\ UNCHANGED <<mib, ready, cancel>>

\* RemoveVlanFilterFsm, from enterDisabled: it waits for a suspended addition,
\* which holds lockVlanConfig.  Goroutines of the old FSM that still wait
\* will find it disabled; CancelProcessing finds them.
RemoveVlanFilterFsm ==
  /\ st = "Disabled" /\ add.at = "none" /\ wk.at \notin {"send", "reset"}
  /\ \A p \in pend : p.by \notin {"add", "rem", "flow", "ani", "down"}
  /\ st' = "none" /\ f' = NoFsm /\ wk' = NoWork /\ pend' = {} /\ cb' = "none"
  /\ loop' = [read |-> 0, offer |-> 0] /\ ch' = <<>>
  /\ cancel' = IF cancel = "send" /\ wk.at = "wait" THEN "no" ELSE cancel
  /\ UNCHANGED <<sent, mib, tpd, ani, fl, add, ready, n, hist>>

\* The rest of enterVlanCleanupDone after a wait.
Resume(e) ==
  /\ cb' = e.cb /\ Respond(e.resp, e.f)
  /\ pend' = pend \cup {Post(x, "go") : x \in e.post}
  /\ UNCHANGED <<st, wk, loop, ch, sent, mib, ready, cancel, n>>

RuleSignalled ==
  /\ cb = "remchan" /\ add.at = "rule" /\ add' = [add EXCEPT !.at = "eval"]
  /\ Resume(CleanupRule(Keep)) /\ UNCHANGED <<tpd, ani>>

CookieSignalled ==
  /\ cb = "cookie" /\ add.at = "cookie" /\ add' = [add EXCEPT !.at = "revise"]
  /\ Resume(CleanupSignal(Keep)) /\ UNCHANGED <<tpd, ani>>

-----------------------------------------------------------------------------
(* waitforOmciResponse: of the worker, or in a callback.                   *)

\* The worker's step failed: Reset, and with a part of its own (multicast,
\* traffic descriptor) it goes on with the next part.
Rest(part) == SelectSeq(wk.todo, LAMBDA i : i.part # part)
Failed ==
  LET part == Head(wk.todo).part
  IN wk' = IF part \in {"rule", "remove"} THEN NoWork
           ELSE [wk EXCEPT !.at = "reset", !.todo = Rest(part)]

\* The next request.  An error of the traffic descriptor's send is lost: the
\* function returns another, nil variable.
WorkerSends ==
  /\ wk.at = "send" /\ wk.todo # <<>>
  /\ LET x == Head(wk.todo)
     IN \/ /\ sent' = Append(sent, x.req) /\ UNCHANGED n
           /\ f' = [f EXCEPT !.last = x.req, !.awaiting = ~f.canceled]
           /\ IF f.canceled THEN Failed /\ pend' = pend \cup {Post("Reset", "wk")}
                            ELSE wk' = [wk EXCEPT !.at = "wait"] /\ UNCHANGED pend
        \/ /\ Disturb("sendErr") /\ UNCHANGED <<f, sent>>
           /\ IF x.req.me = "TrafficDescriptor"
              THEN wk' = [wk EXCEPT !.todo = Rest("td")] /\ UNCHANGED pend
              ELSE Failed /\ pend' = pend \cup {Post("Reset", "wk")}
  /\ UNCHANGED <<st, cb, loop, ch, mib, tpd, ani, fl, add, ready, cancel, hist>>

\* The last answer for the rule counts it.
WorkerReceives ==
  /\ wk.at = "wait" /\ loop.offer > 0
  /\ loop' = [loop EXCEPT !.offer = @ - 1, !.read = @ + 1]
  /\ wk' = [wk EXCEPT !.at = "send", !.todo = Tail(@)]
  /\ LET last == /\ Head(wk.todo).part = "rule"
                 /\ \A k \in 2 .. Len(wk.todo) : wk.todo[k].part # "rule"
     IN f' = [f EXCEPT !.awaiting = FALSE, !.configured = IF last THEN @ + 1 ELSE @]
  /\ UNCHANGED <<st, cb, pend, ch, sent, mib, tpd, ani, fl, add, ready, cancel, n, hist>>

WorkerDone ==
  /\ wk.at = "send" /\ wk.todo = <<>>
  /\ wk' = NoWork /\ pend' = pend \cup {Post(wk.ev, "wk")}
  /\ UNCHANGED <<st, cb, f, loop, ch, sent, mib, tpd, ani, fl, add, ready, cancel, n, hist>>

\* No answer is on its way to the waiting goroutine.
NoAnswer == /\ sent = <<>> /\ loop.offer = 0 /\ (ch = <<>> \/ loop.read = 0)
            /\ \A p \in pend : p.by # "loop"

\* Mutant: after the timer nothing moves the FSM on.
WorkerTimerQuiet ==
  /\ wk.at = "wait" /\ (IF NoAnswer THEN UNCHANGED n ELSE Disturb("late"))
  /\ Failed /\ f' = [f EXCEPT !.awaiting = FALSE]
  /\ UNCHANGED <<st, cb, pend, loop, ch, sent, mib, tpd, ani, fl, add, ready, cancel, hist>>

WorkerTimer ==
  /\ wk.at = "wait" /\ (IF NoAnswer THEN UNCHANGED n ELSE Disturb("late"))
  /\ Failed /\ pend' = pend \cup {Post("Reset", "wk")} /\ f' = [f EXCEPT !.awaiting = FALSE]
  /\ UNCHANGED <<st, cb, loop, ch, sent, mib, tpd, ani, fl, add, ready, cancel, hist>>

\* The filter is there, or gone: the tagging entries follow.
CallbackReceives ==
  /\ cb \in {"vtfd", "remvtfd"} /\ loop.offer > 0
  /\ loop' = [loop EXCEPT !.offer = @ - 1, !.read = @ + 1] /\ cb' = "none"
  /\ LET r == IF cb = "vtfd" THEN f.actual.rule ELSE Head(f.removes).rule
     IN /\ wk' = IF cb = "vtfd" THEN ConfigWork(r, f.configured = 0) ELSE RemoveWork(r)
        /\ f' = [f EXCEPT !.awaiting = FALSE,
                          !.filter = IF cb = "vtfd" THEN @ ELSE Dropped(@, SetOf(r))]
  /\ UNCHANGED <<st, pend, ch, sent, mib, tpd, ani, fl, add, ready, cancel, n, hist>>

CallbackTimer ==
  /\ cb \in {"vtfd", "remvtfd"} /\ (IF NoAnswer THEN UNCHANGED n ELSE Disturb("late"))
  /\ cb' = "none" /\ f' = [f EXCEPT !.awaiting = FALSE] /\ pend' = pend \cup {Post("Reset", "go")}
  /\ UNCHANGED <<st, wk, loop, ch, sent, mib, tpd, ani, fl, add, ready, cancel, hist>>

-----------------------------------------------------------------------------
(* The message loop, processOmciVlanMessages.                              *)

ForLast(a) == f.last.act # "none" /\ a.me = f.last.me /\ a.id = f.last.id
Take == loop.read > 0 /\ ch # <<>> /\ ch' = Tail(ch)

LoopEnds ==
  /\ Take /\ Head(ch).abort
  /\ loop' = [loop EXCEPT !.read = @ - 1]
  /\ UNCHANGED <<st, cb, pend, f, wk, sent, mib, tpd, ani, fl, add, ready, cancel, n, hist>>

\* handleOmciVlanConfigMessage: a create in ConfigVtfd is an event, all else is
\* offered to the waiting goroutine.  A refusal or an answer for another
\* request is ignored.
Offered(a) ==
  IF a.act = "create" /\ st = "ConfigVtfd"
  THEN loop' = [loop EXCEPT !.read = @ - 1] /\ pend' = pend \cup {Post("RxConfigVtfd", "loop")}
  ELSE loop' = [loop EXCEPT !.read = @ - 1, !.offer = @ + 1] /\ UNCHANGED pend

\* Mutant: the result of a set is not looked at.
HandleAnswerBlind ==
  /\ Take /\ ~Head(ch).abort
  /\ LET a == Head(ch)
     IN IF (a.ok \/ a.req.act = "set") /\ ForLast(a.req) THEN Offered(a.req) ELSE UNCHANGED <<loop, pend>>
  /\ UNCHANGED <<st, cb, f, wk, sent, mib, tpd, ani, fl, add, ready, cancel, n, hist>>

HandleAnswer ==
  /\ Take /\ ~Head(ch).abort
  /\ LET a == Head(ch)
     IN IF a.ok /\ ForLast(a.req) THEN Offered(a.req) ELSE UNCHANGED <<loop, pend>>
  /\ UNCHANGED <<st, cb, f, wk, sent, mib, tpd, ani, fl, add, ready, cancel, n, hist>>

-----------------------------------------------------------------------------
(* The ONU and the OMCI channel (external).                                *)

\* The filter part of the entry that a request for rule r writes, or deletes: the
\* outer and the inner VLAN.  For frames with two tags the removal ignores the
\* inner tag and the priority of the outer one, which the entry tests.
Filter(r, on) ==
  IF SetOf(r) = "any" /\ (InnerOf(r) = "none" \/ ~on) THEN <<"any", "default">>
  ELSE IF ~Incremental THEN <<"any", "untagged">>
  ELSE IF InnerOf(r) = "none" THEN <<"any", Params(r).match>>
  ELSE <<Params(r).match, IF on THEN InnerOf(r) ELSE "ignored">>
Key(r) == Filter(r, TRUE)

\* Entries with one filter part replace each other.
Tagging(r) ==
  IF r.me # "ExtendedVlanTaggingOperationConfigurationData" \/ r.act = "create" THEN mib.tab
  ELSE IF r.act = "delete" THEN {}
  ELSE LET x == r.val.rule
           others == {y \in mib.tab : x # None => Key(y) # Filter(x, r.val.on)}
       IN IF x # None /\ r.val.on THEN others \cup {x} ELSE others

\* A set needs the entity.
Known(r) == r.act = "set" /\ r.me = "ExtendedVlanTaggingOperationConfigurationData"
              => Entity(r.me, r.id) \in mib.me

\* An answer that no loop will read is lost with the FSM; an answer takes
\* longer than a goroutine needs to come to its select or fire its event.
OnuAnswers ==
  /\ sent # <<>> /\ ready /\ (Len(ch) < 2 \/ st = "none") /\ (pend = {} \/ cb # "none")
  /\ LET r == Head(sent)
     IN \/ /\ Known(r) /\ UNCHANGED n
           /\ mib' = [me |-> Applied(mib.me, r), tab |-> Tagging(r)]
           /\ ch' = IF st = "none" THEN ch ELSE Append(ch, Answer(r, TRUE))
        \/ /\ IF Known(r) THEN Disturb("refused") ELSE UNCHANGED n
           /\ UNCHANGED mib /\ ch' = IF st = "none" THEN ch ELSE Append(ch, Answer(r, FALSE))
  /\ sent' = Tail(sent)
  /\ UNCHANGED <<st, cb, pend, f, wk, loop, tpd, ani, fl, add, ready, cancel, hist>>

RequestLost ==
  /\ sent # <<>> /\ sent' = Tail(sent)
  /\ IF ~ready \/ st \in {"Disabled", "none"} THEN UNCHANGED n ELSE Disturb("lost")
  /\ UNCHANGED <<st, cb, pend, f, wk, loop, ch, mib, tpd, ani, fl, add, ready, cancel, hist>>

-----------------------------------------------------------------------------
(* SetUniFlowParams.                                                       *)

Outcome(g, ev, ans, wait) == [f |-> g, ev |-> ev, ans |-> ans, wait |-> wait]
RuleAt(g, r) == SelectInSeq(g.rules, LAMBDA x : x.rule = r)

\* The end of SetUniFlowParams: a new rule is appended, and the FSM is started
\* if it rests in ConfigDone; otherwise it finds the rule when it comes there.
AppendRule(g, c, r, own) ==
  LET x == [rule |-> r, cookies |-> <<c>>, resp |-> own]
      h == [g EXCEPT !.rules = Append(@, x)]
      e == NextRule(Keep, h)
  IN CASE st \in {"Resetting", "Disabled"} \/ Len(g.rules) >= MaxRules -> Outcome(g, "none", "err", FALSE)
       [] st = "ConfigDone" /\ Len(g.rules) < MaxRules /\ g.configured = 0 -> Outcome(h, "Renew", "none", FALSE)
       [] st = "ConfigDone" /\ Len(g.rules) < MaxRules /\ g.configured > 0 ->
            Outcome(e.f, CHOOSE v \in e.post : TRUE, "none", FALSE)
       [] OTHER -> Outcome(h, "none", "none", FALSE)

AddCookie(g, k, c) == [g EXCEPT !.rules[k].cookies = Append(@, c)]
Cookies(g, k) == ToSet(g.rules[k].cookies)

\* A cookie in use has first to be removed from the other rule
\* (delayNewRuleForCookie).
SetRule(g, c, r, own) ==
  LET k == RuleAt(g, r)
  IN IF k > 0 /\ c \in Cookies(g, k) THEN Outcome(g, "none", "ok", FALSE)
     ELSE IF g.delay = None /\ HasCookie(g, c) THEN Outcome([g EXCEPT !.delay = c], "none", "none", TRUE)
     ELSE IF k > 0 THEN Outcome(AddCookie(g, k, c), "none", "ok", FALSE)
     ELSE AppendRule(g, c, r, own)

\* reviseFlowConstellation after the suspension
Revise(g, c, r, own) ==
  LET k == RuleAt(g, r)
  IN IF k = 0 THEN AppendRule(g, c, r, own)
     ELSE Outcome(IF c \in Cookies(g, k) THEN g ELSE AddCookie(g, k, c), "none", "ok", FALSE)

\* The suspension for the cookie, or the end.
Follow(o, c, r, own) ==
  /\ add' = IF o.wait THEN [at |-> "cookie", c |-> c, r |-> r, ptr |-> 0, own |-> own] ELSE NoAdd
  /\ pend' = IF o.ev = "none" THEN pend ELSE pend \cup {Post(o.ev, "add")}

\* lockVlanConfig is free for a reader, and mutexFlowParams.
MayRead == ~Locked /\ \A p \in pend : p.by # "ani"

NewFlow ==
  /\ fl.at = "none" /\ n.flow < MaxFlow /\ n' = [n EXCEPT !.flow = @ + 1]

\* The answer of a call that gives it at once.
Immediate(op, c, r, ans, g) ==
  /\ fl' = [op |-> op, c |-> c, r |-> r, at |-> IF ans = "none" THEN "wait" ELSE ans]
  /\ f' = IF ans = "none" THEN g ELSE Stale(g)
  /\ hist' = [hist EXCEPT !.want = CASE op = "add" -> @ \cup {c}
                                     [] op = "remove" /\ ans = "ok" -> @ \ {c}
                                     [] OTHER -> @]

\* addFlowItemToUniPort with createVlanFilterFsm, enterPreparing; another
\* addition that is suspended has lockVlanAdd.
AddFlow(c, r0) ==
  LET r == Normal(r0)
      k == SelectInSeq(f.removes, LAMBDA x : x.rule = r)
      o == SetRule(f, c, r, TRUE)
  IN /\ NewFlow /\ ready /\ add.at = "none" /\ \A p \in pend : p.by # "add"
     /\ IF st = "none"
        THEN /\ sent = <<>> /\ st' = "Preparing" /\ pend' = {Post("PrepareDone", "go")}
             /\ loop' = [read |-> 1, offer |-> 0]
             /\ Immediate("add", c, r, "none", NewFsm(c, r)) /\ UNCHANGED add
        ELSE /\ MayRead /\ UNCHANGED <<st, loop>>
             /\ IF k > 0
                THEN /\ Immediate("add", c, r, "none", [f EXCEPT !.removes[k].susp = TRUE])
                     /\ add' = [at |-> "rule", c |-> c, r |-> r, ptr |-> k, own |-> TRUE] /\ UNCHANGED pend
                ELSE Follow(o, c, r, TRUE) /\ Immediate("add", c, r, o.ans, o.f)
     /\ UNCHANGED <<cb, wk, ch, sent, mib, tpd, ani, ready, cancel>>

\* The suspended addition goes on.
AddResumes ==
  /\ add.at \in {"eval", "revise"} /\ ~Locked
  /\ LET o == IF add.at = "eval" THEN SetRule(f, add.c, add.r, add.own)
              ELSE Revise([f EXCEPT !.delay = None], add.c, add.r, add.own)
     IN Follow(o, add.c, add.r, add.own) /\ Respond(IF add.own THEN o.ans ELSE "none", o.f)
  /\ UNCHANGED <<st, cb, wk, loop, ch, sent, mib, tpd, ani, ready, cancel, n>>

\* Nothing more comes from the FSM, nor from an ANI FSM that waits for it.
Silent ==
  /\ pend = {} /\ sent = <<>> /\ wk.at = "none" /\ cb \in {"none", "self", "remchan", "cookie", "flowdel"}
  /\ ch = <<>> \/ loop.read = 0
  /\ add.at \notin {"eval", "revise"} \/ Locked
  /\ IF cb = "flowdel" THEN ani.at \in {"no", "ask"} ELSE ani.at # "gem"

\* The timers of the suspensions.  suspendAddRule gives up and clears the flag
\* of the element it points to, which may be another one by now; suspendNewRule
\* goes on as if the cookie were removed.
AddTimer ==
  /\ add.at \in {"rule", "cookie"} /\ (IF Silent THEN UNCHANGED n ELSE Disturb("late"))
  /\ IF add.at = "rule"
     THEN /\ ~Locked /\ add' = NoAdd
          /\ Respond(IF add.own THEN "err" ELSE "none",
                     IF add.ptr <= Len(f.removes) THEN [f EXCEPT !.removes[add.ptr].susp = FALSE] ELSE f)
     ELSE add' = [add EXCEPT !.at = "revise"] /\ UNCHANGED <<fl, f, hist>>
  /\ UNCHANGED <<st, cb, pend, wk, loop, ch, sent, mib, tpd, ani, ready, cancel>>

-----------------------------------------------------------------------------
(* RemoveUniFlowParams.                                                    *)

\* removeRuleComplete.  The profile is to be deleted with the last rule; in
\* updateTechProfileToDelete, for one of several rules, the rule itself is still
\* in the list, so nothing happens.  Unless the FSM rests in ConfigDone the
\* response comes before the removal.
RemoveRule(c, k) ==
  LET x == f.rules[k]
      tp == TpOf(x.rule)
      g == [f EXCEPT !.removes = Append(@, [rule |-> x.rule, c |-> c, resp |-> TRUE, susp |-> FALSE])]
  IN IF st = "WaitingTechProf"
     THEN /\ Immediate("remove", c, x.rule, "none", RemoveFromSlice(f, c, FALSE)) /\ UNCHANGED tpd
          /\ pend' = pend \cup {Post("CancelOutstandingConfig", "rem")}
     ELSE /\ tpd' = IF Len(f.rules) <= 1 /\ Done(tp) THEN [tpd EXCEPT ![tp] = "del"] ELSE tpd
          /\ IF st = "ConfigDone"
             THEN Immediate("remove", c, x.rule, "none", g) /\ pend' = pend \cup {Post("RemFlowConfig", "rem")}
             ELSE Immediate("remove", c, x.rule, "ok", g) /\ UNCHANGED pend

\* One of several cookies is cut off; one that waits for it waits for another.
RemoveCookie(c, k) ==
  LET cs == SelectSeq(f.rules[k].cookies, LAMBDA x : x # c)
  IN [f EXCEPT !.rules[k].cookies = cs, !.delay = IF @ = c THEN Head(cs) ELSE @]

\* removeFlowItemFromUniPort: without an FSM, or for an unknown cookie, the
\* flow counts as removed.
RemoveFlow(c, r0) ==
  /\ NewFlow /\ c \in hist.want
  /\ IF st = "none" \/ ~HasCookie(f, c)
     THEN (st = "none" \/ MayRead) /\ Immediate("remove", c, Normal(r0), "ok", f) /\ UNCHANGED <<pend, tpd>>
     ELSE LET k == RuleOf(f, c)
          IN /\ MayRead
             /\ IF Len(f.rules[k].cookies) = 1 THEN RemoveRule(c, k)
                ELSE /\ Immediate("remove", c, f.rules[k].rule, "ok", RemoveCookie(c, k))
                     /\ UNCHANGED <<pend, tpd>>
  /\ UNCHANGED <<st, cb, wk, loop, ch, sent, mib, ani, add, ready, cancel>>

-----------------------------------------------------------------------------
(* PerOnuFlowHandlerRoutine and FlowUpdateIncremental.                     *)

\* The response goes to rw-core.
FlowEnds ==
  /\ fl.at \in {"ok", "err"} /\ fl' = NoFlow
  /\ UNCHANGED <<st, cb, pend, f, wk, loop, ch, sent, mib, tpd, ani, add, ready, cancel, n, hist>>

\* The context of the request ends first: the FSM is reset, and the FSM of the
\* technology profile.
FlowContextDone ==
  /\ fl.at = "wait" /\ (IF Silent THEN UNCHANGED n ELSE Disturb("late"))
  /\ add' = [add EXCEPT !.own = FALSE]
  /\ IF st = "none"
     THEN fl' = NoFlow /\ CancelTechProfile(TpOf(fl.r)) /\ UNCHANGED <<f, pend>>
     ELSE /\ fl' = [fl EXCEPT !.at = "giveup"] /\ f' = Stale(f) /\ UNCHANGED <<tpd, ani>>
          /\ pend' = pend \cup {Post("Reset", "flow")}
  /\ UNCHANGED <<st, cb, wk, loop, ch, sent, mib, ready, cancel, hist>>

-----------------------------------------------------------------------------
(* The technology profile (module AniConfig) and the ONU.                  *)

\* VerifyUniVlanConfigRequest after its configuration.
TechProfileDone(tp) ==
  /\ ready /\ tpd[tp] = "no" /\ n.tp < MaxTp /\ n' = [n EXCEPT !.tp = @ + 1]
  /\ tpd' = [tpd EXCEPT ![tp] = "done"]
  /\ MayRead /\ pend' = IF f.waitTp = tp /\ st \in Waiting
                        THEN pend \cup {Post(IF st = "WaitingTechProf" THEN "ContinueConfig" ELSE "IncrFlowConfig", "tp")}
                        ELSE pend
  /\ UNCHANGED <<st, cb, f, wk, loop, ch, sent, mib, ani, fl, add, ready, cancel, hist>>

\* Nobody uses the profile any more, and the OLT adapter removes it.  The ANI
\* FSM waits for removals of flows under way (IsFlowRemovePending)...
Unused(tp) == \A k \in DOMAIN f.rules : TpOf(f.rules[k].rule) = tp
                => \E i \in DOMAIN f.removes : f.removes[i].rule = f.rules[k].rule

FlowRemovePending(tp) ==
  /\ ready /\ tpd[tp] # "no" /\ ani = NoAni /\ st # "none" /\ MayRead /\ Unused(tp) /\ f.removes # <<>>
  /\ n.tp < MaxTp /\ n' = [n EXCEPT !.tp = @ + 1]
  /\ f' = [f EXCEPT !.signal = TRUE] /\ tpd' = [tpd EXCEPT ![tp] = "no"]
  /\ ani' = [at |-> "wait", tp |-> tp]
  /\ UNCHANGED <<st, cb, pend, wk, loop, ch, sent, mib, fl, add, ready, cancel, hist>>

\* ... gets the signal, which the sender cannot give before (an unbuffered
\* channel), and goes on to its GEM port; flowdel keeps mutexFlowParams ...
FlowDeleteSignalled ==
  /\ cb = "flowdel" /\ ani.at = "wait" /\ ani' = [ani EXCEPT !.at = "gem"]
  /\ UNCHANGED <<tpd, add>> /\ Resume(CleanupEnd([Keep EXCEPT !.f.signal = FALSE]))

\* ... or no longer waits: enterWaitingFlowRem, its timer.
FlowRemTimer ==
  /\ ani.at = "wait" /\ (IF Silent THEN UNCHANGED n ELSE Disturb("late"))
  /\ ani' = [ani EXCEPT !.at = "due"]
  /\ UNCHANGED <<st, cb, pend, f, wk, loop, ch, sent, mib, tpd, fl, add, ready, cancel, hist>>

\* enterRemovingGemIW again: a signal that comes now is thrown away ...
FlowRemDone ==
  /\ ani.at = "due" /\ ani' = [ani EXCEPT !.at = "ask"]
  /\ IF cb = "flowdel"
     THEN Resume(CleanupEnd([Keep EXCEPT !.f.signal = FALSE]))
     ELSE UNCHANGED <<st, cb, pend, f, wk, loop, ch, sent, mib, fl, ready, cancel, n, hist>>
  /\ UNCHANGED <<tpd, add>>

\* ... and the removals still under way are waited for once more.
FlowRemAsk ==
  /\ ani.at = "ask" /\ MayRead
  /\ LET pending == st # "none" /\ f.removes # <<>>
     IN /\ ani' = [ani EXCEPT !.at = IF pending THEN "wait" ELSE "gem"]
        /\ f' = IF pending THEN [f EXCEPT !.signal = TRUE] ELSE f
  /\ UNCHANGED <<st, cb, pend, wk, loop, ch, sent, mib, tpd, fl, add, ready, cancel, n, hist>>

\* The lock of HandleAniConfigFSMFailure, lockVlanConfig for a writer.
MayWrite == add.at = "none" /\ \A p \in pend : p.by # "ani"
ResetByAni == pend' = IF st = "none" THEN pend ELSE pend \cup {Post("Reset", "ani")}

\* At its end the ANI FSM resets this FSM too (HandleAniConfigFSMFailure) ...
AniRemoved ==
  /\ ani.at = "gem" /\ MayWrite /\ ani' = NoAni /\ ResetByAni
  /\ UNCHANGED <<st, cb, f, wk, loop, ch, sent, mib, tpd, fl, add, ready, cancel, n, hist>>

\* ... as it does without a wait, and on every other way to its own state
\* Resetting.
AniConfigReset(tp) ==
  /\ st # "none" /\ MayWrite /\ ResetByAni
  /\ \/ /\ tpd[tp] # "no" /\ MayRead /\ Unused(tp) /\ f.removes = <<>>
        /\ n.tp < MaxTp /\ n' = [n EXCEPT !.tp = @ + 1] /\ UNCHANGED ani
     \/ tpd[tp] = "no" /\ tp # ani.tp /\ Disturb("tpFail") /\ UNCHANGED ani
     \/ tp = ani.tp /\ ani.at = "due" /\ Disturb("tpFail") /\ ani' = NoAni
  /\ tpd' = [tpd EXCEPT ![tp] = "no"]
  /\ UNCHANGED <<st, cb, f, wk, loop, ch, sent, mib, fl, add, ready, cancel, hist>>

\* The ONU is lost: resetFsms.
DeviceDown ==
  /\ ready /\ Disturb("down") /\ ready' = FALSE /\ cancel' = "tp"
  /\ mib' = EmptyMib /\ sent' = <<>>
  /\ UNCHANGED <<st, cb, pend, f, wk, loop, ch, tpd, ani, fl, add, hist>>

\* CancelProcessing of the FSMs of the technology profiles: one that exists is
\* reset, and resets this FSM.  One inside a callback takes its Reset after it.
AniCanceled ==
  /\ cancel = "tp" /\ ani.at \in {"no", "wait", "due"} /\ cancel' = "await"
  /\ IF (\E t \in Tps : tpd[t] # "no") \/ ani # NoAni
     THEN MayWrite /\ ResetByAni ELSE UNCHANGED pend
  /\ tpd' = [t \in Tps |-> "no"] /\ ani' = NoAni
  /\ UNCHANGED <<st, cb, f, wk, loop, ch, sent, mib, fl, add, ready, n, hist>>

\* CancelProcessing here; it has read isAwaitingResponse when it sends false.
CancelAwait ==
  /\ cancel = "await" /\ \A p \in pend : p.by # "ani"
  /\ IF st = "none" THEN cancel' = "no" /\ UNCHANGED <<f, pend>>
     ELSE /\ f' = [f EXCEPT !.canceled = TRUE, !.awaiting = FALSE]
          /\ cancel' = IF f.awaiting THEN "send" ELSE "no"
          /\ pend' = IF f.awaiting THEN pend ELSE pend \cup {Post("Reset", "down")}
  /\ UNCHANGED <<st, cb, wk, loop, ch, sent, mib, tpd, ani, fl, add, ready, n, hist>>

\* The goroutine that waits gets false; with its answer or at the end of
\* its timer it has stopped to wait.
CancelSend ==
  /\ cancel = "send" /\ cancel' = "no"
  /\ \/ /\ wk.at = "wait" /\ Failed /\ UNCHANGED cb
        /\ pend' = pend \cup {Post("Reset", "down"), Post("Reset", "wk")}
     \/ /\ cb \in {"vtfd", "remvtfd"} /\ cb' = "none" /\ UNCHANGED wk
        /\ pend' = pend \cup {Post("Reset", "down"), Post("Reset", "go")}
  /\ UNCHANGED <<st, f, loop, ch, sent, mib, tpd, ani, fl, add, ready, n, hist>>

\* The ONU is back, its MIB reset.
DeviceUp ==
  /\ ~ready /\ cancel = "no" /\ Silent /\ ready' = TRUE
  /\ UNCHANGED <<st, cb, pend, f, wk, loop, ch, sent, mib, tpd, ani, fl, add, cancel, n, hist>>

-----------------------------------------------------------------------------
Steps ==
  \/ WorkerSends \/ WorkerReceives \/ WorkerDone \/ WorkerTimer \/ CallbackReceives \/ CallbackTimer
  \/ LoopEnds \/ HandleAnswer \/ OnuAnswers \/ RequestLost
  \/ RuleSignalled \/ CookieSignalled \/ FlowDeleteSignalled
  \/ AniCanceled \/ CancelAwait \/ CancelSend
  \/ AddResumes \/ AddTimer \/ FlowEnds \/ FlowContextDone
  \/ RemoveVlanFilterFsm \/ Fire

\* Of the FSM of a technology profile.
AniSteps == FlowRemTimer \/ FlowRemDone \/ FlowRemAsk \/ AniRemoved

Next ==
  /\ cb # "panic"
  /\ \/ Steps \/ AniSteps
     \/ \E x \in Flows : AddFlow(x[1], x[2]) \/ RemoveFlow(x[1], x[2])
     \/ \E t \in Tps : TechProfileDone(t) \/ FlowRemovePending(t) \/ AniConfigReset(t)
     \/ DeviceDown \/ DeviceUp

Spec ==
  /\ Init /\ [][Next]_vars
  /\ WF_vars((Steps \/ DeviceUp) /\ cb # "panic") /\ WF_vars(AniSteps /\ cb # "panic")

-----------------------------------------------------------------------------
(* Properties.                                                             *)

\* The ONU treats the flows of a rule as asked: the tagging entry and, for a
\* rule with a VLAN, the filter of its profile are there.
Installed(r) == r \in mib.tab /\ (SetOf(r) = "any" \/ Entity(Vtfd, TpOf(r)) \in mib.me)

\* An addition that is answered with success is configured on the ONU, also if
\* its cookie or its rule was there before, or is being removed
\* (enterVlanConfigDone, SetUniFlowParams, reviseFlowConstellation).  Left out
\* are a retry that finds its rule in an FSM about to be thrown away, and the
\* time after a Reset that came in IncrFlowWaitTP and was not taken.
AddOkIsConfigured ==
  fl.op = "add" /\ fl.at = "ok" /\ ready /\ st \notin {"Resetting", "Disabled", "none"} /\ ~hist.ignored
    => Installed(fl.r)

\* "but as we regard the flow as not existing = removed we respond just ok"
\* (removeFlowItemFromUniPort): a removal that is answered with success has
\* removed the rule from the ONU, or the FSM still knows the rule.
RemoveOkIsGone ==
  fl.op = "remove" /\ fl.at = "ok" /\ ready /\ fl.r \in mib.tab
    => \E k \in DOMAIN f.rules : f.rules[k].rule = fl.r

RulesOf(list) == {list[k].rule : k \in DOMAIN list}
Asked(on) == {r \in Rules : \E k \in DOMAIN sent :
                /\ sent[k].me = "ExtendedVlanTaggingOperationConfigurationData"
                /\ sent[k].act = "set" /\ sent[k].val = Entry(r, on)}

Abstract == INSTANCE FlowTable WITH
  known <- RulesOf(f.rules), leaving <- RulesOf(f.rules) \cap RulesOf(f.removes),
  adding <- Asked(TRUE), taking <- Asked(FALSE), have <- mib.tab

\* The FSM, its goroutines and the flow handler implement FlowTable: however
\* additions, removals, failures and resets meet, the rules in
\* uniVlanFlowParamsSlice and the ONU's table change only as it allows.
ImplementsFlowTable == Abstract!Spec

\* "delete indication for the indicated Filter" (removeEvtocdEntries): the
\* request to delete the entry of a rule, once it is answered with success, has
\* taken the entry out.  For frames with two tags it has another filter than the
\* entry, which stays.
EntryTakenOut ==
  [][\A r \in Rules : ch' = Append(ch, Answer(SetEntry(r, FALSE), TRUE)) => r \notin mib'.tab]_vars

\* The ways to be stuck for good.
Stuck ==
  \/ cb \in {"self", "panic"}
  \/ cb = "remchan" /\ add.at # "rule"
  \/ cb = "cookie" /\ add.at # "cookie"
  \/ cb = "flowdel" /\ ani.at \in {"no", "ask", "gem"}

\* The FSM does not rest in a state between, from where it takes no further flow:
\* an answer, a timer or an error moves it on to ConfigDone, to the wait for a
\* technology profile or, by enterResetting, to its end.
FsmSettles ==
  []<>(st \in Waiting \cup {"ConfigDone", "none"} \/ Stuck)

\* "Can't call FSM Event directly, decoupling it" (enterConfigIncrFlow,
\* enterRemoveFlow): whatever fails, no callback waits for ever.  The callbacks
\* of this comment do call it directly when a request cannot be sent.
FsmSettlesAlways ==
  []<>(st \in Waiting \cup {"ConfigDone", "none"})

\* "if the flow is not removed as expected we just try to continue with GemPort
\* removal" (enterWaitingFlowRem): after its timer the ANI FSM goes on, or is
\* reset.  It waits again instead, or for the mutexFlowParams of a callback that
\* waits for it.
RemovalGoesOn == ani.at = "due" ~> ani.at \in {"no", "gem"}

\* "CancelProcessing ensures that suspended processing at waiting on some
\* response is aborted and reset of FSM": it comes to its end.  When the timer
\* or the answer comes between its look at isAwaitingResponse and its send,
\* nobody receives what it sends.
CancelEnds == cancel # "no" ~> cancel = "no"

=============================================================================
