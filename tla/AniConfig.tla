----------------------------- MODULE AniConfig -----------------------------
(***************************************************************************)
(* The technology profile of one UNI: the requests of the OLT adapter to   *)
(* the device handler, OnuUniTechProf, and the FSM UniPonAniConfigFsm that *)
(* configures T-CONT, GEM ports, mapper and bridge port of the ONU         *)
(* (internal/pkg/avcfg/onu_uni_tp.go and omci_ani_config.go), for one      *)
(* technology profile id.  The same id may come with several instances,    *)
(* each with an alloc id and GEM ports of its own.                         *)
(*                                                                         *)
(* A request runs under tpProcMutex; its goroutine starts the FSM and      *)
(* waits for a signal on an unbuffered channel, or for a deadline.  The    *)
(* FSM library holds its lock while an enter callback runs; "cb" is the    *)
(* place where one waits.  "pend" are goroutines with an event for the     *)
(* FSM, tagged with whose they are: a goroutine made for the event, the    *)
(* message loop, the worker, the request, the cancellation.                *)
(***************************************************************************)
EXTENDS Integers, Sequences, FiniteSets, SequencesExt, OmciSend

CONSTANTS
  Insts,      \* instances of the technology profile; also their alloc ids
  Gems,       \* GEM ports
  GemsOf(_),  \* the GEM ports of an instance
  Mcast,      \* the multicast GEM ports
  Invalid,    \* instances that parseAndValidateTechProfileConfig refuses
  TConts,     \* T-CONT instances of the ONU
  None,       \* no instance, no GEM port
  MaxReq,     \* bound on requests of the OLT adapter
  MaxDown,    \* bound on losses of the ONU
  MaxDisturb, \* bound on disturbances
  Kinds       \* send error, lost request, refused request, late answer or
              \* signal (timer and deadline), flow removal pending

ASSUME AniConfigAssumption ==
  /\ IsFiniteSet(Insts) /\ IsFiniteSet(Gems) /\ Mcast \subseteq Gems /\ Invalid \subseteq Insts
  /\ \A i \in Insts : GemsOf(i) \subseteq Gems /\ GemsOf(i) \ Mcast # {}
  /\ None \notin Insts \cup Gems \cup TConts
  /\ {MaxReq, MaxDown, MaxDisturb} \subseteq Nat
  /\ Kinds \subseteq {"sendErr", "lost", "refused", "late", "flow"}

VARIABLES
  st,     \* current state of the FSM
  cb,     \* where an enter callback waits
  pend,   \* events on their way to the FSM
  f,      \* members of UniPonAniConfigFsm
  wk,     \* the goroutine of a step with several requests
  loop,   \* goroutines processOmciAniMessages: reading, or offering a result
  ch,     \* CommChan, capacity 2
  sent,   \* requests the ONU has not answered
  mib,    \* the ONU: its managed entities, and the alloc id of each T-CONT
  tp,     \* OnuUniTechProf for this UNI and profile
  pers,   \* SOnuPersistentData: path and T-CONT map
  rq,     \* the request in progress
  dh,     \* the device handler: ready, and CancelProcessing
  n,      \* what the bounds count
  hist    \* for the properties, see TypeOK

vars == <<st, cb, pend, f, wk, loop, ch, sent, mib, tp, pers, rq, dh, n, hist>>

-----------------------------------------------------------------------------
States == {"Disabled", "Starting", "ReadAniSideConfig", "PrepareConfig", "CreatingDot1PMapper",
  "CreatingMBPCD", "SettingTconts", "CreatingGemNCTPs", "CreatingGemIWs", "SettingPQs",
  "SettingDot1PMapper", "ConfigDone", "RemovingGemIW", "WaitingFlowRem", "RemovingGemNCTP",
  "RemovingTD", "RemDot1PMapper", "RemAniBPCD", "RemoveDone", "ResetTcont", "Resetting"}

\* The FSM's table, but for aniEvSkipOmciConfig of a reconciliation and the
\* two timeout events, which nobody fires.
Table ==
  [Start             |-> [s \in {"Disabled"} |-> "Starting"],
   ReadAniSideConfig |-> [s \in {"Starting"} |-> "ReadAniSideConfig"],
   PrepareConfig     |-> [s \in {"ReadAniSideConfig"} |-> "PrepareConfig"],
   StartConfig       |-> [s \in {"PrepareConfig"} |-> "CreatingDot1PMapper"],
   RxDot1pmapCResp   |-> [s \in {"CreatingDot1PMapper"} |-> "CreatingMBPCD"],
   RxMbpcdResp       |-> [s \in {"CreatingMBPCD"} |-> "SettingTconts"],
   RxTcontsResp      |-> [s \in {"SettingTconts"} |-> "CreatingGemNCTPs"],
   RxGemntcpsResp    |-> [s \in {"CreatingGemNCTPs"} |-> "CreatingGemIWs"],
   RxGemiwsResp      |-> [s \in {"CreatingGemIWs"} |-> "SettingPQs"],
   RxPrioqsResp      |-> [s \in {"SettingPQs"} |-> "SettingDot1PMapper"],
   RxDot1pmapSResp   |-> [s \in {"SettingDot1PMapper"} |-> "ConfigDone"],
   RemGemiw          |-> [s \in {"ConfigDone"} |-> "RemovingGemIW"],
   WaitFlowRem       |-> [s \in {"RemovingGemIW"} |-> "WaitingFlowRem"],
   FlowRemDone       |-> [s \in {"WaitingFlowRem"} |-> "RemovingGemIW"],
   RxRemGemiwResp    |-> [s \in {"RemovingGemIW"} |-> "RemovingGemNCTP"],
   RxRemGemntpResp   |-> [s \in {"RemovingGemNCTP"} |-> "RemovingTD"],
   RxRemTdResp       |-> [s \in {"RemovingTD"} |-> "RemDot1PMapper"],
   RemGemDone        |-> [s \in {"RemDot1PMapper"} |-> "ConfigDone"],
   RxRem1pMapperResp |-> [s \in {"RemDot1PMapper"} |-> "RemAniBPCD"],
   RxRemAniBPCDResp  |-> [s \in {"RemAniBPCD"} |-> "RemoveDone"],
   RemTcontPath      |-> [s \in {"ConfigDone"} |-> "ResetTcont"],
   RxResetTcontResp  |-> [s \in {"ResetTcont"} |-> "ConfigDone"],
   Reset             |-> [s \in States \ {"Disabled", "Resetting"} |-> "Resetting"],
   Restart           |-> [s \in {"Resetting"} |-> "Disabled"]]

Events == DOMAIN Table
Post(ev, by) == [ev |-> ev, by |-> by]
NoConfig == [inst |-> None, gems |-> {}]
NoWork == [at |-> "none", todo |-> <<>>, ev |-> "Reset"]
Abort == [req |-> NoReq, ok |-> FALSE]
NoRequest == [op |-> "none", arg |-> None, at |-> "none"]
EmptyMib == [me |-> {}, alloc |-> [t \in TConts |-> None]]
Unicast(G) == G \ Mcast

TypeOK ==
  /\ st \in States /\ cb \in {"none", "flowrem", "abort", "panic"}
  /\ pend \subseteq [ev : Events, by : {"go", "loop", "wk", "req", "late", "down"}]
  /\ f.inst \in Insts \cup {None} /\ f.tcont \in TConts \cup {None}
  /\ f.off \in 0 .. 1 /\ {f.canceled, f.awaiting, f.flowDel, f.chanSet} \subseteq BOOLEAN
  /\ wk.at \in {"none", "send", "wait", "late"}
  /\ loop \in [read : 0 .. 2, offer : 0 .. 1]
  /\ Len(ch) <= 2 /\ Len(sent) <= 2
  /\ tp.config.inst \in Insts \cup {None} /\ tp.config.gems \subseteq Gems
  /\ {tp.ind, tp.done, tp.resetting, tp.err} \subseteq BOOLEAN /\ tp.remGem \in Gems \cup {None}
  /\ pers.path \in Insts \cup {None} /\ pers.tcont \in [Insts -> TConts \cup {None}]
  /\ rq.op \in {"none", "download", "reboot", "delGem", "delTcont"}
  /\ rq.at \in {"none", "check", "event", "run", "wait", "ok", "fail", "clear"}
  /\ dh.cancel \in {"no", "flag", "await", "send", "flow", "sendflow", "event", "clear"}
  /\ {dh.ready, dh.onReboot, dh.check} \subseteq BOOLEAN
  /\ n \in [req : 0 .. MaxReq, down : 0 .. MaxDown, disturb : 0 .. MaxDisturb]
  \* a removal was started since the last configuration
  /\ hist \in [removal : BOOLEAN]

Init ==
  /\ st = "Disabled" /\ cb = "none" /\ pend = {}
  /\ f = [inst |-> None, gems |-> <<>>, tcont |-> None, alloc |-> None, off |-> 0, last |-> NoReq,
          canceled |-> FALSE, awaiting |-> FALSE, flowDel |-> FALSE, chanSet |-> FALSE]
  /\ wk = NoWork /\ loop = [read |-> 0, offer |-> 0] /\ ch = <<>> /\ sent = <<>>
  /\ mib = EmptyMib
  /\ tp = [ind |-> FALSE, done |-> FALSE, config |-> NoConfig, resetting |-> FALSE,
           remGem |-> None, err |-> FALSE]
  /\ pers = [path |-> None, tcont |-> [i \in Insts |-> None]]
  /\ rq = NoRequest
  /\ \E b \in BOOLEAN : dh = [ready |-> TRUE, onReboot |-> b, check |-> FALSE, cancel |-> "no"]
  /\ n = [req |-> 0, down |-> 0, disturb |-> 0]
  /\ hist = [removal |-> FALSE]

Disturb(k) == k \in Kinds /\ n.disturb < MaxDisturb /\ n' = [n EXCEPT !.disturb = @ + 1]

-----------------------------------------------------------------------------
(* OnuUniTechProf and the persistent data.                                 *)

\* clearAniSideConfig
ClearAniSideConfig(t) ==
  [t EXCEPT !.ind = FALSE, !.done = FALSE, !.config = NoConfig, !.resetting = FALSE]

\* deleteGemPortParams
DeleteGemPortParams(t) ==
  [t EXCEPT !.config.gems = @ \ {t.remGem}, !.remGem = None]

\* AllocateFreeTcont: the instance of the alloc id, or a free one.
UsedTconts == {pers.tcont[i] : i \in Insts} \ {None}
AllocateFreeTcont(i) ==
  CASE pers.tcont[i] # None -> pers.tcont[i]
    [] pers.tcont[i] = None /\ TConts \subseteq UsedTconts -> None
    [] OTHER -> CHOOSE t \in TConts \ UsedTconts : TRUE

FreeTcont(p, i) == [p EXCEPT !.tcont[i] = None]

\* CheckAvailableOnuCapabilities
TcontAvailable(i) == pers.tcont[i] # None \/ Cardinality(UsedTconts) < Cardinality(TConts)

-----------------------------------------------------------------------------
(* The enter callbacks: what each sends, changes and starts.               *)

Mapper == "mapper"
Bridge == "bridge"

Keep == [cb |-> "none", post |-> {}, f |-> f, wk |-> wk, read |-> 0, ch |-> ch, sent |-> sent,
         tp |-> tp, pers |-> pers, signal |-> "none"]

\* A single request: a failure to send resets the FSM.
Ask(e, r, err) ==
  IF err THEN [e EXCEPT !.post = {"Reset"}]
         ELSE [e EXCEPT !.f.last = r, !.sent = Append(@, r)]

\* enterConfigStartingState
EnterStarting ==
  [Keep EXCEPT !.f.gems = <<>>, !.f.canceled = FALSE, !.read = 1, !.post = {"ReadAniSideConfig"}]

\* enterReadAniSideConfig with parseAndValidateTechProfileConfig: the FSM reads
\* the instance it was made with.
EnterReadAniSideConfig ==
  IF f.inst \in Invalid \/ tp.resetting
  THEN [Keep EXCEPT !.tp.config = NoConfig, !.tp.err = TRUE, !.post = {"Reset"}]
  ELSE [Keep EXCEPT !.tp.config = [inst |-> f.inst, gems |-> GemsOf(f.inst)],
                    !.post = {"PrepareConfig"}]

\* prepareAndEnterConfigState.  The configuration is read without a check: it
\* is gone when CancelProcessing has cleared it since, and the adapter panics.
\* Go's order of the map is arbitrary; one order is taken.
EnterPrepareConfig ==
  LET i == tp.config.inst
      t == AllocateFreeTcont(i)
  IN IF tp.config = NoConfig THEN [Keep EXCEPT !.cb = "panic"]
     ELSE IF t = None THEN [Keep EXCEPT !.post = {"Reset"}]
     ELSE [Keep EXCEPT !.f.tcont = t, !.f.alloc = i, !.pers.tcont[i] = t,
                       !.f.gems = SetToSeq(tp.config.gems), !.post = {"StartConfig"}]

\* enterCreatingDot1PMapper
EnterCreatingDot1PMapper(err) ==
  Ask([Keep EXCEPT !.f.off = 0], SendCreateDot1PMapper(Mapper), err)

\* enterCreatingMBPCD
EnterCreatingMBPCD(err) == Ask(Keep, SendCreateMBPConfigDataVar(Bridge), err)

\* enterSettingTconts
EnterSettingTconts(err) ==
  Ask(Keep, SendSetTcontVar(f.tcont, f.alloc), err)

\* performCreatingGemNCTPs
CreatingGemNCTPs == [k \in DOMAIN f.gems |-> SendCreateGemNCTPVar(f.gems[k])]

\* performCreatingGemIWs: no other profile has the multicast GEM port here.
CreatingGemIWs ==
  FlattenSeq([k \in DOMAIN f.gems |->
    LET g == f.gems[k]
    IN IF g \in Mcast
       THEN <<SendCreateMulticastGemIWTPVar(g), SendSetMulticastGemIWTPVar(g, "table")>>
       ELSE <<SendCreateGemIWTPVar(g)>>])

\* performSettingPQs: each unicast GEM port has a queue of its own.
SettingPQs ==
  LET q == SelectSeq(f.gems, LAMBDA g : g \notin Mcast)
  IN [k \in DOMAIN q |-> SendSetPrioQueueVar(q[k], "weight")]

Work(todo, ev) == [Keep EXCEPT !.wk = [at |-> "send", todo |-> todo, ev |-> ev]]

\* enterSettingDot1PMapper
EnterSettingDot1PMapper(err) ==
  IF \E k \in DOMAIN f.gems : f.gems[k] \notin Mcast
  THEN Ask(Keep, SendSetDot1PMapperVar(Mapper, "pointers"), err)
  ELSE [Keep EXCEPT !.post = {"RxDot1pmapSResp"}]

\* The signal to the request, if there still is one that wants it.
Signal(e, v) == IF f.chanSet THEN [e EXCEPT !.signal = v, !.f.chanSet = FALSE] ELSE e

\* enterAniConfigDone
EnterConfigDone == Signal([Keep EXCEPT !.tp.done = tp.ind], "ok")

\* enterRemovingGemIW: a pending removal of flows comes first.
EnterRemovingGemIW(flow, err) ==
  IF flow THEN [Keep EXCEPT !.post = {"WaitFlowRem"}]
  ELSE Ask([Keep EXCEPT !.f.off = 1], SendDeleteGemIWTP(tp.remGem), err)

\* enterWaitingFlowRem
EnterWaitingFlowRem == [Keep EXCEPT !.cb = "flowrem", !.f.flowDel = TRUE]

\* enterRemovingGemNCTP and enterRemovingTD
EnterRemovingGemNCTP(err) == Ask(Keep, SendDeleteGemNCTP(tp.remGem), err)
EnterRemovingTD(err) == Ask(Keep, SendDeleteTD(tp.remGem), err)

\* Mutant: the GEM port to be removed is not taken into account.
EnterRemoving1pMapperEarly(err) ==
  IF Cardinality(Unicast(tp.config.gems)) > 2
  THEN [Keep EXCEPT !.post = {"RemGemDone"}]
  ELSE Ask(Keep, SendDeleteDot1PMapper(Mapper), err)

\* enterRemoving1pMapper: the configuration still has the GEM port that is
\* removed.
EnterRemoving1pMapper(err) ==
  IF Cardinality(Unicast(tp.config.gems)) > 1
  THEN [Keep EXCEPT !.post = {"RemGemDone"}]
  ELSE Ask(Keep, SendDeleteDot1PMapper(Mapper), err)

\* enterRemovingAniBPCD
EnterRemovingAniBPCD(err) == Ask(Keep, SendDeleteMBPConfigData(Bridge), err)

\* enterAniRemoveDone
EnterRemoveDone == [Signal(Keep, "ok") EXCEPT !.post = {"Reset"}]

\* enterResettingTcont
EnterResettingTcont(err) ==
  Ask([Keep EXCEPT !.f.off = 1], SendSetTcontVar(f.tcont, None), err)

\* Mutant: the goroutine that restarts the FSM is forgotten.
EnterResettingNoRestart ==
  LET e == Signal(Keep, "fail")
  IN IF Len(ch) < 2 THEN [e EXCEPT !.ch = Append(@, Abort)]
                    ELSE [e EXCEPT !.cb = "abort"]

\* enterResettingState: the abort message may have to wait for room.
EnterResetting ==
  LET e == Signal(Keep, "fail")
  IN IF Len(ch) < 2 THEN [e EXCEPT !.ch = Append(@, Abort), !.post = {"Restart"}]
                    ELSE [e EXCEPT !.cb = "abort"]

\* enterDisabledState
EnterDisabled == [Keep EXCEPT !.f.last = NoReq]

Enter(d, flow, err) ==
  CASE d = "Starting"            -> EnterStarting
    [] d = "ReadAniSideConfig"   -> EnterReadAniSideConfig
    [] d = "PrepareConfig"       -> EnterPrepareConfig
    [] d = "CreatingDot1PMapper" -> EnterCreatingDot1PMapper(err)
    [] d = "CreatingMBPCD"       -> EnterCreatingMBPCD(err)
    [] d = "SettingTconts"       -> EnterSettingTconts(err)
    [] d = "CreatingGemNCTPs"    -> Work(CreatingGemNCTPs, "RxGemntcpsResp")
    [] d = "CreatingGemIWs"      -> Work(CreatingGemIWs, "RxGemiwsResp")
    [] d = "SettingPQs"          -> Work(SettingPQs, "RxPrioqsResp")
    [] d = "SettingDot1PMapper"  -> EnterSettingDot1PMapper(err)
    [] d = "ConfigDone"          -> EnterConfigDone
    [] d = "RemovingGemIW"       -> EnterRemovingGemIW(flow, err)
    [] d = "WaitingFlowRem"      -> EnterWaitingFlowRem
    [] d = "RemovingGemNCTP"     -> EnterRemovingGemNCTP(err)
    [] d = "RemovingTD"          -> EnterRemovingTD(err)
    [] d = "RemDot1PMapper"      -> EnterRemoving1pMapper(err)
    [] d = "RemAniBPCD"          -> EnterRemovingAniBPCD(err)
    [] d = "RemoveDone"          -> EnterRemoveDone
    [] d = "ResetTcont"          -> EnterResettingTcont(err)
    [] d = "Resetting"           -> EnterResetting
    [] d = "Disabled"            -> EnterDisabled

\* States whose callback sends a request.
Sending == {"CreatingDot1PMapper", "CreatingMBPCD", "SettingTconts", "SettingDot1PMapper",
            "RemovingGemIW", "RemovingGemNCTP", "RemovingTD", "RemDot1PMapper", "RemAniBPCD",
            "ResetTcont"}

-----------------------------------------------------------------------------
(* The FSM takes an event, or rejects it.                                  *)

\* What follows when the goroutine of a request returns: a removal without
\* unicast GEM ports left clears the profile (IsTechProfileConfigCleared).
Returned(r, t) ==
  IF r.op \in {"delGem", "delTcont"} /\ t.config # NoConfig /\ Unicast(t.config.gems) = {}
  THEN [rq |-> [r EXCEPT !.at = "clear"], tp |-> ClearAniSideConfig(t), post |-> {Post("Reset", "req")}]
  ELSE [rq |-> NoRequest, tp |-> t, post |-> {}]

Failed(r, t) == [t EXCEPT !.err = @ \/ r.op \in {"download", "reboot"}]

\* The event of the request: its run, the reset after a failure, and the
\* reset after the removal of the profile, whose path is then deleted.
RequestEvent(p, taken, e) ==
  LET r == rq
      ret == Returned(r, e.tp)
  IN CASE r.at = "event" /\ taken ->
            [rq |-> [r EXCEPT !.at = "run"], tp |-> e.tp, post |-> {}, path |-> pers.path]
       [] r.at = "event" /\ ~taken ->
            [rq |-> Returned(r, Failed(r, tp)).rq, tp |-> Returned(r, Failed(r, tp)).tp,
             post |-> Returned(r, Failed(r, tp)).post, path |-> pers.path]
       [] r.at = "fail" ->
            [rq |-> ret.rq, tp |-> ret.tp, post |-> ret.post, path |-> pers.path]
       [] r.at = "clear" ->
            [rq |-> NoRequest, tp |-> e.tp, post |-> {}, path |-> None]

\* The signal of a callback reaches a request only while it waits for it.
Signalled(v) == IF v # "none" /\ rq.at = "wait" THEN [rq EXCEPT !.at = v] ELSE rq

Fire ==
  \E p \in pend, flow, err \in BOOLEAN :
    LET taken == st \in DOMAIN Table[p.ev]
        d == IF taken THEN Table[p.ev][st] ELSE st
        e == IF taken THEN Enter(d, flow, err) ELSE Keep
        own == RequestEvent(p, taken, e)
        go == {Post(x, "go") : x \in e.post}
    IN /\ cb = "none"
       /\ CASE flow -> ~err /\ taken /\ p.ev = "RemGemiw" /\ Disturb("flow")
            [] err  -> ~flow /\ taken /\ d \in Sending /\ Disturb("sendErr")
            [] OTHER -> UNCHANGED n
       /\ st' = d /\ cb' = e.cb /\ f' = e.f /\ wk' = e.wk /\ ch' = e.ch /\ sent' = e.sent
       /\ loop' = [loop EXCEPT !.read = @ + e.read + (IF p.by = "loop" THEN 1 ELSE 0)]
       /\ IF p.by = "req"
          THEN /\ rq' = own.rq /\ tp' = own.tp /\ pend' = (pend \ {p}) \cup go \cup own.post
               /\ pers' = [e.pers EXCEPT !.path = own.path]
          ELSE /\ rq' = Signalled(e.signal) /\ tp' = e.tp /\ pend' = (pend \ {p}) \cup go
               /\ pers' = e.pers
       /\ dh' = IF p.by = "down" THEN [dh EXCEPT !.cancel = "clear"] ELSE dh
       /\ hist' = [hist EXCEPT !.removal = (@ /\ d # "Starting") \/ d \in {"RemovingGemIW", "ResetTcont"}]
       /\ UNCHANGED mib

\* The abort message of enterResettingState finds room.
AbortSent ==
  /\ cb = "abort" /\ Len(ch) < 2
  /\ ch' = Append(ch, Abort) /\ cb' = "none" /\ pend' = pend \cup {Post("Restart", "go")}
  /\ UNCHANGED <<st, f, wk, loop, sent, mib, tp, pers, rq, dh, n, hist>>

\* enterWaitingFlowRem ends: the flow is removed, or the time is over.
FlowRemoved ==
  /\ cb = "flowrem"
  /\ cb' = "none" /\ f' = [f EXCEPT !.flowDel = FALSE]
  /\ pend' = pend \cup {Post("FlowRemDone", "go")}
  /\ UNCHANGED <<st, wk, loop, ch, sent, mib, tp, pers, rq, dh, n, hist>>

-----------------------------------------------------------------------------
(* The worker of a step with several requests, and waitforOmciResponse.    *)

\* The next request; a cancellation is seen before the wait.
WorkerSends ==
  /\ wk.at = "send" /\ wk.todo # <<>>
  /\ \/ /\ sent' = Append(sent, Head(wk.todo)) /\ UNCHANGED n
        /\ IF f.canceled
           THEN /\ wk' = NoWork /\ pend' = pend \cup {Post("Reset", "wk")}
                /\ f' = [f EXCEPT !.last = Head(wk.todo)]
           ELSE /\ wk' = [wk EXCEPT !.at = "wait"] /\ UNCHANGED pend
                /\ f' = [f EXCEPT !.last = Head(wk.todo), !.awaiting = TRUE]
     \/ /\ Disturb("sendErr") /\ wk' = NoWork /\ pend' = pend \cup {Post("Reset", "wk")}
        /\ UNCHANGED <<f, sent>>
  /\ UNCHANGED <<st, cb, loop, ch, mib, tp, pers, rq, dh, hist>>

\* The loop's result reaches the waiting worker; the last one ends the step.
WorkerReceives ==
  /\ wk.at = "wait" /\ loop.offer > 0
  /\ loop' = [loop EXCEPT !.offer = @ - 1, !.read = @ + 1]
  /\ f' = [f EXCEPT !.awaiting = FALSE]
  /\ IF Len(wk.todo) = 1
     THEN wk' = NoWork /\ pend' = pend \cup {Post(wk.ev, "wk")}
     ELSE wk' = [wk EXCEPT !.at = "send", !.todo = Tail(@)] /\ UNCHANGED pend
  /\ UNCHANGED <<st, cb, ch, sent, mib, tp, pers, rq, dh, n, hist>>

\* The timer of the wait: without an answer in sight, or with a late one.
WorkerTimer ==
  /\ wk.at = "wait"
  /\ IF sent = <<>> /\ ch = <<>> /\ loop.offer = 0 THEN UNCHANGED n ELSE Disturb("late")
  /\ wk' = [wk EXCEPT !.at = "late"]
  /\ UNCHANGED <<st, cb, pend, f, loop, ch, sent, mib, tp, pers, rq, dh, hist>>

WorkerEnds ==
  /\ wk.at = "late"
  /\ wk' = NoWork /\ f' = [f EXCEPT !.awaiting = FALSE] /\ pend' = pend \cup {Post("Reset", "wk")}
  /\ UNCHANGED <<st, cb, loop, ch, sent, mib, tp, pers, rq, dh, n, hist>>

-----------------------------------------------------------------------------
(* The message loop, processOmciAniMessages.                               *)

\* The event an answer stands for; none for the requests of a worker, whose
\* results are offered to it.
SingleRequests ==
  {<<"create", "Ieee8021PMapperServiceProfile", "RxDot1pmapCResp">>,
   <<"create", "MacBridgePortConfigurationData", "RxMbpcdResp">>,
   <<"set", "Ieee8021PMapperServiceProfile", "RxDot1pmapSResp">>,
   <<"set", "TCont", IF f.off = 0 THEN "RxTcontsResp" ELSE "RxResetTcontResp">>,
   <<"delete", "GemInterworkingTerminationPoint", "RxRemGemiwResp">>,
   <<"delete", "GemPortNetworkCtp", "RxRemGemntpResp">>,
   <<"delete", "TrafficDescriptor", "RxRemTdResp">>,
   <<"delete", "Ieee8021PMapperServiceProfile", "RxRem1pMapperResp">>,
   <<"delete", "MacBridgePortConfigurationData", "RxRemAniBPCDResp">>}

EventsFor(a) == {s[3] : s \in {x \in SingleRequests : x[1] = a.act /\ x[2] = a.me}}

\* The answer is for the last request, by class and instance.
ForLast(a) == f.last # NoReq /\ a.me = f.last.me /\ a.id = f.last.id

Take == loop.read > 0 /\ ch # <<>> /\ ch' = Tail(ch)

LoopEnds ==
  /\ Take /\ Head(ch) = Abort
  /\ loop' = [loop EXCEPT !.read = @ - 1]
  /\ UNCHANGED <<st, cb, pend, f, wk, sent, mib, tp, pers, rq, dh, n, hist>>

\* handleOmciAniConfigMessage for a success, an existing or unknown instance.
HandleAnswer ==
  /\ Take /\ Head(ch) # Abort /\ Head(ch).ok
  /\ LET a == Head(ch).req
     IN \/ ~ForLast(a) /\ UNCHANGED <<loop, pend>>
        \/ /\ ForLast(a) /\ EventsFor(a) = {}
           /\ loop' = [loop EXCEPT !.read = @ - 1, !.offer = @ + 1] /\ UNCHANGED pend
        \/ /\ ForLast(a) /\ loop' = [loop EXCEPT !.read = @ - 1]
           /\ \E ev \in EventsFor(a) : pend' = pend \cup {Post(ev, "loop")}
  /\ UNCHANGED <<st, cb, f, wk, sent, mib, tp, pers, rq, dh, n, hist>>

\* Mutant: a T-CONT that was not set counts as set.
HandleRefusalAsSet ==
  /\ Take /\ Head(ch) # Abort /\ ~Head(ch).ok
  /\ LET a == Head(ch).req
     IN IF a.me = "TCont" /\ ForLast(a)
        THEN /\ loop' = [loop EXCEPT !.read = @ - 1]
             /\ \E ev \in EventsFor(a) : pend' = pend \cup {Post(ev, "loop")}
        ELSE UNCHANGED <<loop, pend>>
  /\ UNCHANGED <<st, cb, f, wk, sent, mib, tp, pers, rq, dh, n, hist>>

\* handleOmciAniConfigSetFailResponseMessage: nothing follows, but a T-CONT that
\* was not set is free again.
HandleRefusal ==
  /\ Take /\ Head(ch) # Abort /\ ~Head(ch).ok
  /\ LET a == Head(ch).req
     IN pers' = IF a.act = "set" /\ a.me = "TCont" /\ ForLast(a) /\ f.off = 0 /\ tp.config # NoConfig
                THEN FreeTcont(pers, tp.config.inst) ELSE pers
  /\ UNCHANGED <<st, cb, pend, f, wk, loop, sent, mib, tp, rq, dh, n, hist>>

-----------------------------------------------------------------------------
(* The ONU and the OMCI channel (external).                                *)

\* A lost ONU does not answer, and an answer takes longer than a goroutine
\* needs to come to its select, or to fire the event it has.  An answer that no loop will read before the next
\* run of the FSM stays in the channel: it counts as late.
Unread == loop.read = 0 \/ Abort \in ToSet(ch)

OnuAnswers ==
  /\ sent # <<>> /\ Len(ch) < 2 /\ dh.ready /\ dh.cancel = "no"
  /\ rq.at # "run" /\ (pend = {} \/ cb # "none")
  /\ LET r == Head(sent)
     IN \/ /\ mib' = [me |-> Applied(mib.me, r),
                      alloc |-> IF r.me = "TCont" THEN [mib.alloc EXCEPT ![r.id] = r.val] ELSE mib.alloc]
           /\ ch' = Append(ch, [req |-> r, ok |-> TRUE])
           /\ IF Unread THEN Disturb("late") ELSE UNCHANGED n
        \/ Disturb("refused") /\ ch' = Append(ch, [req |-> r, ok |-> FALSE]) /\ UNCHANGED mib
  /\ sent' = Tail(sent)
  /\ UNCHANGED <<st, cb, pend, f, wk, loop, tp, pers, rq, dh, hist>>

\* All retransmissions are lost, or given up with the ONU; a loss nobody waits
\* to notice is no disturbance.
RequestLost ==
  /\ sent # <<>> /\ sent' = Tail(sent)
  /\ IF dh.cancel # "no" \/ ~dh.ready \/ Unread THEN UNCHANGED n ELSE Disturb("lost")
  /\ UNCHANGED <<st, cb, pend, f, wk, loop, ch, mib, tp, pers, rq, dh, hist>>

-----------------------------------------------------------------------------
(* Requests of the OLT adapter; tpProcMutex admits one at a time.          *)

Ask1 == rq = NoRequest /\ n.req < MaxReq /\ n' = [n EXCEPT !.req = @ + 1]

StartDown == [dh EXCEPT !.cancel = "flag"]

\* handleTechProfileDownloadRequest: the path is stored before anything is
\* configured (UpdateOnuUniTpPath); the same path is no change.  Without a
\* free T-CONT the ONU is taken down.
TechProfileDownload(i) ==
  /\ Ask1 /\ dh.ready
  /\ IF pers.path = i THEN UNCHANGED <<rq, tp, pers, dh>>
     ELSE /\ pers' = [pers EXCEPT !.path = i]
          /\ dh' = IF ~TcontAvailable(i) /\ dh.cancel = "no" THEN StartDown ELSE dh
          /\ tp' = IF TcontAvailable(i) THEN [tp EXCEPT !.err = tp.resetting] ELSE tp
          /\ rq' = IF TcontAvailable(i) /\ ~tp.resetting
                   THEN [op |-> "download", arg |-> i, at |-> "check"] ELSE NoRequest
  /\ UNCHANGED <<st, cb, pend, f, wk, loop, ch, sent, mib, hist>>

\* CheckForDeviceTechProf: after the ONU's return, with the FSM's instance.
CheckForDeviceTechProf ==
  /\ rq = NoRequest /\ dh.ready /\ dh.onReboot /\ dh.check /\ dh' = [dh EXCEPT !.check = FALSE]
  /\ IF pers.path # None /\ f.inst # None
     THEN /\ tp' = [tp EXCEPT !.err = tp.resetting]
          /\ rq' = IF tp.resetting THEN NoRequest ELSE [op |-> "reboot", arg |-> f.inst, at |-> "check"]
     ELSE UNCHANGED <<rq, tp>>
  /\ UNCHANGED <<st, cb, pend, f, wk, loop, ch, sent, mib, pers, n, hist>>

\* runAniConfigFsm: the FSM must be in the state the event is for.
MayRun(ev) == st = (IF ev = "Start" THEN "Disabled" ELSE "ConfigDone")

\* The rest of runAniConfigFsm, or the return of the goroutine.
Run(ev, r, t) ==
  IF MayRun(ev)
  THEN /\ rq' = [r EXCEPT !.at = "event"] /\ tp' = t /\ pend' = pend \cup {Post(ev, "req")}
  ELSE LET ret == Returned(r, Failed(r, t))
       IN rq' = ret.rq /\ tp' = ret.tp /\ pend' = pend \cup ret.post

\* ConfigureUniTp, setAniSideConfigFromTechProfile, createAniConfigFsm: a profile
\* that is known is an error; an FSM that exists keeps its instance.
ConfigureUniTp ==
  /\ rq.op \in {"download", "reboot"} /\ rq.at = "check"
  /\ IF tp.resetting \/ tp.ind
     THEN /\ rq' = NoRequest /\ tp' = Failed(rq, tp) /\ UNCHANGED <<f, pend>>
     ELSE /\ f' = [f EXCEPT !.inst = IF @ = None THEN rq.arg ELSE @,
                            !.chanSet = @ \/ MayRun("Start")]
          /\ Run("Start", rq, [tp EXCEPT !.ind = TRUE, !.done = FALSE])
  /\ UNCHANGED <<st, cb, wk, loop, ch, sent, mib, pers, dh, n, hist>>

\* handleDeleteGemPortRequest, DeleteTpResource: an unknown GEM port removes what
\* an earlier failed request has left in mapRemoveGemEntry.  A multicast GEM
\* port goes with the last unicast one, no request is made for it.
DeleteGemPort(g) ==
  /\ Ask1
  /\ LET known == g \in tp.config.gems
         t == [tp EXCEPT !.err = FALSE, !.remGem = IF known THEN g ELSE @]
         r == [op |-> "delGem", arg |-> g, at |-> "check"]
         plain == ~dh.ready \/ f.inst = None \/ tp.resetting
         ret == Returned(r, IF t.remGem = None THEN t ELSE DeleteGemPortParams(t))
     IN IF tp.config = NoConfig \/ t.remGem = None \/ plain
        THEN /\ UNCHANGED f
             /\ IF tp.config = NoConfig
                THEN tp' = [tp EXCEPT !.err = FALSE] /\ UNCHANGED <<rq, pend>>
                ELSE rq' = ret.rq /\ tp' = ret.tp /\ pend' = pend \cup ret.post
        ELSE /\ f' = [f EXCEPT !.chanSet = @ \/ MayRun("RemGemiw")]
             /\ Run("RemGemiw", r, t)
  /\ UNCHANGED <<st, cb, wk, loop, ch, sent, mib, pers, dh, hist>>

\* handleDeleteTcontRequest, DeleteTpResource: the T-CONT is free at once.
DeleteTcont(i) ==
  /\ Ask1 /\ pers' = FreeTcont(pers, i)
  /\ LET t == [tp EXCEPT !.err = FALSE]
         r == [op |-> "delTcont", arg |-> i, at |-> "check"]
         ret == Returned(r, t)
     IN IF tp.config.inst # i \/ f.inst = None \/ ~dh.ready \/ tp.resetting
        THEN UNCHANGED f /\ rq' = ret.rq /\ tp' = ret.tp /\ pend' = pend \cup ret.post
        ELSE f' = [f EXCEPT !.chanSet = @ \/ MayRun("RemTcontPath")] /\ Run("RemTcontPath", r, t)
  /\ UNCHANGED <<st, cb, wk, loop, ch, sent, mib, dh, hist>>

\* The goroutine comes to its select.
RequestWaits ==
  /\ rq.at = "run" /\ rq' = [rq EXCEPT !.at = "wait"]
  /\ UNCHANGED <<st, cb, pend, f, wk, loop, ch, sent, mib, tp, pers, dh, n, hist>>

\* The signal was success: a GEM port is dropped from the configuration, a
\* downloaded path is stored.
RequestSucceeds ==
  /\ rq.at = "ok"
  /\ LET ret == Returned(rq, IF rq.op = "delGem" /\ tp.remGem # None THEN DeleteGemPortParams(tp) ELSE tp)
     IN rq' = ret.rq /\ tp' = ret.tp /\ pend' = pend \cup ret.post
  /\ pers' = IF rq.op = "download" THEN [pers EXCEPT !.path = rq.arg] ELSE pers
  /\ UNCHANGED <<st, cb, f, wk, loop, ch, sent, mib, dh, n, hist>>

\* The signal was an error: the FSM is reset.
RequestFails ==
  /\ rq.at = "fail" /\ Post("Reset", "req") \notin pend
  /\ pend' = pend \cup {Post("Reset", "req")} /\ tp' = Failed(rq, tp)
  /\ UNCHANGED <<st, cb, f, wk, loop, ch, sent, mib, pers, rq, dh, n, hist>>

\* Nothing more comes from the FSM.
Silent ==
  /\ pend = {} /\ sent = <<>> /\ wk.at = "none" /\ cb # "flowrem"
  /\ ch = <<>> \/ loop.read = 0

\* Mutant: the goroutine waits for the signal alone.
DeadlineMissed == FALSE /\ UNCHANGED vars

\* The deadline of the request; its goroutine resets the FSM later on.
Deadline ==
  /\ rq.at = "wait" /\ cb # "panic" /\ (IF Silent THEN UNCHANGED n ELSE Disturb("late"))
  /\ rq' = NoRequest /\ tp' = Failed(rq, tp) /\ pend' = pend \cup {Post("Reset", "late")}
  /\ UNCHANGED <<st, cb, f, wk, loop, ch, sent, mib, pers, dh, hist>>

-----------------------------------------------------------------------------
(* The ONU is lost: UpdateInterface, resetFsms and CancelProcessing, which  *)
(* does not wait for tpProcMutex.                                           *)

\* What the lost ONU has does not matter any more: its MIB is reset when it is
\* back, the requests under way are given up.
DeviceDown ==
  /\ dh.ready /\ dh.cancel = "no" /\ n.down < MaxDown
  /\ n' = [n EXCEPT !.down = @ + 1] /\ dh' = StartDown /\ mib' = EmptyMib /\ sent' = <<>>
  /\ UNCHANGED <<st, cb, pend, f, wk, loop, ch, tp, pers, rq, hist>>

CancelFlag ==
  /\ dh.cancel = "flag" /\ dh' = [dh EXCEPT !.cancel = IF f.inst = None THEN "clear" ELSE "await"]
  /\ tp' = IF f.inst = None \/ st \in {"Disabled", "Resetting"} THEN tp ELSE [tp EXCEPT !.resetting = TRUE]
  /\ UNCHANGED <<st, cb, pend, f, wk, loop, ch, sent, mib, pers, rq, n, hist>>

CancelAwait ==
  /\ dh.cancel = "await" /\ f' = [f EXCEPT !.canceled = TRUE, !.awaiting = FALSE]
  /\ dh' = [dh EXCEPT !.cancel = IF f.awaiting THEN "send" ELSE "flow"]
  /\ UNCHANGED <<st, cb, pend, wk, loop, ch, sent, mib, tp, pers, rq, n, hist>>

\* The blocking send of false; it waits for ever if the worker's timer came first.
CancelSend ==
  /\ dh.cancel = "send" /\ wk.at = "wait"
  /\ wk' = NoWork /\ pend' = pend \cup {Post("Reset", "wk")} /\ dh' = [dh EXCEPT !.cancel = "flow"]
  /\ UNCHANGED <<st, cb, f, loop, ch, sent, mib, tp, pers, rq, n, hist>>

CancelFlow ==
  /\ dh.cancel = "flow" /\ f' = [f EXCEPT !.flowDel = FALSE]
  /\ dh' = [dh EXCEPT !.cancel = IF f.flowDel THEN "sendflow" ELSE "event"]
  /\ pend' = IF f.flowDel THEN pend ELSE pend \cup {Post("Reset", "down")}
  /\ UNCHANGED <<st, cb, wk, loop, ch, sent, mib, tp, pers, rq, n, hist>>

CancelSendFlow ==
  /\ dh.cancel = "sendflow" /\ cb = "flowrem"
  /\ cb' = "none" /\ dh' = [dh EXCEPT !.cancel = "event"]
  /\ pend' = pend \cup {Post("Reset", "go"), Post("Reset", "down")}
  /\ UNCHANGED <<st, f, wk, loop, ch, sent, mib, tp, pers, rq, n, hist>>

\* Mutant: the flag of the reset stays.
CancelClearKeepsFlag ==
  /\ dh.cancel = "clear"
  /\ tp' = [ClearAniSideConfig(tp) EXCEPT !.resetting = tp.resetting]
  /\ dh' = [dh EXCEPT !.cancel = "no", !.ready = FALSE]
  /\ pers' = IF dh.onReboot THEN pers ELSE [path |-> None, tcont |-> [i \in Insts |-> None]]
  /\ UNCHANGED <<st, cb, pend, f, wk, loop, ch, sent, mib, rq, n, hist>>

\* clearAniSideConfig and the end of UpdateInterface; the persistent data are
\* deleted unless they serve the ONU's return.
CancelClear ==
  /\ dh.cancel = "clear"
  /\ tp' = ClearAniSideConfig(tp)
  /\ dh' = [dh EXCEPT !.cancel = "no", !.ready = FALSE]
  /\ pers' = IF dh.onReboot THEN pers ELSE [path |-> None, tcont |-> [i \in Insts |-> None]]
  /\ UNCHANGED <<st, cb, pend, f, wk, loop, ch, sent, mib, rq, n, hist>>

\* The ONU is back, its MIB reset and synchronised again: that takes longer
\* than the deadline of a request and the timers of the FSM.
DeviceUp ==
  /\ ~dh.ready /\ dh.cancel = "no" /\ rq = NoRequest /\ Silent
  /\ dh' = [dh EXCEPT !.ready = TRUE, !.check = dh.onReboot] /\ UNCHANGED sent
  /\ mib' = EmptyMib
  /\ UNCHANGED <<st, cb, pend, f, wk, loop, ch, tp, pers, rq, n, hist>>

-----------------------------------------------------------------------------
Down == CancelFlag \/ CancelAwait \/ CancelSend \/ CancelFlow \/ CancelSendFlow \/ CancelClear

Steps ==
  \/ Fire \/ AbortSent \/ FlowRemoved
  \/ WorkerSends \/ WorkerReceives \/ WorkerTimer \/ WorkerEnds
  \/ LoopEnds \/ HandleAnswer \/ HandleRefusal \/ OnuAnswers \/ RequestLost
  \/ ConfigureUniTp \/ RequestWaits \/ RequestSucceeds \/ RequestFails \/ Deadline
  \/ CheckForDeviceTechProf \/ Down

Next ==
  /\ cb # "panic"
  /\ \/ Steps
     \/ \E i \in Insts : TechProfileDownload(i) \/ DeleteTcont(i)
     \/ \E g \in Unicast(Gems) : DeleteGemPort(g)
     \/ DeviceDown \/ DeviceUp

Spec == Init /\ [][Next]_vars /\ WF_vars((Steps \/ DeviceUp) /\ cb # "panic")

-----------------------------------------------------------------------------
(* Properties.                                                             *)

Has(me, id) == Entity(me, id) \in mib.me

GemConfigured(g) ==
  /\ Has("GemPortNetworkCtp", g)
  /\ \/ g \in Mcast /\ Has("MulticastGemInterworkingTerminationPoint", g)
     \/ g \notin Mcast /\ Has("GemInterworkingTerminationPoint", g)

\* The GEM ports of G work: their entities, the mapper and the bridge port
\* are there, and the T-CONT has the alloc id.
Configured(G) ==
  /\ \A g \in G : GemConfigured(g)
  /\ Has("Ieee8021PMapperServiceProfile", Mapper) /\ Has("MacBridgePortConfigurationData", Bridge)
  /\ mib.alloc[f.tcont] = f.alloc

\* techProfileConfigDone, which lets flows be configured on the profile
\* (getTechProfileDone), is only set while the ONU has all entities of the
\* profile, unless a removal was begun or the ONU is being lost.
DoneIsConfigured ==
  tp.ind /\ tp.done /\ ~hist.removal /\ dh.ready /\ dh.cancel = "no"
    => tp.config # NoConfig /\ Configured(tp.config.gems)

\* Whatever is removed, and whichever one request is lost, refused or late: a
\* GEM interworking point the ONU has can reach its GEM port and its mapper.
\* Two such disturbances break it: an answer that came when no loop read it
\* stays in CommChan and is taken, by class and instance, for the answer to the
\* same request of the next run, which is lost (handleOmciAniConfigCreateResponseMessage).
NoDanglingGem ==
  \A g \in Gems :
    Has("GemInterworkingTerminationPoint", g)
      => Has("GemPortNetworkCtp", g) /\ Has("Ieee8021PMapperServiceProfile", Mapper)

\* tpProfileResetting, with which every download is refused, is up only
\* while CancelProcessing runs.
ResettingEnds == tp.resetting => dh.cancel \notin {"no", "flag"}

\* Every request of the OLT adapter is answered, by the signal of the FSM or by
\* its deadline, and tpProcMutex is free again (handleTechProfileDownloadRequest,
\* waitForTimeoutOrCompletion).
RequestEnds == rq # NoRequest ~> (rq = NoRequest \/ cb = "panic")

\* The FSM does not rest in a state between: a response, a timer or an error
\* moves it on to ConfigDone or, by enterResettingState, to Disabled.
FsmSettles ==
  st \notin {"Disabled", "ConfigDone"} ~> (st \in {"Disabled", "ConfigDone"} \/ cb = "panic")

=============================================================================
