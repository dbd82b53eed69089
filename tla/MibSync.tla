------------------------------- MODULE MibSync -------------------------------
(***************************************************************************)
(* MIB synchronisation of one ONU: the MIB upload state machine with its   *)
(* message processor (internal/pkg/mib/mib_sync.go, onu_device_entry.go),  *)
(* and the procedures of the device handler that start it when the ONU     *)
(* comes up and cancel it when the ONU goes down (device_handler.go).      *)
(*                                                                         *)
(* The FSM library takes one event at a time and holds its lock for the    *)
(* whole enter callback.  A goroutine with an event is in "pend" until the *)
(* event is taken or rejected.  Four callbacks wait inside of the event:   *)
(* the test of the extended message set, the search for a MIB template,    *)
(* the verification of the stored techprofiles and the restoring of the    *)
(* configuration; "cb" names the one that runs and who runs it.            *)
(*                                                                         *)
(* The ONU (external) keeps its MIB data sync counter: it counts every     *)
(* configuration request it executes, and a MIB reset sets it to zero.     *)
(* The adapter keeps a copy, and takes the configuration of the ONU for    *)
(* its own as long as the two agree.  The configuration by the other FSMs  *)
(* is here a run of requests of which the ONU executes one at a time.      *)
(***************************************************************************)
EXTENDS Integers, Sequences, FiniteSets

CONSTANTS
  MdsMax,      \* largest value of the MIB data sync counter, 255
  NCmds,       \* number of commands of a MIB upload
  ChanCap,     \* capacity of CommChan, 2
  SkipConfig,  \* GetSkipOnuConfigEnabled
  MaxConfig,   \* bound on the configuration requests
  MaxAudit,    \* bound on the audits of one behaviour
  MaxDisturb,  \* bound on the disturbances
  Kinds        \* the kinds of disturbances

\* A request is not answered in time, or is sent again and answered twice; the
\* ONU refuses a request; a get request cannot be sent; the ONU goes down; the
\* ONU loses its configuration; techprofiles, flows or the template cannot be
\* restored; reconciling takes too long.  And those after which the code
\* neither goes on nor gives up: a reset or upload request cannot be sent, the
\* ONU reports an empty MIB, a frame of the upload cannot be decoded.
Ignored == {"sendErrIgnored", "zeroCmds", "undecodable"}
Disturbances == Ignored \cup {"timeout", "repeat", "refuse", "sendErr", "down",
                              "diverge", "restore", "expiry"}

ASSUME MibSyncAssumption ==
  /\ MdsMax \in Nat \ {0} /\ NCmds \in Nat \ {0} /\ ChanCap \in Nat \ {0}
  /\ SkipConfig \in BOOLEAN
  /\ {MaxConfig, MaxAudit, MaxDisturb} \subseteq Nat
  /\ Kinds \subseteq Disturbances

VARIABLES
  ul,      \* current state of PMibUploadFsm
  cb,      \* the callback that waits inside of an event: [at, by]
  pend,    \* events on their way to the FSM: [ev, by]
  proc,    \* processMibSyncMessages: goroutines that start, that wait for a
           \* message, that handle one, and mibSyncMsgProcessorRunning
  chan,    \* CommChan
  sent,    \* requests the ONU has not answered: [req, n, sup]
  back,    \* answers on their way to CommChan: [req, res, val]
  last,    \* lastTxParamStruct: [type, me, rep]
  up,      \* UploadSequNo, UploadNoOfCmds, the ME database, the commands whose
           \* content was received, and mutexMibTemplateGenerated
  img,     \* onuSwImageIndications: active and inactive image
  mds,     \* the MIB data sync counters of the adapter and of the ONU
  cfg,     \* configuration by other FSMs: [run, air, n]
  dev,     \* the device: see TypeOK
  dh,      \* the device handler's procedure on ONU indications
  flow,    \* the goroutine waiting for the reconciled flows is running
  audits,  \* running audit timers and audits so far
  used     \* the number of disturbances, and whether one was an ignored one

vars == <<ul, cb, pend, proc, chan, sent, back, last, up, img, mds, cfg, dev,
          dh, flow, audits, used>>

-----------------------------------------------------------------------------
GetStates == {"GettingVendorAndSerial", "GettingVersion", "GettingEquipIDAndOmcc",
              "GettingFirstSwVersion", "GettingSecondSwVersion", "GettingMacAddress"}

\* All states with an exceptional way out; Resynchronizing and OutOfSync are
\* in the code's tables, but no event leads there.
Stoppable == GetStates \cup
  {"Starting", "ResettingMib", "TestingExtOmciSupport", "GettingMibTemplate",
   "Uploading", "VerifyingAndStoringTPs", "ExaminingMds", "UploadDone",
   "InSync", "Auditing", "ReAuditing"}

States == Stoppable \cup {"Disabled", "ExaminingMdsSuccess"}

\* The FSM's table: the states an event is taken in with the next state.
Table ==
  [Start              |-> [s \in {"Disabled"} |-> "Starting"],
   ResetMib           |-> [s \in {"Starting"} |-> "ResettingMib"],
   GetVendorAndSerial |-> [s \in {"ResettingMib"} |-> "GettingVendorAndSerial"],
   GetVersion         |-> [s \in {"GettingVendorAndSerial"} |-> "GettingVersion"],
   GetEquipIDAndOmcc  |-> [s \in {"GettingVersion"} |-> "GettingEquipIDAndOmcc"],
   TestExtOmciSupport |-> [s \in {"GettingEquipIDAndOmcc"} |-> "TestingExtOmciSupport"],
   GetFirstSwVersion  |-> [s \in {"GettingEquipIDAndOmcc", "TestingExtOmciSupport"} |->
                             "GettingFirstSwVersion"],
   GetSecondSwVersion |-> [s \in {"GettingFirstSwVersion"} |-> "GettingSecondSwVersion"],
   GetMacAddress      |-> [s \in {"GettingSecondSwVersion"} |-> "GettingMacAddress"],
   GetMibTemplate     |-> [s \in {"GettingMacAddress"} |-> "GettingMibTemplate"],
   UploadMib          |-> [s \in {"GettingMibTemplate"} |-> "Uploading"],
   VerifyAndStoreTPs  |-> [s \in {"Starting"} |-> "VerifyingAndStoringTPs"],
   Success            |-> [VerifyingAndStoringTPs |-> "ExaminingMds",
                           GettingMibTemplate |-> "UploadDone", Uploading |-> "UploadDone",
                           UploadDone |-> "InSync", ExaminingMds |-> "ExaminingMdsSuccess",
                           ExaminingMdsSuccess |-> "InSync",
                           Auditing |-> "InSync", ReAuditing |-> "InSync"],
   Mismatch           |-> [VerifyingAndStoringTPs |-> "ResettingMib",
                           ExaminingMds |-> "ResettingMib",
                           ExaminingMdsSuccess |-> "ResettingMib",
                           Auditing |-> "ReAuditing", ReAuditing |-> "ResettingMib"],
   AuditMib           |-> [s \in {"InSync"} |-> "Auditing"],
   Timeout            |-> [s \in Stoppable \ {"Starting"} |-> "Starting"],
   Stop               |-> [s \in Stoppable |-> "Disabled"]]

Events == DOMAIN Table

\* What the get request of a state asks for, and the ME it belongs to.
GetOf == [GettingVendorAndSerial |-> "onuG", GettingVersion |-> "onuG",
          GettingEquipIDAndOmcc |-> "onu2G", GettingFirstSwVersion |-> "sw0",
          GettingSecondSwVersion |-> "sw1", GettingMacAddress |-> "mac",
          ExaminingMds |-> "mds", Auditing |-> "mds", ReAuditing |-> "mds"]

MEs == {"onuG", "onu2G", "sw0", "sw1", "mac", "mds"}
Reqs == MEs \cup {"reset", "upload", "next"}
Vals == 0 .. (IF MdsMax > NCmds THEN MdsMax ELSE NCmds)
Answers == [req : Reqs, res : {"ok", "refused", "unsupported", "undecodable"}, val : Vals]
Signal(v) == [req |-> v, res |-> "ok", val |-> 0]
Signals == {Signal(v) : v \in {"abort", "timeout", "templateOk", "templateFailed"}}
NoCb == [at |-> "none", by |-> "none"]

TypeOK ==
  /\ ul \in States
  /\ cb \in [at : {"none", "test", "template", "verify", "restore", "flows"},
             by : {"none", "proc", "go", "dh"}]
  /\ pend \subseteq [ev : Events, by : {"proc", "go"}]
  /\ proc \in [new : Nat, loop : Nat, busy : Nat, running : BOOLEAN]
  /\ chan \in Seq(Signals \cup Answers) /\ Len(chan) <= ChanCap
  /\ sent \in Seq([req : Reqs, n : 0 .. NCmds, sup : BOOLEAN])
  /\ back \in Seq(Answers)
  /\ last \in [type : {"none", "reset", "get", "upload", "next"},
               me : MEs \cup {"none"}, rep : {0, 1}]
  /\ up \in [seq : Nat, cmds : Nat, db : {"none", "part", "template", "uploaded"},
             got : SUBSET Nat,
             \* an upload holds mutexMibTemplateGenerated and MeDbLock
             held : BOOLEAN]
  /\ img \in [active : {"none", "sw0", "sw1"}, inactive : {"none", "sw0", "sw1"}]
  /\ mds \in [adpt : 0 .. MdsMax, onu : 0 .. MdsMax]
  /\ cfg \in [run : BOOLEAN, air : BOOLEAN, n : 0 .. MaxConfig]
  \* the ONU has synchronised before; the device state has passed
  \* MibDatabaseSync; its event to the device handler is on the way;
  \* reconciling; user service exists; the upload failure event is to be
  \* raised; OMCI configuration is allowed; the adapter has crashed in this run
  /\ dev \in [synced : BOOLEAN, state : {"init", "sync"}, note : BOOLEAN,
              recon : {"no", "omci", "skip"}, service : BOOLEAN, raise : BOOLEAN,
              ready : BOOLEAN, panic : BOOLEAN,
              \* for the properties: the ONU still has the configuration the
              \* adapter gave it; a MIB reset takes it away, and it is not yet
              \* provisioned anew; that reset ran into reconciling, after the MibDatabaseSync;
              \* a configuration ran into the audit; the FSM was started with
              \* nothing left of an earlier run and no answer of this run was
              \* repeated
              intact : BOOLEAN, blank : BOOLEAN, midway : BOOLEAN, touched : BOOLEAN,
              clean : BOOLEAN]
  /\ dh \in {"off", "started", "verify", "up", "refused", "cancel", "stop", "clear"}
  /\ flow \in BOOLEAN
  /\ audits \in [timers : Nat, n : 0 .. MaxAudit]
  /\ used \in [n : 0 .. MaxDisturb, ignored : BOOLEAN]

Disturb(k) ==
  /\ k \in Kinds /\ used.n < MaxDisturb
  /\ used' = [n |-> used.n + 1, ignored |-> used.ignored \/ k \in Ignored]

\* A new ONU, or an adapter that restarts and finds an ONU it has
\* synchronised before, whose configuration may have changed meanwhile.
Init ==
  /\ \E known \in BOOLEAN, a, o \in 0 .. MdsMax :
       /\ mds = [adpt |-> IF known THEN a ELSE 0, onu |-> o]
       /\ ~known => a = 0
       /\ dev = [synced |-> known, state |-> "init", note |-> FALSE,
                 recon |-> IF known THEN IF SkipConfig THEN "skip" ELSE "omci" ELSE "no",
                 service |-> FALSE, raise |-> FALSE, ready |-> FALSE, panic |-> FALSE,
                 intact |-> known /\ a = o /\ a # 0, blank |-> FALSE,
                 midway |-> FALSE, touched |-> FALSE, clean |-> TRUE]
  /\ ul = "Disabled" /\ cb = NoCb /\ pend = {}
  /\ proc = [new |-> 0, loop |-> 0, busy |-> 0, running |-> FALSE]
  /\ chan = <<>> /\ sent = <<>> /\ back = <<>>
  /\ last = [type |-> "none", me |-> "none", rep |-> 0]
  /\ up = [seq |-> 0, cmds |-> 0, db |-> "none", got |-> {}, held |-> FALSE]
  /\ img = [active |-> "none", inactive |-> "none"]
  /\ cfg = [run |-> FALSE, air |-> FALSE, n |-> 0]
  /\ dh = "off" /\ flow = FALSE
  /\ audits = [timers |-> 0, n |-> 0] /\ used = [n |-> 0, ignored |-> FALSE]

-----------------------------------------------------------------------------
(* Events and the enter callbacks.                                         *)

Go(ev) == [ev |-> ev, by |-> "go"]
Request(req, n) == [req |-> req, n |-> n, sup |-> TRUE]

\* CancelRequestMonitoring: the requests are no longer supervised; the one on
\* its way to the ONU may be answered all the same.
CancelMonitoring ==
  IF sent = <<>> THEN <<>> ELSE <<[Head(sent) EXCEPT !.sup = FALSE]>>

\* All other FSMs are idle and the ONU carries user traffic.
CheckAuditStartCondition == ~cfg.run /\ dev.service

\* What a callback leaves alone: see Transition.
Keep == [cb |-> NoCb, post |-> {}, new |-> 0, send |-> <<>>, sent |-> sent,
         last |-> last, up |-> up, dev |-> dev, cfg |-> cfg, timer |-> 0]

EnterDisabled == [Keep EXCEPT !.dev.raise = FALSE]

\* An aborted run may leave messages, a locked mutex, and a goroutine that
\* waits for flows.
NothingLeft == chan \o back = <<>> /\ sent = <<>> /\ ~up.held /\ ~flow

\* Mutant: the failure event is not armed.
EnterStartingSilent ==
  [Keep EXCEPT !.new = 1, !.up.db = "none", !.up.got = {},
               !.dev.panic = FALSE, !.dev.clean = NothingLeft]

EnterStarting ==
  [Keep EXCEPT !.dev.raise = TRUE, !.new = 1, !.up.db = "none", !.up.got = {},
               !.dev.panic = FALSE, !.dev.clean = NothingLeft]

StartReconciling(skip) == IF skip \/ SkipConfig THEN "skip" ELSE "omci"

\* Mutant: the device state does not allow for a new MibDatabaseSync.
EnterResettingMibOnce(err) ==
  LET again == (dev.synced /\ dev.recon = "no") \/ dev.recon = "skip"
  IN [Keep EXCEPT
        !.dev  = IF again THEN [dev EXCEPT !.recon = StartReconciling(FALSE), !.service = FALSE]
                          ELSE dev,
        !.dev.blank = TRUE, !.dev.midway = dev.recon = "omci" /\ dev.state = "sync",
        !.cfg  = IF again THEN [cfg EXCEPT !.run = FALSE, !.air = FALSE] ELSE cfg,
        !.sent = IF again THEN CancelMonitoring ELSE sent,
        !.send = IF err THEN <<>> ELSE <<Request("reset", 0)>>,
        !.last.type = "reset", !.last.rep = 0]

\* A reset of an ONU in service, or after reconciling without OMCI, starts
\* reconciling with OMCI: resetFsms stops the other FSMs, and the device
\* state allows for a new MibDatabaseSync.
EnterResettingMib(err) ==
  LET again == (dev.synced /\ dev.recon = "no") \/ dev.recon = "skip"
  IN [Keep EXCEPT
        !.dev  = IF again THEN [dev EXCEPT !.recon = StartReconciling(FALSE), !.state = "init",
                                           !.service = FALSE]
                          ELSE dev,
        !.dev.blank = TRUE, !.dev.midway = dev.recon = "omci" /\ dev.state = "sync",
        !.cfg  = IF again THEN [cfg EXCEPT !.run = FALSE, !.air = FALSE] ELSE cfg,
        !.sent = IF again THEN CancelMonitoring ELSE sent,
        !.send = IF err THEN <<>> ELSE <<Request("reset", 0)>>,
        !.last.type = "reset", !.last.rep = 0]

EnterGetting(d, err) ==
  IF err THEN [Keep EXCEPT !.post = {Go("Stop")}]
  ELSE [Keep EXCEPT !.send = <<Request(GetOf[d], 0)>>, !.last.type = "get", !.last.me = GetOf[d]]

RequestMdsValue(d, err) ==
  IF err THEN [Keep EXCEPT !.post = {Go("Stop")}]
  ELSE [Keep EXCEPT !.send = <<Request("mds", 0)>>,
                    !.last = [type |-> "get", me |-> "mds", rep |-> 0]]

EnterUploading(err) ==
  [Keep EXCEPT !.up.seq = 0, !.up.cmds = 0, !.last.type = "upload",
               !.send = IF err THEN <<>> ELSE <<Request("upload", 0)>>]

\* transferSystemEvent: the device handler learns of the MIB only once.
EnterUploadDone ==
  [Keep EXCEPT !.post = {Go("Success")},
               !.dev = IF dev.state = "init"
                       THEN [dev EXCEPT !.state = "sync", !.note = TRUE]
                       ELSE dev]

EnterInSync ==
  [Keep EXCEPT !.dev.synced = TRUE,
               !.timer = IF audits.timers + audits.n < MaxAudit THEN 1 ELSE 0]

EnterExaminingMds(err) ==
  IF SkipConfig THEN [Keep EXCEPT !.post = {Go("Success")}]
  ELSE RequestMdsValue("ExaminingMds", err)

EnterAuditing(d, err) ==
  IF CheckAuditStartCondition
  THEN [RequestMdsValue(d, err) EXCEPT !.dev.touched = FALSE]
  ELSE [Keep EXCEPT !.post = {Go("Success")}]

Waiting(at, by) == [Keep EXCEPT !.cb = [at |-> at, by |-> by]]

Enter(d, by, err) ==
  CASE d = "Disabled"               -> EnterDisabled
    [] d = "Starting"               -> EnterStarting
    [] d = "ResettingMib"           -> EnterResettingMib(err)
    [] d \in GetStates              -> EnterGetting(d, err)
    [] d = "TestingExtOmciSupport"  -> Waiting("test", by)
    [] d = "GettingMibTemplate"     -> Waiting("template", by)
    [] d = "VerifyingAndStoringTPs" -> Waiting("verify", by)
    [] d = "ExaminingMdsSuccess"    -> Waiting("restore", by)
    [] d = "Uploading"              -> EnterUploading(err)
    [] d = "UploadDone"             -> EnterUploadDone
    [] d = "InSync"                 -> EnterInSync
    [] d = "ExaminingMds"           -> EnterExaminingMds(err)
    [] d \in {"Auditing", "ReAuditing"} -> EnterAuditing(d, err)

\* A message processor is done with its message.
Released(by) == IF by = "proc" THEN [proc EXCEPT !.busy = @ - 1, !.loop = @ + 1] ELSE proc

\* The FSM takes or rejects an event; base are the other pending ones.  With
\* err the request of the callback cannot be sent.
Transition(ev, by, base, err) ==
  /\ cb = NoCb
  /\ IF ul \in DOMAIN Table[ev]
     THEN LET d == Table[ev][ul]
              e == Enter(d, by, err)
          IN /\ err => Enter(d, by, FALSE).send # <<>>
             /\ ul' = d /\ cb' = e.cb /\ pend' = base \cup e.post
             /\ proc' = [(IF e.cb = NoCb THEN Released(by) ELSE proc) EXCEPT !.new = @ + e.new]
             /\ sent' = e.sent \o e.send
             /\ last' = e.last /\ up' = e.up /\ dev' = e.dev /\ cfg' = e.cfg
             /\ audits' = [audits EXCEPT !.timers = @ + e.timer]
     ELSE /\ ~err /\ pend' = base /\ proc' = Released(by)
          /\ UNCHANGED <<ul, cb, sent, last, up, dev, cfg, audits>>
  /\ IF err THEN Disturb(IF pend' = base THEN "sendErrIgnored" ELSE "sendErr")
            ELSE UNCHANGED used

Fire ==
  \E e \in pend, err \in BOOLEAN :
    /\ Transition(e.ev, e.by, pend \ {e}, err)
    /\ UNCHANGED <<chan, back, img, mds, dh, flow>>

-----------------------------------------------------------------------------
(* Callbacks that wait.                                                    *)

CallbackEnds(at) ==
  /\ cb.at = at /\ cb' = NoCb
  /\ proc' = Released(cb.by)
  /\ dh' = IF cb.by = "dh" THEN "up" ELSE dh

\* The result of the test only selects the message format.
TestingEnds ==
  /\ CallbackEnds("test")
  /\ pend' = pend \cup {Go("GetFirstSwVersion")}
  /\ UNCHANGED <<ul, chan, sent, back, last, up, img, mds, cfg, dev, flow, audits, used>>

\* The template is in the adapter's map or in the KV store, or is to be made
\* from an upload, which then has the mutex until its last answer.  The mutex
\* is the adapter's: all ONUs that look for a template wait for it.  An ONU
\* whose upload was aborted finds its own entry in the map and waits too.
TemplateSearched ==
  \E found \in BOOLEAN :
    /\ CallbackEnds("template") /\ ~up.held
    /\ Len(chan) < ChanCap
    /\ chan' = Append(chan, Signal(IF found THEN "templateOk" ELSE "templateFailed"))
    /\ up' = [up EXCEPT !.db = IF found THEN "template" ELSE "part", !.got = {}, !.held = ~found]
    /\ UNCHANGED <<ul, pend, sent, back, last, img, mds, cfg, dev, flow, audits, used>>

\* getAllStoredTpInstFromParentAdapter
TPsVerified ==
  /\ CallbackEnds("verify")
  /\ \/ pend' = pend \cup {Go("Success")} /\ UNCHANGED used
     \/ Disturb("restore") /\ pend' = pend \cup {Go("Mismatch")}
  /\ UNCHANGED <<ul, chan, sent, back, last, up, img, mds, cfg, dev, flow, audits>>

\* The MIB is restored from a template (getMibFromTemplate, which needs the
\* mutex); the techprofiles then lead to the flows, or reconciling ends because
\* there are none or one is rejected.
RestoreFails ==
  /\ CallbackEnds("restore") /\ ~up.held /\ Disturb("restore")
  /\ pend' = pend \cup {Go("Mismatch")}
  /\ UNCHANGED <<ul, chan, sent, back, last, up, img, mds, cfg, dev, flow, audits>>

RestoreEndsWithoutFlows ==
  /\ CallbackEnds("restore") /\ ~up.held /\ Disturb("restore")
  /\ up' = [up EXCEPT !.db = "template"]
  /\ dev' = [dev EXCEPT !.recon = "no", !.ready = TRUE]
  /\ UNCHANGED <<ul, pend, chan, sent, back, last, img, mds, cfg, flow, audits>>

RestoreTPs ==
  /\ cb.at = "restore" /\ ~up.held
  /\ cb' = [cb EXCEPT !.at = "flows"] /\ flow' = TRUE
  /\ up' = [up EXCEPT !.db = "template"]
  /\ dev' = [dev EXCEPT !.recon = StartReconciling(TRUE), !.ready = TRUE]
  /\ UNCHANGED <<ul, pend, proc, chan, sent, back, last, img, mds, cfg, dh, audits, used>>

\* ReconcileDeviceFlowConfig: the flows are rebuilt and the waiting goroutine
\* is told; without flows it is not told.
FlowsReconciled ==
  /\ CallbackEnds("flows")
  /\ \/ /\ UNCHANGED used
        /\ flow' = FALSE /\ dev' = [dev EXCEPT !.recon = "no", !.service = TRUE]
        /\ pend' = IF flow THEN pend \cup {Go("Success")} ELSE pend
     \/ /\ Disturb("restore") /\ UNCHANGED pend
        /\ flow' = FALSE /\ dev' = [dev EXCEPT !.recon = "no"]
     \/ /\ Disturb("restore") /\ UNCHANGED <<flow, pend>>
        /\ dev' = [dev EXCEPT !.recon = "no"]
  /\ UNCHANGED <<ul, chan, sent, back, last, up, img, mds, cfg, audits>>

FlowExpiry ==
  /\ flow /\ (cb.at = "flows" => Disturb("expiry")) /\ (cb.at # "flows" => UNCHANGED used)
  /\ flow' = FALSE /\ pend' = pend \cup {Go("Mismatch")}
  /\ UNCHANGED <<ul, cb, proc, chan, sent, back, last, up, img, mds, cfg, dev, dh, audits>>

-----------------------------------------------------------------------------
(* The message processor.                                                  *)

ProcStarts ==
  /\ proc.new > 0
  /\ dh \notin {"cancel", "stop"}     \* CancelProcessing holds the flag's lock
  /\ proc' = [proc EXCEPT !.new = @ - 1, !.loop = @ + 1, !.running = TRUE]
  /\ UNCHANGED <<ul, cb, pend, chan, sent, back, last, up, img, mds, cfg, dev, dh,
                 flow, audits, used>>

Take == proc.loop > 0 /\ cb = NoCb /\ chan # <<>> /\ chan' = Tail(chan)
Message == Head(chan)
Is(req) == chan # <<>> /\ Message.req = req

\* A handler that fires an event waits until it is taken.
Post(ev) ==
  /\ [ev |-> ev, by |-> "proc"] \notin pend
  /\ pend' = pend \cup {[ev |-> ev, by |-> "proc"]}
  /\ proc' = [proc EXCEPT !.loop = @ - 1, !.busy = @ + 1]

NoEvent == UNCHANGED <<pend, proc>>

\* AbortMessageProcessing clears the flag, a timeout does not.
RxSignalEnds ==
  /\ Take /\ Message.req \in {"abort", "timeout"}
  /\ Is("abort") => dh \notin {"cancel", "stop"}
  /\ proc' = [proc EXCEPT !.loop = @ - 1,
                          !.running = IF Is("abort") THEN FALSE ELSE @]
  /\ pend' = pend \cup {Go("Stop")}
  /\ UNCHANGED <<ul, cb, sent, back, last, up, img, mds, cfg, dev, dh, flow, audits, used>>

HandleTestMsg ==
  /\ Take /\ Message.req \in {"templateOk", "templateFailed"}
  /\ Post(IF Is("templateOk") THEN "Success" ELSE "UploadMib")
  /\ UNCHANGED <<ul, cb, sent, back, last, up, img, mds, cfg, dev, dh, flow, audits, used>>

\* A reset response outside of ResettingMib may be the repeated answer to a
\* reset of the past; the get request is then sent once more.
HandleMibResetResponse ==
  /\ Take /\ Is("reset")
  /\ IF ul = "ResettingMib"
     THEN /\ IF Message.res = "ok"
             THEN mds' = [mds EXCEPT !.adpt = 0] /\ Post("GetVendorAndSerial")
             ELSE UNCHANGED mds /\ Post("Stop")
          /\ UNCHANGED <<sent, last, used>>
     ELSE /\ UNCHANGED mds
          /\ IF last.type = "get" /\ last.rep = 0
             THEN \/ /\ sent' = Append(sent, Request("mds", 1)) /\ last' = [last EXCEPT !.rep = 1]
                     /\ NoEvent /\ UNCHANGED used
                  \/ Disturb("sendErr") /\ Post("Stop") /\ UNCHANGED <<sent, last>>
             ELSE NoEvent /\ UNCHANGED <<sent, last, used>>
  /\ UNCHANGED <<ul, cb, back, up, img, cfg, dev, dh, flow, audits>>

\* SendMibUploadNext; its error is ignored.
SendMibUploadNext(u) ==
  /\ up' = [u EXCEPT !.seq = @ + 1]
  /\ last' = [last EXCEPT !.type = "next"]
  /\ \/ sent' = Append(sent, Request("next", u.seq)) /\ UNCHANGED used
     \/ Disturb("sendErrIgnored") /\ UNCHANGED sent

HandleMibUploadResponse ==
  /\ Take /\ Is("upload")
  /\ LET u == [up EXCEPT !.cmds = Message.val] IN
     IF u.seq < u.cmds
     THEN SendMibUploadNext(u) /\ NoEvent
     ELSE up' = u /\ Post("Timeout") /\ UNCHANGED <<last, sent, used>>
  /\ UNCHANGED <<ul, cb, back, img, mds, cfg, dev, dh, flow, audits>>

\* Mutant: the sequence number is compared after its increment.
FinishedEarly(u) == ~(u.seq + 1 < u.cmds)

\* The content goes to the ME database if there is one.  The last answer makes
\* a template of the database and unlocks the mutex; the adapter panics if there
\* is no database or the mutex is not locked.  A frame that cannot be decoded is
\* dropped.
Finished(u) == ~(u.seq < u.cmds)

HandleMibUploadNextResponse ==
  /\ Take /\ Is("next")
  /\ LET u == [up EXCEPT !.got = IF up.db = "none" THEN @ ELSE @ \cup {Message.val}] IN
     IF Message.res = "undecodable" THEN NoEvent /\ UNCHANGED <<up, last, sent, dev, used>>
     ELSE IF Finished(u)
     THEN /\ up' = [u EXCEPT !.db = "uploaded", !.held = FALSE]
          /\ dev' = [dev EXCEPT !.panic = @ \/ up.db = "none" \/ ~up.held]
          /\ Post("Success")
          /\ UNCHANGED <<last, sent, used>>
     ELSE SendMibUploadNext(u) /\ NoEvent /\ UNCHANGED dev
  /\ UNCHANGED <<ul, cb, back, img, mds, cfg, dh, flow, audits>>

\* Mutant: the second image is taken as reported.
SwImageIndicationsAsReported(me, active) ==
  IF active THEN [img EXCEPT !.active = me] ELSE [img EXCEPT !.inactive = me]

\* HandleSwImageIndications: the first image decides; the second one gets the
\* complementary state if the two are in conflict.
SwImageIndications(me, active) ==
  IF me = "sw0"
  THEN [active |-> IF active THEN "sw0" ELSE "none", inactive |-> IF active THEN "none" ELSE "sw0"]
  ELSE IF active
  THEN IF img.active # "none" THEN [img EXCEPT !.inactive = "sw1"] ELSE [img EXCEPT !.active = "sw1"]
  ELSE [active |-> IF img.inactive # "none" THEN "sw0" ELSE img.active, inactive |-> "sw1"]

\* Mutant: the audits reject a counter of zero too.
CheckMdsValueNonZero(v) ==
  CASE ul \in {"Auditing", "ReAuditing", "ExaminingMds"} ->
         {IF mds.adpt = v /\ v # 0 THEN "Success" ELSE "Mismatch"}
    [] OTHER -> {}

\* checkMdsValue
CheckMdsValue(v) ==
  LET equal == mds.adpt = v IN
  CASE ul \in {"Auditing", "ReAuditing"} -> {IF equal THEN "Success" ELSE "Mismatch"}
    [] ul = "ExaminingMds" -> {IF equal /\ v # 0 THEN "Success" ELSE "Mismatch"}
    [] OTHER -> {}

\* The event after a successful get response; none for a value that is not
\* expected.
GetResponseEvents(m) ==
  CASE m.req = "onuG"  -> {CASE ul = "GettingVendorAndSerial" -> "GetVersion"
                             [] ul = "GettingVersion" -> "GetEquipIDAndOmcc"
                             [] OTHER -> "Stop"}
    [] m.req = "onu2G" -> {IF m.val = 1 THEN "TestExtOmciSupport" ELSE "GetFirstSwVersion"}
    [] m.req = "sw0"   -> {"GetSecondSwVersion"}
    [] m.req = "sw1"   -> {"GetMacAddress"}
    [] m.req = "mac"   -> {"GetMibTemplate"}
    [] m.req = "mds"   -> CheckMdsValue(m.val)

\* handleOmciGetResponseErrors: an ONU need not have the MAC address.
GetResponseErrorEvents(m) ==
  IF m.res = "unsupported" /\ m.req # last.me THEN {}
  ELSE IF m.res = "unsupported" /\ m.req = "mac" THEN {"GetMibTemplate"} ELSE {"Stop"}

HandleGetResponse ==
  /\ Take /\ \E req \in MEs : Is(req)
  /\ IF last.type # "get" \/ last.me = "none"
     THEN /\ IF last.type = "reset" /\ last.rep = 0
             THEN last' = [last EXCEPT !.rep = 1] /\ sent' = Append(sent, Request("reset", 1))
             ELSE UNCHANGED <<last, sent>>
          /\ NoEvent /\ UNCHANGED img
     ELSE /\ LET events == IF Message.res # "ok" THEN GetResponseErrorEvents(Message)
                           ELSE IF Message.req = last.me THEN GetResponseEvents(Message)
                           ELSE {"Stop"}
             IN IF events = {} THEN NoEvent ELSE \E ev \in events : Post(ev)
          /\ img' = IF Message.res = "ok" /\ Message.req = last.me /\ Message.req \in {"sw0", "sw1"}
                    THEN SwImageIndications(Message.req, Message.val = 1) ELSE img
          /\ UNCHANGED <<last, sent>>
  /\ UNCHANGED <<ul, cb, back, up, mds, cfg, dev, dh, flow, audits, used>>

-----------------------------------------------------------------------------
(* The OMCI channel and the ONU.                                           *)

\* Mutant: the counter wraps around to zero.
IncrementMdsModulo(v) == (v + 1) % (MdsMax + 1)

\* IncrementMibDataSync
IncrementMds(v) == IF v < MdsMax THEN v + 1 ELSE 1

\* The ONU (external) counts the same way.
OnuIncrementMds(v) == (v % MdsMax) + 1

\* The values of a good answer.
AnswerVals(r) ==
  CASE r.req = "mds" -> {mds.onu}
    [] r.req = "upload" -> {NCmds}
    [] r.req = "next" -> {r.n}
    [] r.req \in {"onu2G", "sw0", "sw1"} -> {0, 1}
    [] OTHER -> {0}

\* The ONU handles the requests in the order they were sent; the OMCI channel
\* has one at a time on the air, those of the configuration included.
Reachable == dh \in {"started", "verify", "up", "refused"}

OnuAnswers ==
  /\ Reachable /\ ~cfg.air /\ sent # <<>> /\ sent' = Tail(sent)
  /\ LET r == Head(sent)
         Answer(res, v) == back' = Append(back, [req |-> r.req, res |-> res, val |-> v])
     IN \/ /\ \E v \in AnswerVals(r) : Answer("ok", v)
           /\ mds' = IF r.req = "reset" THEN [mds EXCEPT !.onu = 0] ELSE mds
           /\ dev' = IF r.req = "reset" THEN [dev EXCEPT !.intact = TRUE] ELSE dev
           /\ UNCHANGED used
        \/ /\ \/ r.req = "mac" /\ Answer("unsupported", 0) /\ UNCHANGED used
              \/ r.req \notin {"upload", "next"} /\ Answer("refused", 0) /\ Disturb("refuse")
              \/ r.req = "next" /\ Answer("undecodable", 0) /\ Disturb("undecodable")
              \/ r.req = "upload" /\ Answer("ok", 0) /\ Disturb("zeroCmds")
           /\ UNCHANGED <<mds, dev>>
  /\ UNCHANGED <<ul, cb, pend, proc, chan, last, up, img, cfg, dh, flow, audits>>

\* The supervisor of a request has sent it again, and registered its callback
\* again, although the ONU's answer is on its way: the ONU answers both.  The
\* second conjunct is a bound: an upload has hundreds of commands, and one of
\* two must not be overtaken by its own repeated answers.
OnuRepeats ==
  /\ Reachable /\ ~cfg.air /\ sent # <<>> /\ Head(sent).sup /\ Disturb("repeat")
  /\ used.n + 1 < NCmds
  /\ \E v \in AnswerVals(Head(sent)) :
       back' = Append(back, [req |-> Head(sent).req, res |-> "ok", val |-> v])
  /\ mds' = IF Head(sent).req = "reset" THEN [mds EXCEPT !.onu = 0] ELSE mds
  /\ dev' = [dev EXCEPT !.intact = @ \/ Head(sent).req = "reset", !.clean = FALSE]
  /\ UNCHANGED <<ul, cb, pend, proc, chan, sent, last, up, img, cfg, dh, flow, audits>>

Deliver ==
  /\ back # <<>> /\ Len(chan) < ChanCap
  /\ chan' = Append(chan, Head(back)) /\ back' = Tail(back)
  /\ UNCHANGED <<ul, cb, pend, proc, sent, last, up, img, mds, cfg, dev, dh, flow,
                 audits, used>>

\* Mutant: the FSM is not told.
RequestTimeoutSilent ==
  /\ sent # <<>> /\ Head(sent).sup
  /\ IF Reachable THEN Disturb("timeout") ELSE UNCHANGED used
  /\ sent' = [sent EXCEPT ![1].sup = FALSE]
  /\ UNCHANGED <<ul, cb, pend, proc, chan, back, last, up, img, mds, cfg, dev, dh, flow, audits>>

\* sendWithRxSupervision gives up; with a full channel the FSM is not told.
RequestTimeout ==
  /\ sent # <<>> /\ Head(sent).sup
  /\ IF Reachable THEN Disturb("timeout") ELSE UNCHANGED used
  /\ chan' = IF Len(chan) < ChanCap THEN Append(chan, Signal("timeout")) ELSE chan
  /\ sent' = [sent EXCEPT ![1].sup = FALSE]
  /\ UNCHANGED <<ul, cb, pend, proc, back, last, up, img, mds, cfg, dev, dh, flow, audits>>

\* A request nobody waits for is lost, or answered late.
RequestLost ==
  /\ sent # <<>> /\ ~Head(sent).sup
  /\ sent' = Tail(sent)
  /\ UNCHANGED <<ul, cb, pend, proc, chan, back, last, up, img, mds, cfg, dev, dh,
                 flow, audits, used>>

\* The ONU loses its configuration without the adapter.
OnuDiverges ==
  /\ Disturb("diverge") /\ dev.intact
  /\ \E v \in 0 .. MdsMax \ {mds.onu} : mds' = [mds EXCEPT !.onu = v]
  /\ dev' = [dev EXCEPT !.intact = FALSE]
  /\ UNCHANGED <<ul, cb, pend, proc, chan, sent, back, last, up, img, cfg, dh, flow, audits>>

\* A configuration FSM runs while the MIB is in sync.
ConfigStarts ==
  /\ dev.ready /\ ~cfg.run /\ cfg.n < MaxConfig
  /\ ul \in {"InSync", "Auditing", "ReAuditing"}
  /\ cfg' = [cfg EXCEPT !.run = TRUE]
  /\ dev' = [dev EXCEPT !.touched = TRUE]
  /\ UNCHANGED <<ul, cb, pend, proc, chan, sent, back, last, up, img, mds, dh, flow,
                 audits, used>>

OnuExecutes ==
  /\ Reachable /\ cfg.run /\ ~cfg.air /\ cfg.n < MaxConfig /\ back = <<>>
  /\ cfg' = [cfg EXCEPT !.air = TRUE, !.n = @ + 1]
  /\ mds' = [mds EXCEPT !.onu = OnuIncrementMds(@)]
  /\ UNCHANGED <<ul, cb, pend, proc, chan, sent, back, last, up, img, dev, dh, flow,
                 audits, used>>

ConfigResponse ==
  /\ cfg.air
  /\ cfg' = [cfg EXCEPT !.air = FALSE]
  /\ mds' = [mds EXCEPT !.adpt = IncrementMds(@)]
  /\ UNCHANGED <<ul, cb, pend, proc, chan, sent, back, last, up, img, dev, dh, flow,
                 audits, used>>

ConfigEnds ==
  /\ cfg.run /\ ~cfg.air
  /\ cfg' = [cfg EXCEPT !.run = FALSE]
  /\ dev' = [dev EXCEPT !.service = TRUE]
  /\ UNCHANGED <<ul, cb, pend, proc, chan, sent, back, last, up, img, mds, dh, flow,
                 audits, used>>

AuditTimer ==
  /\ audits.timers > 0
  /\ audits' = [timers |-> audits.timers - 1, n |-> audits.n + 1]
  /\ pend' = pend \cup {Go("AuditMib")}
  /\ UNCHANGED <<ul, cb, proc, chan, sent, back, last, up, img, mds, cfg, dev, dh, flow, used>>

-----------------------------------------------------------------------------
(* The device handler.                                                     *)

\* processMibDatabaseSyncEvent: the ONU is provisioned anew.
ProcessMibDatabaseSync ==
  /\ dev.note
  /\ dev' = [dev EXCEPT !.note = FALSE, !.raise = FALSE, !.ready = TRUE, !.blank = FALSE]
  /\ UNCHANGED <<ul, cb, pend, proc, chan, sent, back, last, up, img, mds, cfg, dh, flow,
                 audits, used>>

\* The watcher started by StartReconciling: the ONU has got its configuration
\* again, or reconcileExpiryComplete is over.
ReconcilingEnds ==
  /\ dev.recon = "omci" /\ dev.ready
  /\ \/ dev.state = "sync" /\ ~dev.note /\ UNCHANGED used /\ dev' = [dev EXCEPT !.recon = "no", !.service = TRUE]
     \/ Disturb("expiry") /\ dev' = [dev EXCEPT !.recon = "no"]
  /\ UNCHANGED <<ul, cb, pend, proc, chan, sent, back, last, up, img, mds, cfg, dh, flow, audits>>

\* An assumption on time: an ONU needs longer to go down or to come up again
\* than a goroutine needs to start or, ready to run, for its step.
Settled ==
  /\ pend = {} /\ cb = NoCb /\ proc.new = 0 /\ proc.busy = 0
  /\ proc.loop = 0 \/ chan = <<>>
  /\ back = <<>> \/ Len(chan) = ChanCap
  /\ ~dev.note

\* CheckAndStartMibUploadFsm: an FSM that is not disabled is left alone.
OnuUp ==
  /\ dh = "off" /\ Settled
  /\ IF ul = "Disabled"
     THEN Transition("Start", "dh", pend, FALSE) /\ dh' = "started"
     ELSE dh' = "refused" /\ UNCHANGED <<ul, cb, pend, proc, sent, last, up, dev, cfg, audits, used>>
  /\ UNCHANGED <<chan, back, img, mds, flow>>

FirstEvent ==
  \E err \in BOOLEAN :
    LET ev == IF dev.synced THEN "VerifyAndStoreTPs" ELSE "ResetMib" IN
    /\ dh = "started"
    /\ Transition(ev, "dh", pend, err)
    /\ dh' = IF cb' = NoCb THEN "up" ELSE "verify"
    /\ UNCHANGED <<chan, back, img, mds, flow>>

\* resetFsms begins: the OMCI channel forgets its requests, and the goroutine
\* that waits for flows is told to end.
OnuDown ==
  /\ dh \in {"up", "refused"} /\ proc.new = 0 /\ Disturb("down")
  /\ sent' = CancelMonitoring
  /\ dev' = [dev EXCEPT !.raise = FALSE]
  /\ flow' = FALSE
  /\ dh' = IF proc.running THEN "cancel" ELSE "clear"
  /\ UNCHANGED <<ul, cb, pend, proc, chan, back, last, up, img, mds, cfg, audits>>

\* CancelProcessing: the abort message, which waits for room in the channel,
\* and then the stop event.
CancelAborts ==
  /\ dh = "cancel" /\ Len(chan) < ChanCap
  /\ chan' = Append(chan, Signal("abort")) /\ dh' = "stop"
  /\ UNCHANGED <<ul, cb, pend, proc, sent, back, last, up, img, mds, cfg, dev, flow, audits, used>>

CancelStopsFsm ==
  /\ dh = "stop"
  /\ Transition("Stop", "dh", pend, FALSE)
  /\ dh' = "clear"
  /\ UNCHANGED <<chan, back, img, mds, flow>>

\* The rest of resetFsms and of UpdateInterface: the adapter forgets the ONU.
UpdateInterface ==
  /\ dh = "clear" /\ dh' = "off"
  /\ dev' = [dev EXCEPT !.recon = "no", !.synced = FALSE, !.state = "init", !.ready = FALSE,
                         !.service = FALSE, !.intact = FALSE]
  /\ cfg' = [cfg EXCEPT !.run = FALSE, !.air = FALSE]
  /\ mds' = [mds EXCEPT !.adpt = 0]
  /\ UNCHANGED <<ul, cb, pend, proc, chan, sent, back, last, up, img, flow, audits, used>>

-----------------------------------------------------------------------------
Callbacks ==
  \/ TestingEnds \/ TemplateSearched \/ TPsVerified \/ RestoreFails
  \/ RestoreEndsWithoutFlows \/ RestoreTPs \/ FlowsReconciled

Processor ==
  \/ ProcStarts \/ RxSignalEnds \/ HandleTestMsg \/ HandleMibResetResponse
  \/ HandleMibUploadResponse \/ HandleMibUploadNextResponse \/ HandleGetResponse

Timers == FlowExpiry \/ AuditTimer

Requests == OnuAnswers \/ RequestTimeout \/ RequestLost \/ Deliver

DeviceHandler ==
  \/ ProcessMibDatabaseSync \/ ReconcilingEnds \/ OnuUp \/ FirstEvent \/ CancelAborts
  \/ CancelStopsFsm \/ UpdateInterface

Configuration == ConfigStarts \/ OnuExecutes \/ ConfigResponse \/ ConfigEnds

Next == \/ Fire \/ Callbacks \/ Processor \/ Timers \/ Requests \/ DeviceHandler
        \/ Configuration \/ OnuDiverges \/ OnuRepeats \/ OnuDown

\* Goroutines run, the FSM is free once its callback has ended, timers run out,
\* a request ends by an answer or by its supervision, and an ONU that went down
\* comes back: something of this happens as long as it can.
Fairness ==
  WF_vars(Fire \/ Callbacks \/ Processor \/ Timers \/ Requests \/ DeviceHandler \/ ConfigResponse)

Spec == Init /\ [][Next]_vars /\ Fairness

-----------------------------------------------------------------------------
(* Properties.                                                             *)

\* A MIB upload that counts as done has all of the ONU's MIB: every command of
\* the upload was received exactly for this run, or a template stands for it;
\* a database nobody created is never finished and a mutex nobody locked never
\* unlocked (HandleMibUploadNextResponse).  Repeated answers are counted for
\* commands that were not received: AskedInTurn.
UploadComplete ==
  dev.clean =>
    /\ ul = "UploadDone" => \/ up.db = "template"
                            \/ up.db = "uploaded" /\ up.got = 0 .. NCmds - 1
    /\ ~dev.panic

\* When the template is looked for, by the version of the active image, the
\* two software images have complementary roles, whatever the ONU reports
\* (HandleSwImageIndications).
ImagesDistinct ==
  dev.clean /\ ul = "GettingMibTemplate" => {img.active, img.inactive} = {"sw0", "sw1"}

\* The counters agree while the MIB is in sync, no configuration runs and the
\* ONU still is as the adapter left it: an audit then finds no mismatch
\* (IncrementMibDataSync, MIB reset, wrap around of the counter).
InSyncSound ==
  ul = "InSync" /\ dev.clean /\ dev.intact /\ ~dev.midway /\ ~cfg.run => mds.adpt = mds.onu

\* The second audit ends in a MIB reset, which interrupts user traffic, only if
\* the ONU has diverged, a configuration ran into the audit, or an earlier
\* reset ran into reconciling.
AuditSound ==
  [][ul = "ReAuditing" /\ ul' = "ResettingMib" =>
        ~dev.intact \/ dev.touched \/ dev.midway \/ ~dev.clean]_vars

\* An ONU that lost its configuration by a MIB reset is not taken for
\* synchronised unless its provisioning is under way: the device handler gets
\* a new MibDatabaseSync although it has seen one before (devState).
Reprovisioned ==
  ul = "InSync" /\ dev.blank /\ dev.clean /\ ~dev.midway => dev.note

\* An upload that gives up on its own, the ONU being up, is reported as failed
\* unless the MIB was known before (raiseMibUploadFailureEvent).
GiveUpIsReported ==
  [][ul # "Disabled" /\ ul' = "Disabled" /\ dh = "up" /\ ~dev.synced =>
        dev.raise \/ (ul = "UploadDone" /\ ~dev.clean)]_vars

\* The processor itself searches for the template, and its result finds no
\* room in CommChan, which only the processor reads, for answers that were
\* repeated.
SelfBlocked ==
  ~dev.clean /\ cb = [at |-> "template", by |-> "proc"] /\ Len(chan) = ChanCap

\* Where a synchronisation may stay: in sync, given up, or waiting for flows
\* that cannot be restored.
Rest == {"Disabled", "InSync", "ExaminingMdsSuccess"}

\* A synchronisation begun with nothing left of an earlier run comes to rest,
\* unless one of the Ignored errors hits it or repeated answers block the
\* processor, and the loss of the ONU at any point of it is handled to the end:
\* the abort message finds room in CommChan although its reader may be gone
\* after a timeout, and the callback in the way of the stop event ends.
SyncEnds ==
  dev.clean /\ (dh = "cancel" \/ (dh = "up" /\ ul \notin Rest)) ~>
    dh = "off" \/ SelfBlocked \/ (dh = "up" /\ (ul \in Rest \/ used.ignored))

\* A command of the upload is only asked for when all before it were received:
\* the state machine sends the next message of its procedure when it has the
\* response to the last one (handleOmciMibUploadNextResponseMessage).
AskedInTurn ==
  [][up'.seq = up.seq + 1 => 0 .. up.seq - 1 \subseteq up'.got]_vars

\* The search for a MIB template comes to an end, whatever FSM was aborted by
\* an earlier loss of the ONU (resetFsms, enterGettingMibTemplateState).
SearchEnds == cb.at = "template" ~> cb.at # "template"

=============================================================================
