---------------------------- MODULE AlarmManager ----------------------------
(***************************************************************************)
(* The alarm manager of one ONU (internal/pkg/almgr/alarm_manager.go) with *)
(* its start and stop by the device handler (StartAlarmManager).           *)
(*                                                                         *)
(* The ONU (external) sends a notification with a sequence number for each *)
(* change of the alarms of a managed entity.  An audit asks the ONU for    *)
(* all alarms; both sides then count from zero again.  Notifications that  *)
(* are missing show as a gap in the sequence numbers.                      *)
(*                                                                         *)
(* The FSM library holds its lock while an enter callback runs.  Those of  *)
(* Starting and InSync wait inside of the event, for a timer, a stop       *)
(* signal or a request for the active alarms: "cb" is the place.  "pend"   *)
(* are goroutines with an event that waits for the FSM.                    *)
(***************************************************************************)
EXTENDS Integers, Sequences, FiniteSets, SequencesExt

CONSTANTS
  MEs,         \* managed entities with alarms
  Known,       \* those of the uploaded MIB
  Alarms,      \* alarm numbers of a managed entity
  SeqMax,      \* largest alarm sequence number, 255
  MaxChange,   \* bound on the changes of alarms by the ONU
  MaxAudit,    \* bound on expirations of the audit timer
  MaxRequest,  \* bound on requests for the active alarms
  MaxLife,     \* bound on starts of the alarm manager
  MaxDisturb,  \* bound on disturbances
  Kinds        \* lost notification, failure to send, no answer

ASSUME AlarmManagerAssumption ==
  /\ Known \subseteq MEs /\ IsFiniteSet(MEs) /\ IsFiniteSet(Alarms)
  /\ SeqMax \in Nat \ {0}
  /\ {MaxChange, MaxAudit, MaxRequest, MaxLife, MaxDisturb} \subseteq Nat
  /\ Kinds \subseteq {"lost", "sendErr", "timeout"}

VARIABLES
  as,      \* current state of AlarmSyncFsm
  cb,      \* where an enter callback waits: [at, audit timer is on]
  pend,    \* events on their way to the FSM
  loop,    \* number of goroutines processAlarmSyncMessages
  am,      \* members of OnuAlarmManager
  active,  \* activeAlarms of each managed entity
  db,      \* alarmBitMapDB
  copy,    \* oltDbCopy and onuDBCopy
  buf,     \* bufferedNotifications
  sent,    \* requests the ONU has not answered
  back,    \* answers on their way to eventChannel
  notif,   \* notifications on their way
  onu,     \* the ONU
  req,     \* GetOnuActiveAlarms and the failed goroutines of InSync
  dh,      \* the device handler's procedure, and blocked StopAlarmAuditTimer
  n,       \* what the bounds count
  hist     \* for the properties, see TypeOK

vars == <<as, cb, pend, loop, am, active, db, copy, buf, sent, back, notif, onu, req,
          dh, n, hist>>

-----------------------------------------------------------------------------
States == {"Disabled", "Starting", "Auditing", "InSync", "Resynchronizing"}

\* The FSM's table.  An event whose next state is the current one calls no
\* callback: see Transition.
Table ==
  [Start   |-> [s \in {"Disabled"} |-> "Starting"],
   Audit   |-> [s \in {"Starting", "InSync"} |-> "Auditing"],
   Sync    |-> [s \in {"Starting"} |-> "InSync"],
   Success |-> [s \in {"Auditing", "Resynchronizing"} |-> "InSync"],
   Failure |-> [s \in {"Auditing", "Resynchronizing"} |-> "Auditing"],
   Resync  |-> [s \in {"Auditing"} |-> "Resynchronizing"],
   Stop    |-> [s \in States |-> "Disabled"]]

\* The event of a waiting goroutine; audits are told apart by their cause.
Causes == {"Timer", "Early", "Async"}
EventOf(p) == IF p \in Causes THEN "Audit" ELSE p

Bitmaps == SUBSET Alarms
DBs == UNION {[S -> Bitmaps] : S \in SUBSET MEs}
NoDB == [m \in {} |-> {}]
Notifications == [me : MEs, bits : Bitmaps, seq : 0 .. SeqMax, nth : 1 .. MaxChange]
Requests == [type : {"all", "next"}, no : Nat]
Reports == [type : {"all"}, cmds : Nat] \cup [type : {"next"}, me : MEs, bits : Bitmaps]

TypeOK ==
  /\ as \in States
  /\ cb \in {"none", "timer", "select", "answer"}
  /\ pend \subseteq Causes \cup {"Sync", "Success", "Failure", "Resync", "Stop"}
  /\ loop \in 0 .. 1
  /\ am \in [process : BOOLEAN, last : 0 .. SeqMax, upSeq : Nat, upCmds : Nat,
             async : BOOLEAN, audit : BOOLEAN]
  /\ active \in [MEs -> Bitmaps] /\ db \in DBs
  /\ copy \in [olt : DBs, onu : DBs]
  /\ buf \in Seq(Notifications)
  /\ sent \in Seq(Requests) /\ Len(sent) <= 1
  /\ back \in Seq(Reports) /\ Len(back) <= 1
  /\ notif \subseteq Notifications
  /\ onu \in [alarms : [MEs -> Bitmaps], seq : 0 .. SeqMax, snap : Seq(MEs), shot : [MEs -> Bitmaps]]
  /\ req \in [at : {"idle", "sending", "waiting"}, failed : 0 .. MaxRequest]
  /\ dh \in [at : {"off", "up", "stop"}, timers : 0 .. 1]
  /\ n \in [change : 0 .. MaxChange, audit : 0 .. MaxAudit, request : 0 .. MaxRequest,
            life : 0 .. MaxLife, disturb : 0 .. MaxDisturb]
  \* an audit of this life succeeded; every notification since the ONU's last
  \* reset of its number was applied in order; how many of them were not
  \* applied; an audit can no longer end
  /\ hist \in [audited : BOOLEAN, regular : BOOLEAN, missed : 0 .. MaxChange, stuck : BOOLEAN]

Init ==
  /\ as = "Disabled" /\ cb = "none" /\ pend = {} /\ loop = 0
  /\ \E audit \in BOOLEAN :
       am = [process |-> FALSE, last |-> 0, upSeq |-> 0, upCmds |-> 0, async |-> FALSE,
             audit |-> audit]
  /\ active = [m \in MEs |-> {}] /\ db = NoDB /\ copy = [olt |-> NoDB, onu |-> NoDB]
  /\ buf = <<>> /\ sent = <<>> /\ back = <<>> /\ notif = {}
  /\ onu = [alarms |-> [m \in MEs |-> {}], seq |-> 0, snap |-> <<>>, shot |-> [m \in MEs |-> {}]]
  /\ req = [at |-> "idle", failed |-> 0] /\ dh = [at |-> "off", timers |-> 0]
  /\ n = [change |-> 0, audit |-> 0, request |-> 0, life |-> 0, disturb |-> 0]
  /\ hist = [audited |-> FALSE, regular |-> FALSE, missed |-> 0, stuck |-> FALSE]

Disturb(k) == k \in Kinds /\ n.disturb < MaxDisturb /\ n' = [n EXCEPT !.disturb = @ + 1]

-----------------------------------------------------------------------------
(* Applying a notification (processAlarmData).                             *)

\* Mutant: the number goes on from zero.
NextSeqFromZero(s) == (s + 1) % (SeqMax + 1)

\* incrementAlarmSequence; the ONU (external) counts alike.
NextSeq(s) == IF s = SeqMax THEN 1 ELSE s + 1

OnuNextSeq(s) == (s % SeqMax) + 1

\* raiseAlarm and clearAlarm for each supported alarm: the active alarms
\* become those of the bitmap; the entry of an entity whose last alarm is
\* cleared is removed.
Applied(a, d, m, bits) ==
  LET dropped == bits = {} /\ a[m] # {}
      rest == IF dropped THEN DOMAIN d \ {m} ELSE DOMAIN d \cup {m}
  IN [active |-> [a EXCEPT ![m] = bits],
      db |-> [x \in rest |-> IF x = m THEN bits ELSE d[x]]]

\* The same for each known entity of a set, the bitmaps given by f.
AppliedAll(S, f) ==
  LET known == S \cap Known
      rest == (DOMAIN db \cup known) \ {m \in known : f[m] = {} /\ active[m] # {}}
  IN [active |-> [m \in MEs |-> IF m \in known THEN f[m] ELSE active[m]],
      db |-> [m \in rest |-> IF m \in known THEN f[m] ELSE db[m]]]

-----------------------------------------------------------------------------
(* Events and the enter callbacks: what a callback sends, where it waits,  *)
(* the events it starts and the tables it changes.                         *)

Keep == [cb |-> "none", post |-> {}, loop |-> 0, sent |-> sent, am |-> am, copy |-> copy,
         buf |-> buf, tables |-> [active |-> active, db |-> db]]

\* asFsmStarting: the first audit follows a short time after the start.
EnterStarting ==
  [Keep EXCEPT !.loop = 1, !.cb = IF am.audit THEN "timer" ELSE "none",
               !.post = IF am.audit THEN {} ELSE {"Sync"}]

\* SendGetAllAlarm
SendGetAllAlarm(e) ==
  [e EXCEPT !.sent = <<[type |-> "all", no |-> 0]>>, !.am.upSeq = 0, !.am.upCmds = 0]

\* asFsmAuditing
EnterAuditing(err) ==
  LET e == [Keep EXCEPT !.buf = <<>>, !.copy = [olt |-> NoDB, onu |-> NoDB]]
  IN IF err THEN [e EXCEPT !.post = {"Failure"}] ELSE SendGetAllAlarm(e)

\* Mutant: what the ONU reports for an entity the adapter knows no alarms of
\* is not taken over.
DifferencesKnownOnly ==
  LET both == {m \in DOMAIN copy.onu \cap DOMAIN copy.olt : copy.onu[m] # copy.olt[m]}
      oltOnly == DOMAIN copy.olt \ DOMAIN copy.onu
      new == [m \in both \cup oltOnly |-> IF m \in oltOnly THEN copy.olt[m] ELSE copy.onu[m]]
  IN AppliedAll(DOMAIN new, new)

\* processOnuOnlyDifferences, processOltOnlyDifferences and
\* processAttributeDifferences; what only the adapter has is applied with the
\* adapter's own bitmap.
Differences ==
  LET both == {m \in DOMAIN copy.onu \cap DOMAIN copy.olt : copy.onu[m] # copy.olt[m]}
      onuOnly == DOMAIN copy.onu \ DOMAIN copy.olt
      oltOnly == DOMAIN copy.olt \ DOMAIN copy.onu
      new == [m \in both \cup onuOnly \cup oltOnly |->
                IF m \in oltOnly THEN copy.olt[m] ELSE copy.onu[m]]
  IN AppliedAll(DOMAIN new, new)

\* asFsmResynchronizing: a stopped alarm manager refuses the data, and nothing
\* follows.  The buffered notifications have sequence numbers, and in this
\* state those are put into the buffer again.
EnterResynchronizing ==
  IF am.process
  THEN [Keep EXCEPT !.tables = Differences, !.buf = buf \o buf, !.post = {"Success"}]
  ELSE Keep

\* asFsmInSync: a request for the active alarms is answered first.
EnterInSync == [Keep EXCEPT !.cb = IF am.async THEN "answer" ELSE "select"]

Enter(d, err) ==
  CASE d = "Starting"        -> EnterStarting
    [] d = "Auditing"        -> EnterAuditing(err)
    [] d = "Resynchronizing" -> EnterResynchronizing
    [] d = "InSync"          -> EnterInSync
    [] d = "Disabled"        -> Keep

\* The FSM takes or rejects an event.
Transition(p, err) ==
  LET ev == EventOf(p)
      taken == as \in DOMAIN Table[ev] /\ Table[ev][as] # as
      d == Table[ev][as]
      e == Enter(d, err)
  IN /\ cb = "none"
     /\ IF taken
        THEN /\ as' = d /\ cb' = e.cb /\ loop' = loop + e.loop
             /\ pend' = (pend \ {p}) \cup e.post
             /\ sent' = e.sent /\ am' = e.am /\ copy' = e.copy /\ buf' = e.buf
             /\ active' = e.tables.active /\ db' = e.tables.db
             /\ req' = req
             /\ IF err THEN d = "Auditing" /\ Disturb("sendErr") ELSE UNCHANGED n
             /\ hist' = [hist EXCEPT !.audited = @ \/ (d = "InSync" /\ as # "Starting"),
                                     !.stuck = (@ \/ err) /\ ev # "Stop"]
        \* a rejected audit for a request ends the request
        ELSE /\ ~err /\ pend' = pend \ {p}
             /\ am' = IF p = "Async" THEN [am EXCEPT !.async = FALSE] ELSE am
             /\ req' = IF p = "Async" THEN [req EXCEPT !.failed = @ + 1] ELSE req
             /\ UNCHANGED <<as, cb, loop, sent, copy, buf, active, db, n, hist>>

Fire ==
  \E p \in pend, err \in BOOLEAN :
    /\ Transition(p, err)
    /\ UNCHANGED <<back, notif, onu, dh>>

\* The timers of Starting and InSync.
AuditTimer ==
  /\ \/ cb = "timer"
     \/ cb = "select" /\ am.audit /\ n.audit < MaxAudit
  /\ cb' = "none" /\ pend' = pend \cup {"Timer"}
  /\ n' = IF cb = "select" THEN [n EXCEPT !.audit = @ + 1] ELSE n
  /\ UNCHANGED <<as, loop, am, active, db, copy, buf, sent, back, notif, onu, req, dh, hist>>

-----------------------------------------------------------------------------
(* The message loop and the audit.                                         *)

\* Mutant: the event of Starting is used.
ComparedSync(c) == IF c.onu = c.olt THEN "Sync" ELSE "Resync"

\* The comparison ends an audit (isAlarmDBDiffPresent).
Compared(c) == IF c.onu = c.olt THEN "Success" ELSE "Resync"

\* SendGetAllAlarmNext, or the failure event, which is none in Auditing.
SendGetAllAlarmNext(a) ==
  \/ /\ sent' = <<[type |-> "next", no |-> a.upSeq]>>
     /\ am' = [a EXCEPT !.upSeq = @ + 1]
     /\ UNCHANGED <<pend, n, hist>>
  \/ /\ Disturb("sendErr") /\ pend' = pend \cup {"Failure"}
     /\ am' = [a EXCEPT !.upSeq = @ + 1] /\ hist' = [hist EXCEPT !.stuck = TRUE]
     /\ UNCHANGED sent

Receive(type) == loop > 0 /\ back # <<>> /\ Head(back).type = type /\ back' = Tail(back)

\* handleOmciGetAllAlarmsResponseMessage
GetAllAlarmsResponse ==
  /\ Receive("all") /\ as # "Disabled"
  /\ LET cmds == Head(back).cmds
         a == [am EXCEPT !.upCmds = cmds, !.last = 0]
     IN /\ cmds = 0 \/ a.upSeq < cmds
        /\ copy' = [copy EXCEPT !.olt = [m \in DOMAIN @ \cup DOMAIN db |-> IF m \in DOMAIN db THEN db[m] ELSE @[m]]]
        /\ IF cmds = 0
           THEN /\ pend' = pend \cup {Compared(copy')} /\ am' = a /\ UNCHANGED <<sent, n, hist>>
           ELSE SendGetAllAlarmNext(a)
  /\ UNCHANGED <<as, cb, loop, active, db, buf, notif, onu, req, dh>>

ResponseWhenDisabled ==
  /\ Receive("all") /\ as = "Disabled"
  /\ UNCHANGED <<as, cb, pend, loop, am, active, db, copy, buf, sent, notif, onu, req, dh, n, hist>>

\* handleOmciGetAllAlarmNextResponseMessage
GetAllAlarmNextResponse ==
  /\ Receive("next")
  /\ copy' = [copy EXCEPT !.onu = [m \in DOMAIN @ \cup {Head(back).me} |->
                                     IF m = Head(back).me THEN Head(back).bits ELSE @[m]]]
  /\ IF am.upSeq < am.upCmds
     THEN SendGetAllAlarmNext(am)
     ELSE pend' = pend \cup {Compared(copy')} /\ UNCHANGED <<sent, am, n, hist>>
  /\ UNCHANGED <<as, cb, loop, active, db, buf, notif, onu, req, dh>>

-----------------------------------------------------------------------------
(* Notifications: each is handled by a goroutine of its own.               *)

Older(x) == {y \in notif : y.nth < x.nth}
Missed == [hist EXCEPT !.regular = FALSE, !.missed = @ + 1]

HandleNotification ==
  \E x \in notif :
    /\ notif' = notif \ {x}
    /\ IF ~am.process \/ x.me \notin Known
       THEN /\ UNCHANGED <<pend, am, active, db, buf>>
            /\ hist' = Missed
       ELSE IF as \in {"Auditing", "Resynchronizing"}
       THEN /\ buf' = Append(buf, x)
            /\ hist' = Missed
            /\ UNCHANGED <<pend, am, active, db>>
       ELSE /\ am' = [am EXCEPT !.last = NextSeq(@)]
            /\ pend' = IF am.audit /\ x.seq # NextSeq(am.last) THEN pend \cup {"Early"} ELSE pend
            /\ LET t == Applied(active, db, x.me, x.bits) IN active' = t.active /\ db' = t.db
            /\ hist' = [hist EXCEPT !.regular = @ /\ Older(x) = {}]
            /\ UNCHANGED buf
    /\ UNCHANGED <<as, cb, loop, copy, sent, back, onu, req, dh, n>>

NotificationLost ==
  \E x \in notif :
    /\ Disturb("lost") /\ notif' = notif \ {x}
    /\ hist' = Missed
    /\ UNCHANGED <<as, cb, pend, loop, am, active, db, copy, buf, sent, back, onu, req, dh>>

-----------------------------------------------------------------------------
(* The ONU.                                                                *)

OnuChanges ==
  \E m \in MEs : \E bits \in Bitmaps \ {onu.alarms[m]} :
    /\ n.change < MaxChange /\ dh.at = "up"
    /\ n' = [n EXCEPT !.change = @ + 1]
    /\ onu' = [onu EXCEPT !.alarms[m] = bits, !.seq = OnuNextSeq(@)]
    /\ notif' = notif \cup {[me |-> m, bits |-> bits, seq |-> OnuNextSeq(onu.seq), nth |-> n.change + 1]}
    /\ UNCHANGED <<as, cb, pend, loop, am, active, db, copy, buf, sent, back, req, dh, hist>>

\* The ONU handles a request.  Assumption on time: notifications sent before
\* are handled before the answer to the request is.
OnuAnswers ==
  /\ sent # <<>> /\ back = <<>> /\ sent' = <<>>
  /\ LET r == Head(sent)
         snap == SetToSeq({m \in MEs : onu.alarms[m] # {}})
     IN IF r.type = "all"
        THEN /\ notif = {}
             /\ onu' = [onu EXCEPT !.seq = 0, !.snap = snap, !.shot = onu.alarms]
             /\ back' = <<[type |-> "all", cmds |-> Len(snap)]>>
             /\ hist' = [hist EXCEPT !.regular = TRUE, !.missed = 0]
        ELSE /\ back' = <<[type |-> "next", me |-> onu.snap[r.no + 1], bits |-> onu.shot[onu.snap[r.no + 1]]]>>
             /\ UNCHANGED <<onu, hist>>
  /\ UNCHANGED <<as, cb, pend, loop, am, active, db, copy, buf, notif, req, dh, n>>

\* The supervision of the request gives up or is cancelled; the message loop
\* ignores its message.
RequestTimeout ==
  /\ sent # <<>> /\ Disturb("timeout") /\ sent' = <<>>
  /\ hist' = [hist EXCEPT !.stuck = TRUE]
  /\ UNCHANGED <<as, cb, pend, loop, am, active, db, copy, buf, back, notif, onu, req, dh>>

-----------------------------------------------------------------------------
(* GetOnuActiveAlarms.  AsyncAlarmsCommChan has no buffer and is used in   *)
(* both directions.                                                        *)

AlarmsRequested ==
  /\ req.at = "idle" /\ n.request < MaxRequest
  /\ n' = [n EXCEPT !.request = @ + 1]
  /\ req' = [req EXCEPT !.at = "sending"] /\ am' = [am EXCEPT !.async = TRUE]
  /\ UNCHANGED <<as, cb, pend, loop, active, db, copy, buf, sent, back, notif, onu, dh, hist>>

\* The callback of InSync takes the request, or what a failed audit sends.
RequestTaken ==
  /\ cb = "select"
  /\ \/ req.at = "sending" /\ req' = [req EXCEPT !.at = "waiting"]
     \/ req.failed > 0 /\ req' = [req EXCEPT !.failed = @ - 1]
  /\ cb' = "none" /\ pend' = pend \cup {"Async"}
  /\ UNCHANGED <<as, loop, am, active, db, copy, buf, sent, back, notif, onu, dh, n, hist>>

RequestAnswered ==
  /\ req.at = "waiting"
  /\ \/ /\ cb = "answer" /\ cb' = "select"
        /\ am' = [am EXCEPT !.async = FALSE] /\ req' = [req EXCEPT !.at = "idle"]
     \/ /\ req.failed > 0
        /\ req' = [at |-> "idle", failed |-> req.failed - 1] /\ UNCHANGED <<cb, am>>
  /\ UNCHANGED <<as, pend, loop, active, db, copy, buf, sent, back, notif, onu, dh, n, hist>>

\* After 10 seconds the request is answered with what is known.
RequestExpires ==
  /\ req.at = "waiting"
  /\ req' = [req EXCEPT !.at = "idle"] /\ am' = [am EXCEPT !.async = FALSE]
  /\ UNCHANGED <<as, cb, pend, loop, active, db, copy, buf, sent, back, notif, onu, dh, n, hist>>

-----------------------------------------------------------------------------
(* Start and stop.                                                         *)

\* StartOMCIAlarmMessageProcessing: the flush takes what a sender of the past
\* still offers; an FSM that is not disabled is left alone.  Assumption on
\* time: an ONU comes up again after the events of the stop, if none is
\* blocked, and after the end of all supervised requests.
StartAlarmManager ==
  /\ dh.at = "off" /\ n.life < MaxLife /\ loop = 0
  /\ (cb = "none" /\ pend = {}) \/ cb = "answer"
  /\ n' = [n EXCEPT !.life = @ + 1] /\ dh' = [at |-> "up", timers |-> 0]
  /\ IF as = "Disabled"
     THEN /\ as' = "Starting" /\ cb' = EnterStarting.cb /\ pend' = EnterStarting.post
          /\ loop' = 1
     ELSE UNCHANGED <<as, cb, pend, loop>>
  /\ am' = [am EXCEPT !.process = TRUE]
  /\ db' = NoDB /\ back' = <<>> /\ sent' = <<>>
  /\ hist' = [hist EXCEPT !.audited = FALSE, !.regular = FALSE, !.stuck = FALSE]
  /\ UNCHANGED <<active, copy, buf, notif, onu, req>>

\* resetFsms by stopAlarmManager, or DeleteDevice by the device context (both
\* branches of StartAlarmManager do the same), with the requests' monitoring
\* cancelled before: the stop event waits for the FSM, the message loop is
\* told, then the timer.  After a deletion there is no further start.
StopAlarmManager ==
  /\ dh.at = "up"
  /\ dh' = [dh EXCEPT !.at = "stop"] /\ pend' = pend \cup {"Stop"}
  /\ sent' = <<>>
  /\ UNCHANGED <<as, cb, loop, am, active, db, copy, buf, back, notif, onu, req, n, hist>>

\* Mutant: the timer is not told.
StopProcessingNoTimer ==
  /\ dh.at = "stop" /\ loop > 0
  /\ loop' = loop - 1 /\ dh' = [dh EXCEPT !.at = "off"]
  /\ am' = [am EXCEPT !.process = FALSE, !.upSeq = 0, !.upCmds = 0]
  /\ active' = [m \in MEs |-> {}] /\ db' = NoDB
  /\ UNCHANGED <<as, cb, pend, copy, buf, sent, back, notif, onu, req, n, hist>>

\* processAlarmSyncMessages ends.
StopProcessing ==
  /\ dh.at = "stop" /\ loop > 0
  /\ loop' = loop - 1 /\ dh' = [at |-> "off", timers |-> dh.timers + 1]
  /\ am' = [am EXCEPT !.process = FALSE, !.upSeq = 0, !.upCmds = 0]
  /\ active' = [m \in MEs |-> {}] /\ db' = NoDB
  /\ UNCHANGED <<as, cb, pend, copy, buf, sent, back, notif, onu, req, n, hist>>

\* A callback that waits for its timer takes the stop signal.
StopAuditTimer ==
  /\ dh.timers > 0 /\ cb \in {"timer", "select"}
  /\ dh' = [dh EXCEPT !.timers = @ - 1] /\ cb' = "none"
  /\ UNCHANGED <<as, pend, loop, am, active, db, copy, buf, sent, back, notif, onu, req, n, hist>>

-----------------------------------------------------------------------------
Messages == GetAllAlarmsResponse \/ ResponseWhenDisabled \/ GetAllAlarmNextResponse

Request == RequestTaken \/ RequestAnswered \/ RequestExpires

Next ==
  \/ Fire \/ AuditTimer \/ Messages \/ HandleNotification \/ NotificationLost
  \/ OnuChanges \/ OnuAnswers \/ RequestTimeout \/ AlarmsRequested \/ Request
  \/ StartAlarmManager \/ StopAlarmManager \/ StopProcessing \/ StopAuditTimer

\* Goroutines run, the first audit's timer runs out, and the ONU answers or
\* the supervision gives up.
Fairness ==
  /\ WF_vars(Fire) /\ WF_vars(Messages) /\ WF_vars(HandleNotification)
  /\ WF_vars(OnuAnswers \/ RequestTimeout) /\ WF_vars(Request)
  /\ WF_vars(StopProcessing) /\ WF_vars(StopAuditTimer) /\ WF_vars(AuditTimer)

Spec == Init /\ [][Next]_vars /\ Fairness

-----------------------------------------------------------------------------
(* Properties.                                                             *)

\* After an audit, with nothing on the way and both numbers equal, each
\* alarm the ONU has on a known entity is active in the adapter: lost,
\* buffered and reordered notifications are noticed by their numbers, as long
\* as fewer are missing than there are numbers, and no more are on the way at
\* once than there are (processAlarmData, asFsmResynchronizing).
InStep ==
  (/\ dh.at = "up" /\ as = "InSync" /\ cb = "select" /\ am.audit /\ hist.audited
   /\ notif = {} /\ "Early" \notin pend
   /\ am.last = onu.seq /\ hist.missed < SeqMax)
    => \A m \in Known : onu.alarms[m] \subseteq active[m]

\* An audit out of turn is asked for only if a notification was lost, buffered
\* or reordered since the last audit or if there was no audit yet (or the
\* alarm manager is being stopped): the
\* adapter counts as the ONU does, over the wrap from 255 to 1 too
\* (incrementAlarmSequence, resetAlarmSequence).
NoNeedlessAudit ==
  [][(dh.at = "up" /\ "Early" \in pend' \ pend) => ~hist'.regular]_vars

\* An audit ends, unless a request could not be sent or was not answered: the
\* failure event of Auditing leads to no transition (asFsmAuditing,
\* handleOmciGetAllAlarmNextResponseMessage).
AuditEnds == (as = "Auditing") ~> (as # "Auditing" \/ hist.stuck)

\* The stop procedure ends with a disabled FSM, unless a callback waits for
\* somebody to take its answer, or did so at the start, which then found the
\* FSM in use and started no message loop (StopAlarmAuditTimer, resetFsms).
StopEnds == (dh.at = "stop" /\ loop > 0) ~> (as = "Disabled" \/ cb = "answer")

\* "Couldn't get the Alarms with in 10 seconds stipulated time frame": a
\* request for the active alarms ends in bounded time (GetOnuActiveAlarms), if
\* the ONU stays up.
RequestEnds == (req.at = "sending") ~> (req.at = "idle" \/ dh.at # "up")

=============================================================================
