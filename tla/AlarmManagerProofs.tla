-------------------------- MODULE AlarmManagerProofs --------------------------
(***************************************************************************)
(* Proofs about AlarmManager: audits out of turn have a reason, and after  *)
(* an audit the alarms of the ONU are active in the adapter, for any       *)
(* number of entities, alarms, sequence numbers, changes, audits and       *)
(* disturbances.                                                           *)
(*                                                                         *)
(* Both rest on counting: the ONU's number is ahead of the adapter's by    *)
(* the notifications that were not applied and those on the way (Numbers). *)
(* Numbers repeat after SeqMax, so an equal number means equal knowledge   *)
(* only while that distance is small (FewOnTheWay).  The second one adds   *)
(* what the tables, the two copies of an audit and the notifications on    *)
(* the way tell of the ONU's alarms.                                       *)
(***************************************************************************)
EXTENDS AlarmManager, TLAPS, FiniteSetTheorems

-----------------------------------------------------------------------------
(* Sequence numbers.                                                       *)

\* The number k notifications after number s.
Ahead(s, k) == IF k = 0 THEN s ELSE ((s + k - 1) % SeqMax) + 1

\* There is a number.
LEMMA SeqMaxType == SeqMax \in Nat /\ SeqMax > 0
BY AlarmManagerAssumption

\* Division with remainder.
LEMMA Remainder ==
  ASSUME NEW u \in Nat
  PROVE  /\ u % SeqMax \in 0 .. SeqMax - 1
         /\ u < SeqMax => u % SeqMax = u
         /\ \A v \in Nat : u % SeqMax = v % SeqMax /\ u < v => v - u >= SeqMax
         /\ (u + 1) % SeqMax = IF u % SeqMax = SeqMax - 1 THEN 0 ELSE (u % SeqMax) + 1
         /\ (u + SeqMax) % SeqMax = u % SeqMax
<1>n. SeqMax \in Nat /\ SeqMax > 0
  BY SeqMaxType
<1> DEFINE S == SeqMax
<1>s. S \in Nat \ {0}
  BY <1>n
<1> HIDE DEF S
<1>1. u % S \in 0 .. S - 1 /\ (u < S => u % S = u)
  BY <1>s
<1>2. \A v \in Nat : u % S = v % S /\ u < v => v - u >= S
  BY <1>s
<1>3. \A q \in Nat, r \in Nat : r < S => (S * q + r) % S = r
  BY <1>s
<1> DEFINE q == u \div S
           r == u % S
<1>4. q \in Nat /\ r \in 0 .. S - 1 /\ u = S * q + r
  BY <1>s
<1> HIDE DEF q, r
<1>5. S * (q + 1) = S * q + S /\ S * q \in Nat /\ q + 1 \in Nat
  BY <1>s, <1>4
<1>6. (S * (q + 1) + r) % S = r /\ (S * (q + 1) + 0) % S = 0
  BY <1>s, <1>3, <1>4, <1>5
<1>7. r + 1 < S => (S * q + (r + 1)) % S = r + 1
  BY <1>s, <1>3, <1>4
<1>8. /\ u + S = S * (q + 1) + r /\ u + 1 = S * q + (r + 1)
      /\ r = S - 1 => u + 1 = S * (q + 1) + 0
  BY <1>s, <1>4, <1>5
<1>9. (u + 1) % S = (IF r = S - 1 THEN 0 ELSE r + 1) /\ (u + S) % S = r
  BY <1>s, <1>4, <1>6, <1>7, <1>8
<1> QED BY <1>1, <1>2, <1>9 DEF r, S

\* The adapter and the ONU count alike, and steps of one add up.
LEMMA Counting ==
  ASSUME NEW s \in 0 .. SeqMax, NEW k \in Nat
  PROVE  /\ Ahead(s, k) \in 0 .. SeqMax /\ Ahead(s, 0) = s /\ NextSeq(s) = Ahead(s, 1)
         /\ NextSeq(s) \in 0 .. SeqMax
         /\ OnuNextSeq(Ahead(s, k)) = Ahead(s, k + 1)
         /\ Ahead(NextSeq(s), k) = Ahead(s, k + 1)
<1> USE SeqMaxType
<1>1. Ahead(s, k) \in 0 .. SeqMax /\ Ahead(s, 0) = s
  <2>1. k # 0 => s + k - 1 \in Nat /\ (s + k - 1) % SeqMax \in 0 .. SeqMax - 1
    BY Remainder
  <2> QED BY <2>1 DEF Ahead
<1>2. NextSeq(s) = (s % SeqMax) + 1
  <2>1. (0 + SeqMax) % SeqMax = 0 % SeqMax /\ 0 % SeqMax = 0 /\ 0 + SeqMax = SeqMax
    BY Remainder
  <2>2. s < SeqMax => s % SeqMax = s
    BY Remainder
  <2> QED BY <2>1, <2>2 DEF NextSeq
<1>3. NextSeq(s) = Ahead(s, 1)
  BY <1>2 DEF Ahead
<1>4. OnuNextSeq(Ahead(s, k)) = Ahead(s, k + 1)
  <2>1. CASE k = 0
    BY <2>1, <1>1 DEF OnuNextSeq, Ahead
  <2>2. CASE k # 0
    <3> DEFINE u == s + k - 1
               r == u % SeqMax
    <3>1. u \in Nat /\ u + 1 = s + (k + 1) - 1 /\ k + 1 # 0
      BY <2>2
    <3>2. /\ (u + 1) % SeqMax = IF r = SeqMax - 1 THEN 0 ELSE r + 1
          /\ r \in 0 .. SeqMax - 1
      BY <3>1, Remainder
    <3>3. Ahead(s, k) = r + 1 /\ Ahead(s, k + 1) = ((u + 1) % SeqMax) + 1
      BY <2>2, <3>1 DEF Ahead
    <3> HIDE DEF u, r
    <3>4. (r + 1) % SeqMax = IF r = SeqMax - 1 THEN 0 ELSE r + 1
      <4>1. (0 + SeqMax) % SeqMax = 0 % SeqMax /\ 0 % SeqMax = 0 /\ 0 + SeqMax = SeqMax
        BY Remainder
      <4>2. r + 1 < SeqMax => (r + 1) % SeqMax = r + 1
        BY Remainder, <3>2
      <4> QED BY <4>1, <4>2, <3>2
    <3> QED BY <3>2, <3>3, <3>4 DEF OnuNextSeq
  <2> QED BY <2>1, <2>2
<1>5. Ahead(NextSeq(s), k) = Ahead(s, k + 1)
  <2>1. CASE k = 0
    BY <2>1, <1>3 DEF Ahead
  <2>2. CASE k # 0
    <3>1. Ahead(s, k + 1) = ((s + k) % SeqMax) + 1
      BY <2>2 DEF Ahead
    <3>2. Ahead(NextSeq(s), k) = ((NextSeq(s) + k - 1) % SeqMax) + 1
      BY <2>2 DEF Ahead
    <3>3. (NextSeq(s) + k - 1) % SeqMax = (s + k) % SeqMax
      <4>1. CASE s = SeqMax
        <5>1. k + SeqMax = s + k /\ (k + SeqMax) % SeqMax = k % SeqMax
          BY <4>1, Remainder
        <5>2. NextSeq(s) + k - 1 = k
          BY <4>1 DEF NextSeq
        <5> QED BY <5>1, <5>2
      <4>2. CASE s # SeqMax
        <5>1. NextSeq(s) + k - 1 = s + k
          BY <4>2 DEF NextSeq
        <5> QED BY <5>1
      <4> QED BY <4>1, <4>2
    <3> QED BY <3>1, <3>2, <3>3
  <2> QED BY <2>1, <2>2
<1> QED BY <1>1, <1>2, <1>3, <1>4, <1>5, Remainder

\* Less than one round ahead the numbers differ.
LEMMA Distinct ==
  ASSUME NEW s \in 0 .. SeqMax, NEW k \in Nat
  PROVE  /\ Ahead(s, k) = s /\ k < SeqMax => k = 0
         /\ k > 1 /\ k <= SeqMax => Ahead(s, k) # Ahead(s, 1)
<1> USE SeqMaxType
<1>1. ASSUME Ahead(s, k) = s, k < SeqMax, k # 0 PROVE FALSE
  <2>1. ((s + k - 1) % SeqMax) + 1 = s
    BY <1>1 DEF Ahead
  <2>2. s >= 1
    <3>1. s + k - 1 \in Nat
      BY <1>1
    <3>2. (s + k - 1) % SeqMax \in 0 .. SeqMax - 1
      BY <3>1, Remainder
    <3> QED BY <2>1, <3>2
  <2>3. (s - 1) % SeqMax = s - 1 /\ s - 1 \in Nat
    <3>1. s - 1 \in Nat /\ s - 1 < SeqMax
      BY <2>2
    <3> QED BY <3>1, Remainder
  <2>4. (s + k - 1) % SeqMax = (s - 1) % SeqMax /\ s + k - 1 \in Nat
    <3>1. s + k - 1 \in Nat
      BY <1>1
    <3>2. (s + k - 1) % SeqMax \in 0 .. SeqMax - 1
      BY <3>1, Remainder
    <3> QED BY <2>1, <2>3, <3>1, <3>2
  <2>5. (s + k - 1) - (s - 1) >= SeqMax
    <3>1. s - 1 < s + k - 1
      BY <1>1, <2>3
    <3> QED BY <3>1, <2>3, <2>4, Remainder
  <2> QED BY <2>5, <1>1
<1>2. ASSUME k > 1, k <= SeqMax, Ahead(s, k) = Ahead(s, 1) PROVE FALSE
  <2>1. s % SeqMax = (s + k - 1) % SeqMax
    <3>1. s + k - 1 \in Nat /\ s \in Nat /\ s + 1 - 1 = s
      BY <1>2
    <3>2. (s + k - 1) % SeqMax \in 0 .. SeqMax - 1 /\ s % SeqMax \in 0 .. SeqMax - 1
      BY <3>1, Remainder
    <3>3. ((s + k - 1) % SeqMax) + 1 = (s % SeqMax) + 1
      BY <1>2, <3>1 DEF Ahead
    <3> QED BY <3>2, <3>3
  <2>2. (s + k - 1) - s >= SeqMax
    <3>1. s < s + k - 1 /\ s \in Nat /\ s + k - 1 \in Nat
      BY <1>2
    <3> QED BY <3>1, <2>1, Remainder
  <2> QED BY <2>2, <1>2
<1> QED BY <1>1, <1>2
-----------------------------------------------------------------------------
(* The shape of the state, and how an audit and the events go together.    *)

Posts == Causes \cup {"Sync", "Success", "Failure", "Resync", "Stop"}
AmMembers == {"process", "last", "upSeq", "upCmds", "async", "audit"}
NMembers == {"change", "audit", "request", "life", "disturb"}
HistMembers == {"audited", "regular", "missed", "stuck"}
OnuMembers == {"alarms", "seq", "snap", "shot"}

\* The shape of the state, as far as the argument needs it: one message at a
\* time each way, and notifications told apart by when they were sent.
Shape ==
  /\ as \in States /\ pend \subseteq Posts
  /\ DOMAIN am = AmMembers /\ am.last \in 0 .. SeqMax /\ am.upSeq \in Nat
  /\ DOMAIN dh = {"at", "timers"}
  /\ DOMAIN hist = HistMembers /\ hist.missed \in Nat /\ {hist.regular, hist.audited} \subseteq BOOLEAN
  /\ DOMAIN n = NMembers /\ n.change \in Nat
  /\ DOMAIN onu = OnuMembers /\ onu.seq \in 0 .. SeqMax
  /\ DOMAIN onu.alarms = MEs /\ DOMAIN onu.shot = MEs /\ DOMAIN active = MEs
  /\ DOMAIN copy = {"olt", "onu"}
  /\ IsFiniteSet(notif)
  /\ \A x \in notif : x.me \in MEs /\ x.nth \in 1 .. n.change
  /\ \A x, y \in notif : x.nth = y.nth => x = y
  /\ sent # <<>> => sent = <<Head(sent)>> /\ Head(sent).type \in {"all", "next"} /\ Head(sent).no \in Nat
  /\ back # <<>> => back = <<Head(back)>> /\ Head(back).type \in {"all", "next"}

\* Requests and answers belong to Auditing; the event that ends the audit, and
\* the one that says it failed, come when there are none any more.
Exchange ==
  as # "Disabled" =>
    /\ as # "Auditing" => sent = <<>> /\ back = <<>>
    /\ sent = <<>> \/ back = <<>>
    /\ as \in {"Starting", "InSync"} => "Success" \notin pend
    /\ as # "Auditing" => "Resync" \notin pend
    /\ "Success" \in pend \/ "Resync" \in pend => sent = <<>> /\ back = <<>>
    /\ ~("Success" \in pend /\ "Resync" \in pend)
    /\ "Failure" \in pend =>
         /\ as = "Auditing" /\ sent = <<>> /\ back = <<>>
         /\ "Success" \notin pend /\ "Resync" \notin pend

Ordered == Shape /\ Exchange

\* What a callback and the rejection of an event leave alone.
SameAlarmManager == am'.last = am.last /\ am'.process = am.process /\ am'.audit = am.audit
SameHist == hist'.regular = hist.regular /\ hist'.missed = hist.missed

\* An event is rejected, or leads to the state it comes in.
Rejected(p) ==
  /\ pend' = pend \ {p}
  /\ UNCHANGED <<as, sent, copy, active, db, n, hist>>
  /\ am' = am \/ am' = [am EXCEPT !.async = FALSE]
  /\ p = "Stop" => as = "Disabled"
  /\ p \in Causes => as # "InSync"

\* An audit begins.
AuditBegins(p) ==
  /\ p \in Causes /\ as \in {"Starting", "InSync"} /\ as' = "Auditing"
  /\ copy' = [olt |-> NoDB, onu |-> NoDB] /\ UNCHANGED <<active, db>>
  /\ \/ sent' = sent /\ pend' = (pend \ {p}) \cup {"Failure"} /\ am' = am
     \/ /\ sent' = <<[type |-> "all", no |-> 0]>> /\ pend' = pend \ {p}
        /\ am' = [am EXCEPT !.upSeq = 0, !.upCmds = 0]

\* The differences are applied, if the alarm manager still processes alarms.
ResyncBegins(p) ==
  /\ p = "Resync" /\ as = "Auditing" /\ as' = "Resynchronizing" /\ UNCHANGED <<sent, copy, am>>
  /\ IF am.process
     THEN pend' = (pend \ {p}) \cup {"Success"} /\ active' = Differences.active /\ db' = Differences.db
     ELSE pend' = pend \ {p} /\ UNCHANGED <<active, db>>

\* The FSM is in sync, or disabled.
SyncReached(p) ==
  /\ \/ p = "Sync" /\ as = "Starting" /\ as' = "InSync"
     \/ p = "Success" /\ as \in {"Auditing", "Resynchronizing"} /\ as' = "InSync"
     \/ p = "Stop" /\ as' = "Disabled"
  /\ pend' = pend \ {p} /\ UNCHANGED <<sent, copy, am, active, db>>

\* The ways an event can go.
LEMMA FireEffect ==
  ASSUME Ordered, Fire
  PROVE  /\ UNCHANGED <<back, notif, onu, dh>>
         /\ DOMAIN n' = NMembers /\ n'.change = n.change
         /\ DOMAIN hist' = HistMembers /\ SameHist
         /\ \E p \in pend :
              \/ Rejected(p)
              \/ AuditBegins(p) /\ hist'.audited = hist.audited
              \/ ResyncBegins(p) /\ hist'.audited = hist.audited
              \/ SyncReached(p) /\ hist'.audited = (hist.audited \/ p = "Success")
<1>1. PICK p \in pend, err \in BOOLEAN : Transition(p, err)
  BY DEF Fire
<1>2. UNCHANGED <<back, notif, onu, dh>>
  BY DEF Fire
<1>3. p \in Posts /\ as \in States
  BY DEF Ordered, Shape
<1> DEFINE ev == EventOf(p)
           d == Table[ev][as]
           e == Enter(d, err)
           taken == as \in DOMAIN Table[ev] /\ Table[ev][as] # as
<1>4. CASE ~taken
  <2>0. /\ p = "Stop" => as = "Disabled"
        /\ p \in Causes => as # "InSync"
    <3>1. CASE p = "Stop"
      <4>1. ev = "Stop"
        BY <3>1 DEF EventOf, Causes
      <4>2. DOMAIN Table.Stop = States /\ Table.Stop[as] = "Disabled"
        BY <1>3 DEF Table
      <4>3. p \notin Causes
        BY <3>1 DEF Causes
      <4> HIDE DEF ev
      <4> QED BY <1>3, <1>4, <4>1, <4>2, <4>3
    <3>2. CASE p \in Causes
      <4>1. ev = "Audit" /\ p # "Stop"
        BY <3>2 DEF EventOf, Causes
      <4>2. DOMAIN Table.Audit = {"Starting", "InSync"} /\ Table.Audit["InSync"] = "Auditing"
        BY DEF Table
      <4> HIDE DEF ev
      <4> QED BY <1>4, <4>1, <4>2
    <3> QED BY <3>1, <3>2
  <2>1. Rejected(p)
    BY <1>1, <1>4, <2>0 DEF Transition, Rejected
  <2>2. UNCHANGED <<n, hist>>
    BY <2>1 DEF Rejected
  <2> QED BY <1>2, <2>1, <2>2 DEF Ordered, Shape, SameHist
<1>5. CASE taken
  <2>1. /\ as' = d /\ pend' = (pend \ {p}) \cup e.post
        /\ sent' = e.sent /\ am' = e.am /\ copy' = e.copy
        /\ active' = e.tables.active /\ db' = e.tables.db
        /\ n' = n \/ n' = [n EXCEPT !.disturb = @ + 1]
        /\ hist' = [hist EXCEPT !.audited = @ \/ (d = "InSync" /\ as # "Starting"),
                                !.stuck = (@ \/ err) /\ ev # "Stop"]
    BY <1>1, <1>5 DEF Transition, Disturb
  <2>2. DOMAIN n' = NMembers /\ n'.change = n.change /\ DOMAIN hist' = HistMembers /\ SameHist
    BY <2>1 DEF Ordered, Shape, NMembers, HistMembers, SameHist
  <2>3. hist'.audited = (hist.audited \/ (d = "InSync" /\ as # "Starting"))
    BY <2>1 DEF Ordered, Shape, HistMembers
  <2>4. CASE p \in Causes
    <3>1. ev = "Audit" /\ as \in {"Starting", "InSync"} /\ d = "Auditing"
      BY <1>5, <2>4 DEF EventOf, Table
    <3>2. e = EnterAuditing(err)
      BY <3>1 DEF Enter
    <3>3. AuditBegins(p)
      <4> HIDE DEF e, d
      <4>1. CASE err
        BY <2>1, <2>4, <3>1, <3>2, <4>1 DEF AuditBegins, EnterAuditing, Keep
      <4>2. CASE ~err
        BY <2>1, <2>4, <3>1, <3>2, <4>2 DEF AuditBegins, EnterAuditing, SendGetAllAlarm, Keep
      <4> QED BY <4>1, <4>2
    <3>4. hist'.audited = hist.audited
      BY <2>3, <3>1 DEF Ordered, Shape
    <3> QED BY <1>2, <2>2, <3>3, <3>4
  <2>5. CASE p = "Sync"
    <3>1. ev = "Sync" /\ as = "Starting" /\ d = "InSync"
      BY <1>5, <2>5 DEF EventOf, Table, Causes
    <3>2. e = EnterInSync
      BY <3>1 DEF Enter
    <3>3. SyncReached(p) /\ hist'.audited = hist.audited
      BY <2>1, <2>3, <2>5, <3>1, <3>2 DEF SyncReached, EnterInSync, Keep, Ordered, Shape
    <3> QED BY <1>2, <2>2, <2>5, <3>3 DEF Ordered, Shape
  <2>6. CASE p = "Success"
    <3>1. ev = "Success" /\ as \in {"Auditing", "Resynchronizing"} /\ d = "InSync"
      BY <1>5, <2>6 DEF EventOf, Table, Causes
    <3>2. e = EnterInSync
      BY <3>1 DEF Enter
    <3>3. SyncReached(p)
      <4> HIDE DEF e, d, ev
      <4> QED BY <2>1, <2>6, <3>1, <3>2 DEF SyncReached, EnterInSync, Keep
    <3>4. hist'.audited = TRUE
      <4> HIDE DEF e, d, ev
      <4> QED BY <2>3, <3>1
    <3> QED BY <1>2, <2>2, <2>6, <3>3, <3>4
  <2>7. CASE p = "Resync"
    <3>1. ev = "Resync" /\ as = "Auditing" /\ d = "Resynchronizing"
      BY <1>5, <2>7 DEF EventOf, Table, Causes
    <3>2. e = EnterResynchronizing
      BY <3>1 DEF Enter
    <3>3. ResyncBegins(p)
      <4> HIDE DEF e, d
      <4>1. CASE am.process
        BY <2>1, <2>7, <3>1, <3>2, <4>1 DEF ResyncBegins, EnterResynchronizing, Keep
      <4>2. CASE ~am.process
        BY <2>1, <2>7, <3>1, <3>2, <4>2 DEF ResyncBegins, EnterResynchronizing, Keep
      <4> QED BY <4>1, <4>2
    <3>4. hist'.audited = hist.audited
      BY <2>3, <3>1 DEF Ordered, Shape
    <3> QED BY <1>2, <2>2, <3>3, <3>4
  <2>8. CASE p = "Stop"
    <3>1. ev = "Stop" /\ d = "Disabled"
      BY <1>5, <1>3, <2>8 DEF EventOf, Table, Causes
    <3>2. e = Keep
      BY <3>1 DEF Enter
    <3>3. SyncReached(p)
      <4> HIDE DEF e, d, ev
      <4> QED BY <2>1, <2>8, <3>1, <3>2 DEF SyncReached, Keep
    <3>4. hist'.audited = hist.audited
      <4> HIDE DEF e, d, ev
      <4> QED BY <2>3, <3>1 DEF Ordered, Shape
    <3> QED BY <1>2, <2>2, <2>8, <3>3, <3>4 DEF Ordered, Shape
  <2>9. CASE p = "Failure"
    <3>1. ev = "Failure" /\ as = "Resynchronizing"
      BY <1>5, <2>9 DEF EventOf, Table, Causes
    <3> QED BY <3>1, <2>9 DEF Ordered, Exchange
  <2> QED BY <1>3, <2>4, <2>5, <2>6, <2>7, <2>8, <2>9 DEF Posts
<1> QED BY <1>4, <1>5

\* Steps that concern neither an audit nor a notification.
Aside ==
  /\ UNCHANGED <<as, active, db, copy, sent, back, notif, onu, hist>>
  /\ pend' = pend \/ pend' = pend \cup {"Timer"} \/ pend' = pend \cup {"Async"}
  /\ DOMAIN am' = AmMembers /\ SameAlarmManager /\ am'.upSeq = am.upSeq /\ am'.upCmds = am.upCmds
  /\ DOMAIN n' = NMembers /\ n'.change = n.change
  /\ DOMAIN dh' = {"at", "timers"} /\ dh'.at = dh.at

\* The timers and the requests for the active alarms are such steps.
LEMMA AsideSteps ==
  ASSUME Shape, AuditTimer \/ AlarmsRequested \/ Request \/ StopAuditTimer
  PROVE  Aside
<1> USE DEF Shape, Aside, SameAlarmManager, AmMembers, NMembers
<1>1. CASE AuditTimer
  BY <1>1 DEF AuditTimer
<1>2. CASE AlarmsRequested
  BY <1>2 DEF AlarmsRequested
<1>3. CASE RequestTaken
  BY <1>3 DEF RequestTaken
<1>4. CASE RequestAnswered
  BY <1>4 DEF RequestAnswered
<1>5. CASE RequestExpires
  BY <1>5 DEF RequestExpires
<1>6. CASE StopAuditTimer
  BY <1>6 DEF StopAuditTimer
<1> QED BY <1>1, <1>2, <1>3, <1>4, <1>5, <1>6 DEF Request

\* What the message loop does with an answer: it asks on, fails to, or ends
\* the audit.
AnswerTaken ==
  /\ UNCHANGED <<as, active, db, notif, onu, dh>>
  /\ back # <<>> /\ back' = <<>>
  /\ DOMAIN am' = AmMembers /\ am'.process = am.process /\ am'.audit = am.audit
  /\ DOMAIN n' = NMembers /\ n'.change = n.change
  /\ DOMAIN hist' = HistMembers /\ SameHist /\ hist'.audited = hist.audited
  /\ DOMAIN copy' = {"olt", "onu"}
  /\ IF Head(back).type = "all"
     THEN am'.last = 0 /\ am'.upCmds = Head(back).cmds /\ as # "Disabled"
     ELSE am'.last = am.last /\ am'.upCmds = am.upCmds
  /\ \/ /\ sent' = <<[type |-> "next", no |-> am.upSeq]>> /\ pend' = pend
        /\ am'.upSeq = am.upSeq + 1 /\ am.upSeq < am'.upCmds
     \/ sent' = sent /\ pend' = pend \cup {"Failure"} /\ am'.upSeq = am.upSeq + 1
     \/ /\ sent' = sent /\ pend' = pend \cup {Compared(copy')} /\ am'.upSeq = am.upSeq
        /\ \/ am'.upCmds = 0 /\ Head(back).type = "all"
           \/ ~(am'.upSeq < am'.upCmds)

\* Both kinds of answer are taken like this.
LEMMA Answers ==
  ASSUME Shape, GetAllAlarmsResponse \/ GetAllAlarmNextResponse
  PROVE  AnswerTaken
<1>b. back # <<>> => Tail(back) = <<>>
  <2>1. \A x : Tail(<<x>>) = <<>>
    OBVIOUS
  <2> QED BY <2>1 DEF Shape
<1>1. CASE GetAllAlarmsResponse
  <2> DEFINE cmds == Head(back).cmds
             a == [am EXCEPT !.upCmds = cmds, !.last = 0]
  <2>1. DOMAIN a = AmMembers /\ a.upSeq = am.upSeq /\ a.upCmds = cmds /\ a.last = 0
        /\ a.process = am.process /\ a.audit = am.audit
    BY DEF Shape, AmMembers
  <2>2. /\ UNCHANGED <<as, active, db, notif, onu, dh>> /\ as # "Disabled"
        /\ back # <<>> /\ back' = <<>> /\ Head(back).type = "all"
        /\ DOMAIN copy' = {"olt", "onu"}
        /\ \/ cmds = 0 /\ pend' = pend \cup {Compared(copy')} /\ am' = a /\ UNCHANGED <<sent, n, hist>>
           \/ a.upSeq < cmds /\ SendGetAllAlarmNext(a)
    <3>1. /\ UNCHANGED <<as, active, db, notif, onu, dh>> /\ as # "Disabled"
          /\ back # <<>> /\ back' = <<>> /\ Head(back).type = "all"
      BY <1>1, <1>b DEF GetAllAlarmsResponse, Receive
    <3>2. /\ cmds = 0 \/ a.upSeq < cmds
          /\ IF cmds = 0
             THEN pend' = pend \cup {Compared(copy')} /\ am' = a /\ UNCHANGED <<sent, n, hist>>
             ELSE SendGetAllAlarmNext(a)
      BY <1>1 DEF GetAllAlarmsResponse
    <3>3. DOMAIN copy' = {"olt", "onu"}
      BY <1>1 DEF GetAllAlarmsResponse, Shape
    <3> QED BY <3>1, <3>2, <3>3
  <2> HIDE DEF a, cmds
  <2>3. CASE cmds = 0 /\ pend' = pend \cup {Compared(copy')} /\ am' = a /\ UNCHANGED <<sent, n, hist>>
    BY <2>1, <2>2, <2>3 DEF AnswerTaken, Shape, SameHist, cmds
  <2>4. CASE a.upSeq < cmds /\ SendGetAllAlarmNext(a)
    <3>1. am' = [a EXCEPT !.upSeq = @ + 1]
      BY <2>4 DEF SendGetAllAlarmNext
    <3>2. /\ DOMAIN am' = AmMembers /\ am'.process = am.process /\ am'.audit = am.audit
          /\ am'.last = 0 /\ am'.upCmds = cmds /\ am'.upSeq = am.upSeq + 1
      BY <2>1, <3>1 DEF AmMembers
    <3>3. /\ DOMAIN n' = NMembers /\ n'.change = n.change
          /\ DOMAIN hist' = HistMembers /\ SameHist /\ hist'.audited = hist.audited
      BY <2>4 DEF Shape, SameHist, SendGetAllAlarmNext, Disturb, NMembers, HistMembers
    <3>4. \/ sent' = <<[type |-> "next", no |-> am.upSeq]>> /\ pend' = pend
          \/ sent' = sent /\ pend' = pend \cup {"Failure"}
      BY <2>4, <2>1 DEF SendGetAllAlarmNext
    <3> QED BY <2>1, <2>2, <2>4, <3>2, <3>3, <3>4 DEF AnswerTaken, cmds
  <2> QED BY <2>2, <2>3, <2>4
<1>2. CASE GetAllAlarmNextResponse
  <2>2. /\ UNCHANGED <<as, active, db, notif, onu, dh>>
        /\ back # <<>> /\ back' = <<>> /\ Head(back).type = "next"
        /\ DOMAIN copy' = {"olt", "onu"}
        /\ \/ ~(am.upSeq < am.upCmds) /\ pend' = pend \cup {Compared(copy')} /\ UNCHANGED <<sent, am, n, hist>>
           \/ am.upSeq < am.upCmds /\ SendGetAllAlarmNext(am)
    BY <1>2, <1>b DEF GetAllAlarmNextResponse, Receive, Shape
  <2>3. CASE ~(am.upSeq < am.upCmds) /\ pend' = pend \cup {Compared(copy')} /\ UNCHANGED <<sent, am, n, hist>>
    BY <2>2, <2>3 DEF AnswerTaken, Shape, SameHist
  <2>4. CASE am.upSeq < am.upCmds /\ SendGetAllAlarmNext(am)
    BY <2>2, <2>4
       DEF AnswerTaken, Shape, SameHist, SendGetAllAlarmNext, Disturb, AmMembers, NMembers, HistMembers
  <2> QED BY <2>2, <2>3, <2>4
<1> QED BY <1>1, <1>2

\* The start takes the FSM out of Disabled, or leaves it alone.
LEMMA StartEffect ==
  ASSUME Shape, StartAlarmManager
  PROVE  /\ \/ as = "Disabled" /\ as' = "Starting" /\ pend' \subseteq {"Sync"}
            \/ as # "Disabled" /\ UNCHANGED <<as, pend>>
         /\ sent' = <<>> /\ back' = <<>> /\ DOMAIN db' = {}
         /\ UNCHANGED <<active, copy, notif, onu>>
         /\ dh.at = "off" /\ DOMAIN dh' = {"at", "timers"} /\ dh'.at = "up"
         /\ DOMAIN am' = AmMembers /\ am'.process = TRUE /\ am'.last = am.last /\ am'.upSeq = am.upSeq
         /\ DOMAIN n' = NMembers /\ n'.change = n.change
         /\ DOMAIN hist' = HistMembers /\ hist'.regular = FALSE /\ hist'.audited = FALSE
         /\ hist'.missed = hist.missed
<1>1. EnterStarting.post \subseteq {"Sync"}
  BY DEF EnterStarting, Keep
<1>2. \/ as = "Disabled" /\ as' = "Starting" /\ pend' \subseteq {"Sync"}
      \/ as # "Disabled" /\ UNCHANGED <<as, pend>>
  BY <1>1 DEF StartAlarmManager
<1>3. /\ sent' = <<>> /\ back' = <<>> /\ DOMAIN db' = {}
      /\ UNCHANGED <<active, copy, notif, onu>>
      /\ dh.at = "off" /\ DOMAIN dh' = {"at", "timers"} /\ dh'.at = "up"
  BY DEF StartAlarmManager, NoDB
<1>4. /\ DOMAIN am' = AmMembers /\ am'.process = TRUE /\ am'.last = am.last /\ am'.upSeq = am.upSeq
      /\ DOMAIN n' = NMembers /\ n'.change = n.change
  BY DEF StartAlarmManager, Shape, AmMembers, NMembers
<1>5. /\ DOMAIN hist' = HistMembers /\ hist'.regular = FALSE /\ hist'.audited = FALSE
      /\ hist'.missed = hist.missed
  BY DEF StartAlarmManager, Shape, HistMembers
<1> QED BY <1>2, <1>3, <1>4, <1>5

\* One notification less.
LEMMA OneLess ==
  ASSUME Shape, NEW x \in notif, notif' = notif \ {x}, n'.change = n.change
  PROVE  /\ IsFiniteSet(notif') /\ Cardinality(notif) \in Nat /\ Cardinality(notif') \in Nat
         /\ Cardinality(notif) = Cardinality(notif') + 1
         /\ \A y \in notif' : y.me \in MEs /\ y.nth \in 1 .. n'.change
         /\ \A y, z \in notif' : y.nth = z.nth => y = z
<1>1. IsFiniteSet(notif)
  BY DEF Shape
<1>2. IsFiniteSet(notif \ {x}) /\ Cardinality(notif \ {x}) = Cardinality(notif) - 1
  BY <1>1, FS_RemoveElement
<1>3. Cardinality(notif) \in Nat /\ Cardinality(notif \ {x}) \in Nat
  BY <1>1, <1>2, FS_CardinalityType
<1> QED BY <1>2, <1>3 DEF Shape

\* A change of the alarms adds the newest notification.
LEMMA OneMore ==
  ASSUME Shape, OnuChanges
  PROVE  \E m \in MEs, x \in notif' :
           /\ notif' = notif \cup {x} /\ x \notin notif
           /\ x.me = m /\ x.nth = n'.change /\ x.seq = OnuNextSeq(onu.seq) /\ x.bits = onu'.alarms[m]
           /\ IsFiniteSet(notif') /\ Cardinality(notif) \in Nat
           /\ Cardinality(notif') = Cardinality(notif) + 1
           /\ DOMAIN n' = NMembers /\ n'.change = n.change + 1
           /\ DOMAIN onu' = OnuMembers /\ onu'.seq = OnuNextSeq(onu.seq)
           /\ onu'.snap = onu.snap /\ onu'.shot = onu.shot
           /\ DOMAIN onu'.alarms = MEs
           /\ \A k \in MEs \ {m} : onu'.alarms[k] = onu.alarms[k]
           /\ dh.at = "up"
           /\ UNCHANGED <<as, pend, am, active, db, copy, sent, back, dh, hist>>
<1>1. PICK m \in MEs, bits \in Bitmaps :
        /\ dh.at = "up" /\ n' = [n EXCEPT !.change = @ + 1]
        /\ onu' = [onu EXCEPT !.alarms[m] = bits, !.seq = OnuNextSeq(@)]
        /\ notif' = notif \cup {[me |-> m, bits |-> bits, seq |-> OnuNextSeq(onu.seq), nth |-> n.change + 1]}
        /\ UNCHANGED <<as, pend, am, active, db, copy, sent, back, dh, hist>>
  BY DEF OnuChanges
<1> DEFINE x == [me |-> m, bits |-> bits, seq |-> OnuNextSeq(onu.seq), nth |-> n.change + 1]
<1>2. x.me = m /\ x.bits = bits /\ x.seq = OnuNextSeq(onu.seq) /\ x.nth = n.change + 1
  OBVIOUS
<1>3. notif' = notif \cup {x}
  BY <1>1
<1> HIDE DEF x
<1>4. DOMAIN n' = NMembers /\ n'.change = n.change + 1 /\ n.change \in Nat
  BY <1>1 DEF Shape, NMembers
<1>5. x \notin notif
  BY <1>2, <1>4 DEF Shape
<1>6. IsFiniteSet(notif)
  BY DEF Shape
<1>7. IsFiniteSet(notif') /\ Cardinality(notif) \in Nat /\ Cardinality(notif') = Cardinality(notif) + 1
  BY <1>3, <1>5, <1>6, FS_AddElement, FS_CardinalityType
<1>8. /\ DOMAIN onu' = OnuMembers /\ onu'.seq = OnuNextSeq(onu.seq)
      /\ onu'.snap = onu.snap /\ onu'.shot = onu.shot
      /\ onu'.alarms = [onu.alarms EXCEPT ![m] = bits]
  BY <1>1 DEF Shape, OnuMembers
<1>9. DOMAIN onu'.alarms = MEs /\ onu'.alarms[m] = bits /\ \A k \in MEs \ {m} : onu'.alarms[k] = onu.alarms[k]
  BY <1>8 DEF Shape
<1>10. x \in notif' /\ x.nth = n'.change /\ x.bits = onu'.alarms[m]
  BY <1>2, <1>3, <1>4, <1>9
<1> QED BY <1>1, <1>2, <1>3, <1>4, <1>5, <1>7, <1>8, <1>9, <1>10

\* A notification is gone without being applied.
Skipped ==
  /\ UNCHANGED <<pend, am, active, db>> /\ hist'.regular = FALSE /\ hist'.missed = hist.missed + 1

\* A notification is applied.
Taken(x) ==
  /\ x.me \in Known /\ as \notin {"Auditing", "Resynchronizing"}
  /\ am'.last = NextSeq(am.last)
  /\ pend' = IF am.audit /\ x.seq # NextSeq(am.last) THEN pend \cup {"Early"} ELSE pend
  /\ active' = Applied(active, db, x.me, x.bits).active /\ db' = Applied(active, db, x.me, x.bits).db
  /\ hist'.regular = (hist.regular /\ Older(x) = {}) /\ hist'.missed = hist.missed

\* A notification that is handled or lost is skipped or taken.
LEMMA NotificationEnds ==
  ASSUME Shape, HandleNotification \/ NotificationLost
  PROVE  \E x \in notif :
           /\ notif' = notif \ {x}
           /\ UNCHANGED <<as, copy, sent, back, onu, dh>>
           /\ DOMAIN n' = NMembers /\ n'.change = n.change
           /\ DOMAIN hist' = HistMembers /\ hist'.audited = hist.audited
           /\ DOMAIN am' = AmMembers /\ am'.process = am.process /\ am'.audit = am.audit
           /\ am'.upSeq = am.upSeq /\ am'.upCmds = am.upCmds
           /\ Skipped \/ Taken(x)
<1>0. DOMAIN Missed = HistMembers /\ Missed.regular = FALSE /\ Missed.missed = hist.missed + 1
      /\ Missed.audited = hist.audited
  BY DEF Missed, Shape, HistMembers
<1>1. CASE NotificationLost
  <2>1. PICK x \in notif :
          /\ Disturb("lost") /\ notif' = notif \ {x} /\ hist' = Missed
          /\ UNCHANGED <<as, pend, am, active, db, copy, sent, back, onu, dh>>
    BY <1>1 DEF NotificationLost
  <2>2. DOMAIN n' = NMembers /\ n'.change = n.change
    BY <2>1 DEF Disturb, Shape, NMembers
  <2>3. Skipped
    BY <1>0, <2>1 DEF Skipped
  <2> QED BY <1>0, <2>1, <2>2, <2>3 DEF Shape
<1>2. CASE HandleNotification
  <2> DEFINE H(x) ==
        IF ~am.process \/ x.me \notin Known
        THEN UNCHANGED <<pend, am, active, db, buf>> /\ hist' = Missed
        ELSE IF as \in {"Auditing", "Resynchronizing"}
        THEN /\ hist' = Missed
             /\ UNCHANGED <<pend, am, active, db>>
        ELSE /\ am' = [am EXCEPT !.last = NextSeq(@)]
             /\ pend' = IF am.audit /\ x.seq # NextSeq(am.last) THEN pend \cup {"Early"} ELSE pend
             /\ LET t == Applied(active, db, x.me, x.bits) IN active' = t.active /\ db' = t.db
             /\ hist' = [hist EXCEPT !.regular = @ /\ Older(x) = {}]
  <2>1. PICK x \in notif :
          /\ notif' = notif \ {x} /\ H(x)
          /\ UNCHANGED <<as, copy, sent, back, onu, dh, n>>
    BY <1>2 DEF HandleNotification
  <2>2. CASE am.process /\ x.me \in Known /\ as \notin {"Auditing", "Resynchronizing"}
    <3>1. /\ am' = [am EXCEPT !.last = NextSeq(@)]
          /\ pend' = IF am.audit /\ x.seq # NextSeq(am.last) THEN pend \cup {"Early"} ELSE pend
          /\ active' = Applied(active, db, x.me, x.bits).active /\ db' = Applied(active, db, x.me, x.bits).db
          /\ hist' = [hist EXCEPT !.regular = @ /\ Older(x) = {}]
      BY <2>1, <2>2
    <3>2. DOMAIN am' = AmMembers /\ am'.process = am.process /\ am'.audit = am.audit
          /\ am'.upSeq = am.upSeq /\ am'.upCmds = am.upCmds /\ am'.last = NextSeq(am.last)
      BY <3>1 DEF Shape, AmMembers
    <3>3. DOMAIN hist' = HistMembers /\ hist'.audited = hist.audited /\ hist'.missed = hist.missed
          /\ hist'.regular = (hist.regular /\ Older(x) = {})
      BY <3>1 DEF Shape, HistMembers
    <3>4. Taken(x)
      BY <2>2, <3>1, <3>2, <3>3 DEF Taken
    <3> QED BY <2>1, <3>2, <3>3, <3>4 DEF Shape
  <2>3. CASE ~(am.process /\ x.me \in Known /\ as \notin {"Auditing", "Resynchronizing"})
    <3>1. UNCHANGED <<pend, am, active, db>> /\ hist' = Missed
      BY <2>1, <2>3
    <3>2. Skipped
      BY <1>0, <3>1 DEF Skipped
    <3> QED BY <1>0, <2>1, <3>1, <3>2 DEF Shape
  <2> QED BY <2>2, <2>3
<1> QED BY <1>1, <1>2

\* The state starts in order.
LEMMA OrderedInit == Init => Ordered
<1> SUFFICES ASSUME Init PROVE Ordered
  OBVIOUS
<1>1. PICK a \in BOOLEAN : am = [process |-> FALSE, last |-> 0, upSeq |-> 0, upCmds |-> 0, async |-> FALSE,
                                 audit |-> a]
  BY DEF Init
<1>2. DOMAIN am = AmMembers /\ am.last \in 0 .. SeqMax /\ am.upSeq \in Nat
  BY <1>1, SeqMaxType DEF AmMembers
<1>3. IsFiniteSet(notif) /\ notif = {}
  BY FS_EmptySet DEF Init
<1>4. DOMAIN onu = OnuMembers /\ onu.seq = 0 /\ DOMAIN onu.alarms = MEs /\ DOMAIN onu.shot = MEs
  BY DEF Init, OnuMembers
<1>5. /\ DOMAIN hist = HistMembers /\ hist.missed \in Nat /\ hist.regular \in BOOLEAN /\ hist.audited \in BOOLEAN
      /\ DOMAIN n = NMembers /\ n.change \in Nat
  BY DEF Init, HistMembers, NMembers
<1>6. as = "Disabled" /\ pend = {} /\ DOMAIN dh = {"at", "timers"} /\ DOMAIN active = MEs
      /\ DOMAIN copy = {"olt", "onu"} /\ sent = <<>> /\ back = <<>>
  BY DEF Init
<1> QED BY <1>2, <1>3, <1>4, <1>5, <1>6, SeqMaxType DEF Ordered, Shape, Exchange, States

\* Other events do not matter for the exchange.
LEMMA ExchangeKept ==
  ASSUME Exchange, UNCHANGED <<as, sent, back>>,
         NEW p, p \notin {"Success", "Failure", "Resync"}, pend' = pend \/ pend' = pend \cup {p}
  PROVE  Exchange'
<1>1. /\ "Success" \in pend' <=> "Success" \in pend
      /\ "Failure" \in pend' <=> "Failure" \in pend
      /\ "Resync" \in pend' <=> "Resync" \in pend
  OBVIOUS
<1> QED BY <1>1 DEF Exchange

\* An event keeps the state in order.
LEMMA OrderedFire ==
  ASSUME Ordered, Fire
  PROVE  Ordered'
<1>1. /\ UNCHANGED <<back, notif, onu, dh>>
      /\ DOMAIN n' = NMembers /\ n'.change = n.change
      /\ DOMAIN hist' = HistMembers /\ SameHist
  BY FireEffect
<1>2. PICK p \in pend :
        \/ Rejected(p)
        \/ AuditBegins(p) /\ hist'.audited = hist.audited
        \/ ResyncBegins(p) /\ hist'.audited = hist.audited
        \/ SyncReached(p) /\ hist'.audited = (hist.audited \/ p = "Success")
  BY FireEffect
<1>3. DOMAIN am' = AmMembers /\ am'.last = am.last /\ am'.upSeq \in Nat
  <2>1. am' = am \/ am' = [am EXCEPT !.async = FALSE] \/ am' = [am EXCEPT !.upSeq = 0, !.upCmds = 0]
    BY <1>2 DEF Rejected, AuditBegins, ResyncBegins, SyncReached
  <2>2. DOMAIN am = AmMembers /\ am.upSeq \in Nat
    BY DEF Ordered, Shape
  <2>3. CASE am' = [am EXCEPT !.async = FALSE]
    BY <2>2, <2>3 DEF AmMembers
  <2>4. CASE am' = [am EXCEPT !.upSeq = 0, !.upCmds = 0]
    BY <2>2, <2>4 DEF AmMembers
  <2> QED BY <2>1, <2>2, <2>3, <2>4
<1>4. DOMAIN active' = MEs
  BY <1>2 DEF Ordered, Shape, Rejected, AuditBegins, ResyncBegins, SyncReached, Differences, AppliedAll
<1>5. DOMAIN copy' = {"olt", "onu"}
  BY <1>2 DEF Ordered, Shape, Rejected, AuditBegins, ResyncBegins, SyncReached
<1>6. as' \in States /\ pend' \subseteq Posts
  BY <1>2 DEF Ordered, Shape, Rejected, AuditBegins, ResyncBegins, SyncReached, States, Posts
<1>7. sent' = sent \/ sent' = <<[type |-> "all", no |-> 0]>>
  BY <1>2 DEF Rejected, AuditBegins, ResyncBegins, SyncReached
<1>8. sent' # <<>> => sent' = <<Head(sent')>> /\ Head(sent').type \in {"all", "next"} /\ Head(sent').no \in Nat
  BY <1>7 DEF Ordered, Shape
<1>9. hist'.missed \in Nat /\ hist'.regular \in BOOLEAN /\ hist'.audited \in BOOLEAN
  BY <1>1, <1>2 DEF Ordered, Shape, SameHist, Rejected
<1>10. Shape'
  BY <1>1, <1>3, <1>4, <1>5, <1>6, <1>8, <1>9 DEF Ordered, Shape
<1>11. Exchange'
  <2>1. CASE Rejected(p)
    BY <1>1, <2>1 DEF Ordered, Exchange, Rejected
  <2>2. CASE AuditBegins(p)
    <3>1. /\ p \notin {"Success", "Resync", "Failure"} /\ as \in {"Starting", "InSync"} /\ as' = "Auditing"
          /\ back' = back
          /\ \/ sent' = sent /\ pend' = (pend \ {p}) \cup {"Failure"}
             \/ pend' = pend \ {p}
      BY <1>1, <2>2 DEF AuditBegins, Causes
    <3>2. sent = <<>> /\ back = <<>> /\ "Success" \notin pend /\ "Resync" \notin pend /\ "Failure" \notin pend
      BY <3>1 DEF Ordered, Exchange
    <3> QED BY <3>1, <3>2 DEF Exchange
  <2>3. CASE ResyncBegins(p)
    BY <1>1, <2>3 DEF Ordered, Exchange, ResyncBegins
  <2>4. CASE SyncReached(p)
    BY <1>1, <2>4 DEF Ordered, Exchange, SyncReached
  <2> QED BY <1>2, <2>1, <2>2, <2>3, <2>4
<1> QED BY <1>10, <1>11 DEF Ordered

\* Every step keeps the state in order.
LEMMA OrderedStep == Ordered /\ [Next]_vars => Ordered'
<1> SUFFICES ASSUME Ordered, [Next]_vars PROVE Ordered'
  OBVIOUS
<1>s. Shape /\ Exchange
  BY DEF Ordered
<1>1. CASE Fire
  BY <1>1, OrderedFire
<1>2. CASE AuditTimer \/ AlarmsRequested \/ Request \/ StopAuditTimer
  <2>1. Aside
    BY <1>s, <1>2, AsideSteps
  <2>2. Shape'
    BY <1>s, <2>1 DEF Shape, Aside, SameAlarmManager, Posts, Causes
  <2>3. Exchange'
    <3>1. /\ UNCHANGED <<as, sent, back>>
          /\ pend' = pend \/ pend' = pend \cup {"Timer"} \/ pend' = pend \cup {"Async"}
      BY <2>1 DEF Aside
    <3>2. CASE pend' = pend \/ pend' = pend \cup {"Timer"}
      BY <1>s, <3>1, <3>2, ExchangeKept
    <3>3. CASE pend' = pend \cup {"Async"}
      BY <1>s, <3>1, <3>3, ExchangeKept
    <3> QED BY <3>1, <3>2, <3>3
  <2> QED BY <2>2, <2>3 DEF Ordered
<1>3. CASE GetAllAlarmsResponse \/ GetAllAlarmNextResponse
  <2>1. AnswerTaken
    BY <1>s, <1>3, Answers
  <2>2. Compared(copy') \in {"Success", "Resync"}
    BY DEF Compared
  <2>3. Shape'
    <3>1. sent' # <<>> => sent' = <<Head(sent')>> /\ Head(sent').type \in {"all", "next"} /\ Head(sent').no \in Nat
      BY <1>s, <2>1 DEF Shape, AnswerTaken
    <3>2. as' \in States /\ pend' \subseteq Posts
      BY <1>s, <2>1, <2>2 DEF Shape, AnswerTaken, Posts
    <3>3. am'.last \in 0 .. SeqMax /\ am'.upSeq \in Nat
      <4>1. am.last \in 0 .. SeqMax /\ am.upSeq \in Nat
        BY <1>s DEF Shape
      <4>2. am'.last = 0 \/ am'.last = am.last
        BY <2>1 DEF AnswerTaken
      <4>3. am'.upSeq = am.upSeq + 1 \/ am'.upSeq = am.upSeq
        BY <2>1 DEF AnswerTaken
      <4> QED BY <4>1, <4>2, <4>3, SeqMaxType
    <3> QED BY <1>s, <2>1, <3>1, <3>2, <3>3 DEF Shape, AnswerTaken, SameHist
  <2>4. Exchange'
    <3>1. /\ as' = as /\ back # <<>> /\ back' = <<>>
          /\ \/ pend' = pend
             \/ sent' = sent /\ pend' = pend \cup {"Failure"}
             \/ sent' = sent /\ pend' = pend \cup {Compared(copy')}
      BY <2>1 DEF AnswerTaken
    <3>2. CASE as # "Disabled"
      <4>1. as = "Auditing" /\ sent = <<>>
            /\ "Success" \notin pend /\ "Resync" \notin pend /\ "Failure" \notin pend
        BY <1>s, <3>1, <3>2 DEF Exchange
      <4>2. CASE pend' = pend
        BY <3>1, <4>1, <4>2 DEF Exchange
      <4>3. CASE sent' = sent /\ pend' = pend \cup {"Failure"}
        BY <3>1, <4>1, <4>3 DEF Exchange
      <4>4. CASE sent' = sent /\ pend' = pend \cup {Compared(copy')}
        BY <2>2, <3>1, <4>1, <4>4 DEF Exchange
      <4> QED BY <3>1, <4>2, <4>3, <4>4
    <3>3. CASE as = "Disabled"
      BY <3>1, <3>3 DEF Exchange
    <3> QED BY <3>2, <3>3
  <2> QED BY <2>3, <2>4 DEF Ordered
<1>4. CASE ResponseWhenDisabled
  <2>1. back' = <<>> /\ as = "Disabled" /\ UNCHANGED <<as, pend, am, active, copy, sent, notif, onu, dh, n, hist>>
    <3>1. \A x : Tail(<<x>>) = <<>>
      OBVIOUS
    <3> QED BY <1>s, <1>4, <3>1 DEF ResponseWhenDisabled, Receive, Shape
  <2> QED BY <1>s, <2>1 DEF Ordered, Shape, Exchange
<1>5. CASE HandleNotification \/ NotificationLost
  <2>1. PICK x \in notif :
           /\ notif' = notif \ {x}
           /\ UNCHANGED <<as, copy, sent, back, onu, dh>>
           /\ DOMAIN n' = NMembers /\ n'.change = n.change
           /\ DOMAIN hist' = HistMembers /\ hist'.audited = hist.audited
           /\ DOMAIN am' = AmMembers /\ am'.process = am.process /\ am'.audit = am.audit
           /\ am'.upSeq = am.upSeq /\ am'.upCmds = am.upCmds
           /\ Skipped \/ Taken(x)
    BY <1>s, <1>5, NotificationEnds
  <2>2. /\ IsFiniteSet(notif')
        /\ \A y \in notif' : y.me \in MEs /\ y.nth \in 1 .. n'.change
        /\ \A y, z \in notif' : y.nth = z.nth => y = z
    BY <1>s, <2>1, OneLess
  <2>3. am'.last \in 0 .. SeqMax /\ hist'.missed \in Nat /\ hist'.regular \in BOOLEAN
    <3>1. am.last \in 0 .. SeqMax /\ hist.missed \in Nat
      BY <1>s DEF Shape
    <3>2. am'.last = am.last \/ am'.last = NextSeq(am.last)
      BY <2>1 DEF Skipped, Taken
    <3>3. hist'.missed = hist.missed \/ hist'.missed = hist.missed + 1
      BY <2>1 DEF Skipped, Taken
    <3>4. hist'.regular \in BOOLEAN
      BY <2>1 DEF Skipped, Taken
    <3> QED BY <3>1, <3>2, <3>3, <3>4, SeqMaxType DEF NextSeq
  <2>4. DOMAIN active' = MEs /\ pend' \subseteq Posts
    BY <1>s, <2>1 DEF Shape, Skipped, Taken, Applied, Posts, Causes
  <2>5. Shape'
    BY <1>s, <2>1, <2>2, <2>3, <2>4 DEF Shape
  <2>6. Exchange'
    <3>1. pend' = pend \/ pend' = pend \cup {"Early"}
      BY <2>1 DEF Skipped, Taken
    <3> QED BY <1>s, <2>1, <3>1, ExchangeKept
  <2> QED BY <2>5, <2>6 DEF Ordered
<1>6. CASE OnuChanges
  <2>1. PICK m \in MEs, x \in notif' :
           /\ notif' = notif \cup {x} /\ x \notin notif
           /\ x.me = m /\ x.nth = n'.change
           /\ IsFiniteSet(notif')
           /\ DOMAIN n' = NMembers /\ n'.change = n.change + 1
           /\ DOMAIN onu' = OnuMembers /\ onu'.seq = OnuNextSeq(onu.seq)
           /\ onu'.snap = onu.snap /\ onu'.shot = onu.shot
           /\ DOMAIN onu'.alarms = MEs
           /\ UNCHANGED <<as, pend, am, active, db, copy, sent, back, dh, hist>>
    BY <1>s, <1>6, OneMore
  <2>2. onu'.seq \in 0 .. SeqMax
    <3>1. onu.seq \in 0 .. SeqMax /\ onu.seq \in Nat
      BY <1>s DEF Shape
    <3>2. onu.seq % SeqMax \in 0 .. SeqMax - 1
      BY <3>1, Remainder
    <3> QED BY <2>1, <3>2, SeqMaxType DEF OnuNextSeq
  <2>3. /\ \A y \in notif' : y.me \in MEs /\ y.nth \in 1 .. n'.change
        /\ \A y, z \in notif' : y.nth = z.nth => y = z
    BY <1>s, <2>1 DEF Shape
  <2>4. n'.change \in Nat
    BY <1>s, <2>1 DEF Shape
  <2>5. Shape'
    BY <1>s, <2>1, <2>2, <2>3, <2>4 DEF Shape
  <2>6. Exchange'
    BY <1>s, <2>1 DEF Exchange
  <2> QED BY <2>5, <2>6 DEF Ordered
<1>7. CASE OnuAnswers
  <2>1. UNCHANGED <<as, pend, am, active, copy, notif, dh, n>> /\ sent # <<>> /\ back = <<>> /\ sent' = <<>>
    BY <1>7 DEF OnuAnswers
  <2>2. back' # <<>> /\ back' = <<Head(back')>> /\ Head(back').type \in {"all", "next"}
    BY <1>7 DEF OnuAnswers
  <2>3. DOMAIN onu' = OnuMembers /\ onu'.seq \in 0 .. SeqMax /\ DOMAIN onu'.alarms = MEs /\ DOMAIN onu'.shot = MEs
    <3> DEFINE q == SetToSeq({m \in MEs : onu.alarms[m] # {}})
               o == [onu EXCEPT !.seq = 0, !.snap = q, !.shot = onu.alarms]
    <3>1. onu' = onu \/ onu' = o
      BY <1>7 DEF OnuAnswers
    <3> HIDE DEF q
    <3>2. DOMAIN o = OnuMembers /\ o.seq = 0 /\ o.alarms = onu.alarms /\ o.shot = onu.alarms
      BY <1>s DEF Shape, OnuMembers
    <3> HIDE DEF o
    <3> QED BY <1>s, <3>1, <3>2, SeqMaxType DEF Shape
  <2>4. DOMAIN hist' = HistMembers /\ hist'.missed \in Nat /\ {hist'.regular, hist'.audited} \subseteq BOOLEAN
    <3>1. hist' = hist \/ hist' = [hist EXCEPT !.regular = TRUE, !.missed = 0]
      BY <1>7 DEF OnuAnswers
    <3>2. CASE hist' = [hist EXCEPT !.regular = TRUE, !.missed = 0]
      BY <1>s, <3>2 DEF Shape, HistMembers
    <3> QED BY <1>s, <3>1, <3>2 DEF Shape
  <2>5. Shape'
    BY <1>s, <2>1, <2>2, <2>3, <2>4 DEF Shape
  <2>6. Exchange'
    BY <1>s, <2>1 DEF Exchange
  <2> QED BY <2>5, <2>6 DEF Ordered
<1>8. CASE RequestTimeout
  <2>1. UNCHANGED <<as, pend, am, active, copy, back, notif, onu, dh>> /\ sent' = <<>>
    BY <1>8 DEF RequestTimeout
  <2>2. /\ DOMAIN hist' = HistMembers /\ hist'.missed \in Nat /\ {hist'.regular, hist'.audited} \subseteq BOOLEAN
        /\ DOMAIN n' = NMembers /\ n'.change = n.change
    BY <1>s, <1>8 DEF RequestTimeout, Disturb, Shape, HistMembers, NMembers
  <2> QED BY <1>s, <2>1, <2>2 DEF Ordered, Shape, Exchange
<1>9. CASE StartAlarmManager
  <2>1. Shape'
    BY <1>s, <1>9, StartEffect DEF Shape, Posts, States
  <2>2. Exchange'
    BY <1>s, <1>9, StartEffect DEF Exchange
  <2> QED BY <2>1, <2>2 DEF Ordered
<1>10. CASE StopAlarmManager
  <2>1. /\ UNCHANGED <<as, am, active, copy, back, notif, onu, n, hist>> /\ sent' = <<>>
        /\ pend' = pend \cup {"Stop"} /\ DOMAIN dh' = {"at", "timers"}
    BY <1>s, <1>10 DEF StopAlarmManager, Shape
  <2> QED BY <1>s, <2>1 DEF Ordered, Shape, Exchange, Posts
<1>11. CASE StopProcessing
  <2>1. /\ UNCHANGED <<as, pend, copy, sent, back, notif, onu, n, hist>> /\ DOMAIN active' = MEs
        /\ DOMAIN dh' = {"at", "timers"}
        /\ DOMAIN am' = AmMembers /\ am'.last = am.last /\ am'.upSeq = 0
    BY <1>s, <1>11 DEF StopProcessing, Shape, AmMembers
  <2>2. am'.last \in 0 .. SeqMax /\ am'.upSeq \in Nat
    BY <1>s, <2>1 DEF Shape
  <2>3. Shape'
    BY <1>s, <2>1, <2>2 DEF Shape
  <2> QED BY <1>s, <2>1, <2>3 DEF Ordered, Exchange
<1>12. CASE UNCHANGED vars
  BY <1>s, <1>12 DEF Ordered, Shape, Exchange, vars
<1> QED BY <1>1, <1>2, <1>3, <1>4, <1>5, <1>6, <1>7, <1>8, <1>9, <1>10, <1>11, <1>12
        DEF Next, Messages
-----------------------------------------------------------------------------
(* The premises, and the invariants about the sequence numbers.            *)

\* The stop event of one life of the alarm manager is handled before the next
\* life begins (resetFsms, StartAlarmManager): true of every first life.
StopTaken == dh.at = "up" => "Stop" \notin pend

\* There are at most as many notifications on the way as there are numbers.
FewOnTheWay == Cardinality(notif) <= SeqMax

\* While the device is up the FSM is in use and notifications are processed;
\* afterwards it is disabled, or will be.
Life ==
  /\ dh.at \in {"off", "up", "stop"}
  /\ dh.at = "up" => as # "Disabled" /\ am.process
  /\ dh.at # "up" => as = "Disabled" \/ "Stop" \in pend

\* The answer that resets the number is on its way; the number the adapter
\* will have counted from, then.
Fresh == back # <<>> /\ Head(back).type = "all"
Base == IF Fresh THEN 0 ELSE am.last

\* The ONU answered the first request of the audit, and the audit can go on.
Underway ==
  \/ back # <<>>
  \/ sent # <<>> /\ Head(sent).type = "next"
  \/ "Success" \in pend \/ "Resync" \in pend

\* The adapter's number and the ONU's count the same notifications.
Counted ==
  /\ dh.at = "up"
  /\ \/ as = "Auditing" /\ Underway
     \/ as = "Resynchronizing"
     \/ as = "InSync" /\ hist.audited

\* The number of the last notification that is no longer on the way.
Handled == n.change - Cardinality(notif)

\* The ONU is ahead by what was not applied and what is on its way; as long as
\* all came in order, these are the last ones, numbered without a gap.
Numbers ==
  /\ hist.regular => hist.missed = 0
  /\ dh.at = "up" /\ as = "Starting" => ~hist.regular /\ ~hist.audited
  /\ dh.at = "up" /\ as = "InSync" /\ hist.regular => hist.audited
  /\ Counted => onu.seq = Ahead(Base, hist.missed + Cardinality(notif))
  /\ Counted /\ hist.regular =>
       /\ \A k \in Handled + 1 .. n.change : \E x \in notif : x.nth = k
       /\ \A x \in notif : x.nth > Handled /\ x.seq = Ahead(Base, x.nth - Handled)

\* An event leaves the members of the alarm manager alone that matter here.
LEMMA FireKeeps ==
  ASSUME Ordered, Fire
  PROVE  SameAlarmManager
<1>1. PICK p \in pend : Rejected(p) \/ AuditBegins(p) \/ ResyncBegins(p) \/ SyncReached(p)
  BY FireEffect
<1>2. am' = am \/ am' = [am EXCEPT !.async = FALSE] \/ am' = [am EXCEPT !.upSeq = 0, !.upCmds = 0]
  BY <1>1 DEF Rejected, AuditBegins, ResyncBegins, SyncReached
<1> QED BY <1>2 DEF Ordered, Shape, AmMembers, SameAlarmManager

\* A life begins with a disabled FSM and ends with one, or with the event that
\* disables it.
LEMMA LifeStep ==
  ASSUME Ordered, Life, StopTaken, StopTaken', [Next]_vars
  PROVE  Life'
<1>s. Shape /\ Exchange
  BY DEF Ordered
<1>1. CASE Fire
  <2>1. dh' = dh /\ SameAlarmManager
    BY <1>1, FireEffect, FireKeeps
  <2>2. PICK p \in pend : Rejected(p) \/ AuditBegins(p) \/ ResyncBegins(p) \/ SyncReached(p)
    BY <1>1, FireEffect
  <2>3. CASE dh.at = "up"
    BY <2>1, <2>2, <2>3 DEF Life, StopTaken, SameAlarmManager, Rejected, AuditBegins, ResyncBegins, SyncReached
  <2>4. CASE dh.at # "up"
    <3>1. CASE as = "Disabled"
      BY <2>1, <2>2, <2>4, <3>1 DEF Life, Rejected, AuditBegins, ResyncBegins, SyncReached
    <3>2. CASE "Stop" \in pend
      BY <2>1, <2>2, <2>4, <3>2 DEF Life, Rejected, AuditBegins, ResyncBegins, SyncReached, Causes
    <3> QED BY <2>4, <3>1, <3>2 DEF Life
  <2> QED BY <2>3, <2>4
<1>2. CASE AuditTimer \/ AlarmsRequested \/ Request \/ StopAuditTimer
  BY <1>s, <1>2, AsideSteps DEF Aside, Life, SameAlarmManager
<1>3. CASE GetAllAlarmsResponse \/ GetAllAlarmNextResponse
  BY <1>s, <1>3, Answers DEF AnswerTaken, Life
<1>4. CASE ResponseWhenDisabled
  BY <1>4 DEF ResponseWhenDisabled, Life
<1>5. CASE HandleNotification \/ NotificationLost
  <2>1. PICK x \in notif : as' = as /\ dh' = dh /\ am'.process = am.process /\ (Skipped \/ Taken(x))
    BY <1>s, <1>5, NotificationEnds
  <2>2. pend' = pend \/ pend' = pend \cup {"Early"}
    BY <2>1 DEF Skipped, Taken
  <2> QED BY <2>1, <2>2 DEF Life
<1>6. CASE OnuChanges
  BY <1>s, <1>6, OneMore DEF Life
<1>7. CASE OnuAnswers \/ RequestTimeout
  BY <1>7 DEF OnuAnswers, RequestTimeout, Life
<1>8. CASE StartAlarmManager
  <2>1. as = "Disabled" \/ "Stop" \in pend'
    BY <1>s, <1>8, StartEffect DEF Life
  <2> QED BY <1>s, <1>8, <2>1, StartEffect DEF Life, StopTaken
<1>9. CASE StopAlarmManager
  BY <1>s, <1>9 DEF StopAlarmManager, Life, Shape
<1>10. CASE StopProcessing
  BY <1>10 DEF StopProcessing, Life
<1>11. CASE UNCHANGED vars
  BY <1>11 DEF vars, Life
<1> QED BY <1>1, <1>2, <1>3, <1>4, <1>5, <1>6, <1>7, <1>8, <1>9, <1>10, <1>11 DEF Next, Messages

\* Steps at which nothing is counted, or the count goes on as before.
LEMMA NumbersKept ==
  ASSUME Numbers, hist'.regular => hist.regular, hist'.missed = hist.missed,
         dh'.at = "up" /\ as' = "Starting" => ~hist'.regular /\ ~hist'.audited,
         dh'.at = "up" /\ as' = "InSync" /\ hist'.regular => hist'.audited,
         Counted' => /\ Counted /\ Base' = Base /\ onu'.seq = onu.seq
                     /\ notif' = notif /\ n'.change = n.change
  PROVE  Numbers'
<1>1. Counted' => Handled' = Handled
  BY DEF Handled
<1>2. Counted' => onu'.seq = Ahead(Base', hist'.missed + Cardinality(notif'))
  BY DEF Numbers
<1>3. Counted' /\ hist'.regular =>
       /\ \A k \in Handled' + 1 .. n'.change : \E x \in notif' : x.nth = k
       /\ \A x \in notif' : x.nth > Handled' /\ x.seq = Ahead(Base', x.nth - Handled')
  BY <1>1 DEF Numbers
<1> QED BY <1>2, <1>3 DEF Numbers

\* The count begins only with the answer that resets the number.
LEMMA CountedFire ==
  ASSUME Ordered, Life, StopTaken, Numbers, Fire
  PROVE  /\ Counted' => Counted
         /\ Base' = Base
         /\ dh.at = "up" /\ as' = "Starting" => as = "Starting" /\ hist'.audited = hist.audited
         /\ dh.at = "up" /\ as' = "InSync" /\ hist'.regular => hist'.audited
<1>1. UNCHANGED <<back, notif, onu, dh>> /\ SameHist /\ am'.last = am.last
  BY FireEffect, FireKeeps DEF SameAlarmManager
<1>2. Base' = Base
  BY <1>1 DEF Base, Fresh
<1>3. PICK p \in pend :
        \/ Rejected(p)
        \/ AuditBegins(p) /\ hist'.audited = hist.audited
        \/ ResyncBegins(p) /\ hist'.audited = hist.audited
        \/ SyncReached(p) /\ hist'.audited = (hist.audited \/ p = "Success")
  BY FireEffect
<1>4. CASE Rejected(p)
  <2>1. UNCHANGED <<as, sent, back, dh, hist>> /\ pend' \subseteq pend
    BY <1>1, <1>4 DEF Rejected
  <2>2. Counted' => Counted
    BY <2>1 DEF Counted, Underway
  <2> QED BY <1>2, <2>1, <2>2 DEF Numbers
<1>5. CASE AuditBegins(p)
  <2>1. as' = "Auditing" /\ back' = <<>> /\ "Success" \notin pend' /\ "Resync" \notin pend'
    BY <1>1, <1>5 DEF AuditBegins, Ordered, Exchange
  <2>2. sent' = <<>> \/ Head(sent').type = "all"
    <3>1. as \in {"Starting", "InSync"} /\ (sent' = sent \/ sent' = <<[type |-> "all", no |-> 0]>>)
      BY <1>5 DEF AuditBegins
    <3>2. sent = <<>>
      BY <3>1 DEF Ordered, Exchange
    <3> QED BY <3>1, <3>2
  <2>3. ~Counted'
    BY <2>1, <2>2 DEF Counted, Underway
  <2> QED BY <1>2, <2>1, <2>3
<1>6. CASE ResyncBegins(p)
  <2>1. as' = "Resynchronizing" /\ as = "Auditing" /\ "Resync" \in pend
    BY <1>6 DEF ResyncBegins
  <2> QED BY <1>1, <1>2, <2>1 DEF Counted, Underway
<1>7. CASE SyncReached(p) /\ hist'.audited = (hist.audited \/ p = "Success")
  <2>1. CASE p = "Sync" /\ as = "Starting" /\ as' = "InSync"
    BY <1>1, <1>2, <1>7, <2>1 DEF Numbers, Counted, SameHist
  <2>2. CASE p = "Success" /\ as \in {"Auditing", "Resynchronizing"} /\ as' = "InSync"
    BY <1>1, <1>2, <1>7, <2>2 DEF Counted, Underway
  <2>3. CASE as' = "Disabled"
    BY <1>2, <2>3 DEF Counted
  <2> QED BY <1>7, <2>1, <2>2, <2>3 DEF SyncReached
<1> QED BY <1>3, <1>4, <1>5, <1>6, <1>7

\* A notification that ends is counted.
LEMMA NumbersEnd ==
  ASSUME Ordered, Life, Numbers, NEW x \in notif,
         notif' = notif \ {x}, UNCHANGED <<as, sent, back, onu, dh>>,
         n'.change = n.change, hist'.audited = hist.audited, Skipped \/ Taken(x)
  PROVE  /\ Numbers'
         /\ Counted /\ hist.regular /\ Older(x) = {} => x.seq = Ahead(Base, 1)
<1> DEFINE F == Cardinality(notif)
<1>1. F \in Nat /\ Cardinality(notif') \in Nat /\ F = Cardinality(notif') + 1
  BY OneLess DEF Ordered
<1> HIDE DEF F
<1>2. n.change \in Nat /\ hist.missed \in Nat /\ am.last \in 0 .. SeqMax /\ Base \in 0 .. SeqMax
  BY SeqMaxType DEF Ordered, Shape, Base
<1>3. Counted' => Counted
  <2>1. pend' = pend \/ pend' = pend \cup {"Early"}
    BY DEF Skipped, Taken
  <2>2. /\ "Success" \in pend' => "Success" \in pend
        /\ "Resync" \in pend' => "Resync" \in pend
    BY <2>1
  <2>3. Underway' => Underway
    BY <2>2 DEF Underway
  <2> QED BY <2>3 DEF Counted
<1>4. ASSUME Counted, hist.regular
      PROVE  /\ \A k \in Handled + 1 .. n.change : \E y \in notif : y.nth = k
             /\ \A y \in notif : y.nth > Handled /\ y.seq = Ahead(Base, y.nth - Handled)
             /\ Handled = n.change - F
  BY <1>4 DEF Numbers, Handled, F
<1>5. ASSUME Counted, hist.regular, Older(x) = {}
      PROVE  x.nth = Handled + 1 /\ x.seq = Ahead(Base, 1)
  <2>1. /\ \A k \in Handled + 1 .. n.change : \E y \in notif : y.nth = k
        /\ \A y \in notif : y.nth > Handled /\ y.seq = Ahead(Base, y.nth - Handled)
        /\ Handled = n.change - F
    BY <1>4, <1>5
  <2>2. Handled \in Int /\ Handled + 1 \in Handled + 1 .. n.change
    BY <1>1, <1>2, <2>1
  <2>3. PICK y \in notif : y.nth = Handled + 1
    BY <2>1, <2>2
  <2>4. x.nth \in Nat /\ y.nth >= x.nth /\ x.nth > Handled
    BY <1>5, <2>1 DEF Older, Ordered, Shape
  <2>5. x.nth = Handled + 1
    BY <2>2, <2>3, <2>4
  <2>6. x.nth - Handled = 1
    BY <2>2, <2>5
  <2> QED BY <2>1, <2>5, <2>6
<1>6. hist'.regular => hist.regular /\ Older(x) = {} /\ Taken(x)
  BY DEF Skipped, Taken, Ordered, Shape
<1>7. Fresh' <=> Fresh
  BY DEF Fresh
<1>8. CASE Skipped
  <2>1. Base' = Base /\ hist'.missed = hist.missed + 1 /\ hist'.regular = FALSE
    BY <1>7, <1>8 DEF Base, Skipped
  <2>2. hist'.missed + Cardinality(notif') = hist.missed + F
    BY <1>1, <1>2, <2>1
  <2>3. Counted' => onu'.seq = Ahead(Base', hist'.missed + Cardinality(notif'))
    BY <1>3, <2>1, <2>2 DEF Numbers, F
  <2> QED BY <1>5, <2>1, <2>3 DEF Numbers
<1>9. CASE Taken(x)
  <2>1. as # "Auditing" /\ as # "Resynchronizing" /\ am'.last = NextSeq(am.last) /\ hist'.missed = hist.missed
    BY <1>9 DEF Taken
  <2>2. Counted => ~Fresh
    BY <2>1 DEF Counted, Fresh, Ordered, Exchange
  <2>3. Counted => Base' = NextSeq(Base) /\ NextSeq(Base) \in 0 .. SeqMax
    BY <1>2, <1>7, <2>1, <2>2, Counting DEF Base
  <2>4. Counted' => onu'.seq = Ahead(Base', hist'.missed + Cardinality(notif'))
    <3> SUFFICES ASSUME Counted' PROVE onu'.seq = Ahead(Base', hist'.missed + Cardinality(notif'))
      OBVIOUS
    <3> DEFINE k == hist.missed + Cardinality(notif')
    <3>1. k \in Nat /\ k + 1 = hist.missed + F
      BY <1>1, <1>2
    <3>2. onu.seq = Ahead(Base, hist.missed + F)
      BY <1>3 DEF Numbers, F
    <3> HIDE DEF k
    <3>3. Ahead(NextSeq(Base), k) = Ahead(Base, k + 1)
      BY <1>2, <3>1, Counting
    <3> QED BY <1>3, <2>1, <2>3, <3>1, <3>2, <3>3 DEF k
  <2>5. ASSUME Counted', hist'.regular
        PROVE  /\ \A k \in Handled' + 1 .. n'.change : \E y \in notif' : y.nth = k
               /\ \A y \in notif' : y.nth > Handled' /\ y.seq = Ahead(Base', y.nth - Handled')
    <3>1. Counted /\ hist.regular /\ Older(x) = {}
      BY <1>3, <1>6, <2>5
    <3>2. /\ \A k \in Handled + 1 .. n.change : \E y \in notif : y.nth = k
          /\ \A y \in notif : y.nth > Handled /\ y.seq = Ahead(Base, y.nth - Handled)
          /\ Handled = n.change - F /\ x.nth = Handled + 1
      BY <1>4, <1>5, <3>1
    <3>3. Handled' = Handled + 1 /\ Handled \in Int
      BY <1>1, <1>2, <3>2 DEF Handled
    <3>4. ASSUME NEW k \in Handled' + 1 .. n'.change PROVE \E y \in notif' : y.nth = k
      <4>1. k \in Handled + 1 .. n.change /\ k # x.nth
        BY <1>2, <3>2, <3>3
      <4> QED BY <3>2, <4>1
    <3>5. ASSUME NEW y \in notif' PROVE y.nth > Handled' /\ y.seq = Ahead(Base', y.nth - Handled')
      <4>1. y \in notif /\ y.nth # x.nth /\ y.nth \in Nat
        BY DEF Ordered, Shape
      <4>2. y.nth > Handled'
        BY <3>2, <3>3, <4>1
      <4> DEFINE k == y.nth - Handled'
      <4>3. k \in Nat /\ k + 1 = y.nth - Handled
        BY <3>3, <4>1, <4>2
      <4>4. y.seq = Ahead(Base, y.nth - Handled)
        BY <3>2, <4>1
      <4> HIDE DEF k
      <4>5. Ahead(NextSeq(Base), k) = Ahead(Base, k + 1)
        BY <1>2, <4>3, Counting
      <4> QED BY <2>3, <3>1, <4>2, <4>3, <4>4, <4>5 DEF k
    <3> QED BY <3>4, <3>5
  <2>6. hist'.regular => hist'.missed = 0
    BY <1>6, <2>1 DEF Numbers
  <2>7. /\ dh'.at = "up" /\ as' = "Starting" => ~hist'.regular /\ ~hist'.audited
        /\ dh'.at = "up" /\ as' = "InSync" /\ hist'.regular => hist'.audited
    BY <1>6 DEF Numbers
  <2> QED BY <1>5, <2>4, <2>5, <2>6, <2>7 DEF Numbers
<1> QED BY <1>8, <1>9

\* The ONU counts on.
LEMMA NumbersMore ==
  ASSUME Ordered, Life, Numbers, OnuChanges
  PROVE  Numbers'
<1>1. PICK m \in MEs, x \in notif' :
           /\ notif' = notif \cup {x} /\ x \notin notif
           /\ x.nth = n'.change /\ x.seq = OnuNextSeq(onu.seq)
           /\ Cardinality(notif) \in Nat /\ Cardinality(notif') = Cardinality(notif) + 1
           /\ n'.change = n.change + 1
           /\ onu'.seq = OnuNextSeq(onu.seq)
           /\ UNCHANGED <<as, pend, am, sent, back, dh, hist>>
  BY OneMore DEF Ordered
<1> DEFINE F == Cardinality(notif)
<1>2. n.change \in Nat /\ hist.missed \in Nat /\ Base \in 0 .. SeqMax
  BY SeqMaxType DEF Ordered, Shape, Base
<1>3. (Counted' <=> Counted) /\ Base' = Base
  BY <1>1 DEF Counted, Underway, Base, Fresh
<1>4. Handled' = Handled /\ Handled = n.change - F /\ Handled \in Int
  BY <1>1, <1>2 DEF Handled
<1>5. ASSUME Counted
      PROVE  onu'.seq = Ahead(Base, hist.missed + (F + 1))
  <2> DEFINE k == hist.missed + F
  <2>1. k \in Nat /\ k + 1 = hist.missed + (F + 1) /\ onu.seq = Ahead(Base, k)
    BY <1>1, <1>2, <1>5 DEF Numbers
  <2> HIDE DEF k
  <2>2. OnuNextSeq(Ahead(Base, k)) = Ahead(Base, k + 1)
    BY <1>2, <2>1, Counting
  <2> QED BY <1>1, <2>1, <2>2
<1>6. Counted' => onu'.seq = Ahead(Base', hist'.missed + Cardinality(notif'))
  BY <1>1, <1>3, <1>5
<1>7. ASSUME Counted', hist'.regular
      PROVE  /\ \A k \in Handled' + 1 .. n'.change : \E y \in notif' : y.nth = k
             /\ \A y \in notif' : y.nth > Handled' /\ y.seq = Ahead(Base', y.nth - Handled')
  <2>1. Counted /\ hist.regular /\ hist.missed = 0
    BY <1>1, <1>3, <1>7 DEF Numbers
  <2>2. /\ \A k \in Handled + 1 .. n.change : \E y \in notif : y.nth = k
        /\ \A y \in notif : y.nth > Handled /\ y.seq = Ahead(Base, y.nth - Handled)
    BY <2>1 DEF Numbers
  <2>3. x.nth > Handled' /\ x.nth - Handled' = hist.missed + (F + 1)
    BY <1>1, <1>2, <1>4, <2>1
  <2>4. x.seq = Ahead(Base', x.nth - Handled')
    BY <1>1, <1>3, <1>5, <2>1, <2>3
  <2>5. ASSUME NEW k \in Handled' + 1 .. n'.change PROVE \E y \in notif' : y.nth = k
    <3>1. k = n'.change \/ k \in Handled + 1 .. n.change
      BY <1>1, <1>2, <1>4
    <3> QED BY <1>1, <2>2, <3>1
  <2>6. ASSUME NEW y \in notif' PROVE y.nth > Handled' /\ y.seq = Ahead(Base', y.nth - Handled')
    BY <1>1, <1>3, <1>4, <2>2, <2>3, <2>4
  <2> QED BY <2>5, <2>6
<1> QED BY <1>1, <1>6, <1>7 DEF Numbers

\* The ONU resets its number, or goes on with its answers.
LEMMA NumbersAnswer ==
  ASSUME Ordered, Life, Numbers, OnuAnswers
  PROVE  Numbers'
<1>1. UNCHANGED <<as, pend, am, notif, dh, n>> /\ sent # <<>> /\ back = <<>> /\ sent' = <<>>
  BY DEF OnuAnswers
<1>2. dh.at = "up" => as = "Auditing"
  BY <1>1 DEF Life, Ordered, Exchange
<1>3. CASE Head(sent).type = "all"
  <2>1. /\ notif = {} /\ onu'.seq = 0 /\ back' # <<>> /\ Head(back').type = "all"
        /\ hist'.missed = 0
    <3> DEFINE q == SetToSeq({m \in MEs : onu.alarms[m] # {}})
    <3>1. /\ notif = {} /\ back' = <<[type |-> "all", cmds |-> Len(q)]>>
          /\ hist' = [hist EXCEPT !.regular = TRUE, !.missed = 0]
          /\ onu' = [onu EXCEPT !.seq = 0, !.snap = q, !.shot = onu.alarms]
      BY <1>3 DEF OnuAnswers
    <3> HIDE DEF q
    <3>2. back' # <<>> /\ Head(back').type = "all"
      BY <3>1
    <3> QED BY <3>1, <3>2 DEF Ordered, Shape, OnuMembers, HistMembers
  <2>2. Base' = 0
    BY <2>1 DEF Base, Fresh
  <2>3. Cardinality(notif') = 0
    BY <1>1, <2>1, FS_EmptySet
  <2>4. onu'.seq = Ahead(Base', hist'.missed + Cardinality(notif'))
    BY <2>1, <2>2, <2>3 DEF Ahead
  <2>5. Handled' = n'.change /\ n'.change \in Nat
    BY <1>1, <2>3 DEF Handled, Ordered, Shape
  <2>6. Handled' + 1 .. n'.change = {}
    BY <2>5
  <2> QED BY <1>1, <1>2, <2>1, <2>4, <2>6 DEF Numbers
<1>4. CASE Head(sent).type # "all"
  <2>1. onu' = onu /\ hist' = hist /\ back' # <<>> /\ Head(back').type = "next"
    BY <1>4 DEF OnuAnswers
  <2>2. Head(sent).type = "next"
    BY <1>1, <1>4 DEF Ordered, Shape
  <2>3. Base' = Base
    BY <1>1, <2>1 DEF Base, Fresh
  <2>4. Counted' => Counted
    BY <1>1, <2>1, <2>2 DEF Counted, Underway
  <2>5. /\ dh'.at = "up" /\ as' = "Starting" => ~hist'.regular /\ ~hist'.audited
        /\ dh'.at = "up" /\ as' = "InSync" /\ hist'.regular => hist'.audited
    BY <1>1, <1>2
  <2> QED BY <1>1, <2>1, <2>3, <2>4, <2>5, NumbersKept
<1> QED BY <1>3, <1>4

\* Every step keeps the numbers.
LEMMA NumbersStep ==
  ASSUME Ordered, Life, StopTaken, StopTaken', Numbers, [Next]_vars
  PROVE  Numbers'
<1>s. Shape /\ Exchange
  BY DEF Ordered
<1>0. /\ dh.at = "up" /\ as = "Starting" => ~hist.regular /\ ~hist.audited
      /\ dh.at = "up" /\ as = "InSync" /\ hist.regular => hist.audited
  BY DEF Numbers
<1>1. CASE Fire
  <2>1. UNCHANGED <<back, notif, onu, dh>> /\ SameHist /\ n'.change = n.change
    BY <1>1, FireEffect
  <2>2. /\ Counted' => Counted
        /\ Base' = Base
        /\ dh.at = "up" /\ as' = "Starting" => as = "Starting" /\ hist'.audited = hist.audited
        /\ dh.at = "up" /\ as' = "InSync" /\ hist'.regular => hist'.audited
    BY <1>1, CountedFire
  <2> QED BY <1>0, <2>1, <2>2, NumbersKept DEF SameHist
<1>2. CASE AuditTimer \/ AlarmsRequested \/ Request \/ StopAuditTimer
  <2>1. Aside
    BY <1>s, <1>2, AsideSteps
  <2>2. /\ "Success" \in pend' => "Success" \in pend
        /\ "Resync" \in pend' => "Resync" \in pend
    BY <2>1 DEF Aside
  <2>3. UNCHANGED <<as, sent, back, notif, onu, hist>> /\ am'.last = am.last /\ n'.change = n.change /\ dh'.at = dh.at
    BY <2>1 DEF Aside, SameAlarmManager
  <2>4. (Counted' => Counted) /\ Base' = Base
    BY <2>2, <2>3 DEF Counted, Underway, Base, Fresh
  <2> QED BY <1>0, <2>3, <2>4, NumbersKept
<1>3. CASE GetAllAlarmsResponse \/ GetAllAlarmNextResponse
  <2>1. AnswerTaken
    BY <1>s, <1>3, Answers
  <2>2. UNCHANGED <<as, notif, onu, dh>> /\ n'.change = n.change /\ SameHist /\ hist'.audited = hist.audited
        /\ back # <<>> /\ back' = <<>>
    BY <2>1 DEF AnswerTaken
  <2>3. Base' = Base
    BY <2>1 DEF AnswerTaken, Base, Fresh
  <2>4. Counted' => Counted
    BY <2>2 DEF Counted, Underway
  <2> QED BY <1>0, <2>2, <2>3, <2>4, NumbersKept DEF SameHist
<1>4. CASE ResponseWhenDisabled
  <2>1. as = "Disabled" /\ UNCHANGED <<as, dh, hist>>
    BY <1>4 DEF ResponseWhenDisabled
  <2>2. ~Counted'
    BY <2>1 DEF Counted
  <2> QED BY <2>1, <2>2, NumbersKept
<1>5. CASE HandleNotification \/ NotificationLost
  <2>1. PICK x \in notif :
           /\ notif' = notif \ {x}
           /\ UNCHANGED <<as, copy, sent, back, onu, dh>>
           /\ n'.change = n.change /\ hist'.audited = hist.audited
           /\ Skipped \/ Taken(x)
    BY <1>s, <1>5, NotificationEnds
  <2> QED BY <2>1, NumbersEnd
<1>6. CASE OnuChanges
  BY <1>6, NumbersMore
<1>7. CASE OnuAnswers
  BY <1>7, NumbersAnswer
<1>8. CASE RequestTimeout
  <2>1. UNCHANGED <<as, pend, am, back, notif, onu, dh>> /\ sent' = <<>>
    BY <1>8 DEF RequestTimeout
  <2>2. /\ hist'.regular = hist.regular /\ hist'.missed = hist.missed /\ hist'.audited = hist.audited
        /\ n'.change = n.change
    BY <1>s, <1>8 DEF RequestTimeout, Disturb, Shape, HistMembers, NMembers
  <2>3. (Counted' => Counted) /\ Base' = Base
    BY <2>1, <2>2 DEF Counted, Underway, Base, Fresh
  <2> QED BY <1>0, <2>1, <2>2, <2>3, NumbersKept
<1>9. CASE StartAlarmManager
  <2>1. as' = "Starting" /\ hist'.regular = FALSE /\ hist'.audited = FALSE /\ hist'.missed = hist.missed
    <3>1. as = "Disabled" \/ "Stop" \in pend'
      BY <1>s, <1>9, StartEffect DEF Life
    <3> QED BY <1>s, <1>9, <3>1, StartEffect DEF StopTaken
  <2>2. ~Counted'
    BY <2>1 DEF Counted
  <2> QED BY <2>1, <2>2, NumbersKept
<1>10. CASE StopAlarmManager \/ StopProcessing
  <2>1. dh'.at # "up" /\ hist' = hist
    <3>1. CASE StopAlarmManager
      BY <1>s, <3>1 DEF StopAlarmManager, Shape
    <3>2. CASE StopProcessing
      BY <3>2 DEF StopProcessing
    <3> QED BY <1>10, <3>1, <3>2
  <2>2. ~Counted'
    BY <2>1 DEF Counted
  <2> QED BY <2>1, <2>2, NumbersKept
<1>11. CASE UNCHANGED vars
  <2>1. UNCHANGED <<as, sent, pend, back, am, notif, onu, hist, n, dh>>
    BY <1>11 DEF vars
  <2>2. (Counted' => Counted) /\ Base' = Base
    BY <2>1 DEF Counted, Underway, Base, Fresh
  <2> QED BY <1>0, <2>1, <2>2, NumbersKept
<1> QED BY <1>1, <1>2, <1>3, <1>4, <1>5, <1>6, <1>7, <1>8, <1>9, <1>10, <1>11 DEF Next, Messages

\* The inductive invariant so far.
CountInv == Ordered /\ Life /\ Numbers

\* It holds at first.
LEMMA CountInit == Init => CountInv
<1> SUFFICES ASSUME Init PROVE Life /\ Numbers
  BY OrderedInit DEF CountInv
<1>1. as = "Disabled" /\ dh.at = "off" /\ hist.regular = FALSE
  BY DEF Init
<1> QED BY <1>1 DEF Life, Numbers, Counted

\* Every step keeps it.
LEMMA CountStep == CountInv /\ StopTaken /\ StopTaken' /\ [Next]_vars => CountInv'
BY OrderedStep, LifeStep, NumbersStep DEF CountInv

\* Only a notification out of order asks for an audit out of turn.
LEMMA EarlyStep ==
  ASSUME CountInv, [Next]_vars, dh.at = "up", "Early" \in pend' \ pend, hist'.regular
  PROVE  FALSE
<1>s. Ordered /\ Life /\ Numbers /\ Shape
  BY DEF CountInv, Ordered
<1>1. CASE Fire
  <2>1. PICK p \in pend : Rejected(p) \/ AuditBegins(p) \/ ResyncBegins(p) \/ SyncReached(p)
    BY <1>s, <1>1, FireEffect
  <2>2. \/ pend' = pend \ {p} \/ pend' = (pend \ {p}) \cup {"Failure"}
        \/ pend' = (pend \ {p}) \cup {"Success"}
    BY <2>1 DEF Rejected, AuditBegins, ResyncBegins, SyncReached
  <2> QED BY <2>2
<1>2. CASE AuditTimer \/ AlarmsRequested \/ Request \/ StopAuditTimer
  <2>1. pend' = pend \/ pend' = pend \cup {"Timer"} \/ pend' = pend \cup {"Async"}
    BY <1>s, <1>2, AsideSteps DEF Aside
  <2> QED BY <2>1
<1>3. CASE GetAllAlarmsResponse \/ GetAllAlarmNextResponse
  <2>1. pend' = pend \/ pend' = pend \cup {"Failure"} \/ pend' = pend \cup {Compared(copy')}
    BY <1>s, <1>3, Answers DEF AnswerTaken
  <2>2. Compared(copy') \in {"Success", "Resync"}
    BY DEF Compared
  <2> QED BY <2>1, <2>2
<1>4. CASE ResponseWhenDisabled
  BY <1>4 DEF ResponseWhenDisabled
<1>5. CASE HandleNotification \/ NotificationLost
  <2>1. PICK x \in notif :
           /\ notif' = notif \ {x}
           /\ UNCHANGED <<as, copy, sent, back, onu, dh>>
           /\ n'.change = n.change /\ hist'.audited = hist.audited
           /\ Skipped \/ Taken(x)
    BY <1>s, <1>5, NotificationEnds
  <2>2. /\ as # "Auditing" /\ as # "Resynchronizing" /\ x.seq # NextSeq(am.last)
        /\ hist.regular /\ Older(x) = {}
    BY <1>s, <2>1 DEF Skipped, Taken, Shape
  <2>3. as = "InSync" /\ hist.audited /\ Counted
    BY <1>s, <2>2 DEF Life, Numbers, Counted, Shape, States
  <2>4. x.seq = Ahead(Base, 1)
    BY <1>s, <2>1, <2>2, <2>3, NumbersEnd
  <2>5. Base = am.last /\ am.last \in 0 .. SeqMax
    BY <1>s, <2>3 DEF Base, Fresh, Ordered, Exchange, Shape
  <2> QED BY <2>2, <2>4, <2>5, Counting
<1>6. CASE OnuChanges
  BY <1>s, <1>6, OneMore
<1>7. CASE OnuAnswers \/ RequestTimeout
  BY <1>7 DEF OnuAnswers, RequestTimeout
<1>8. CASE StartAlarmManager
  BY <1>s, <1>8, StartEffect
<1>9. CASE StopAlarmManager \/ StopProcessing
  BY <1>9 DEF StopAlarmManager, StopProcessing
<1>10. CASE UNCHANGED vars
  BY <1>10 DEF vars
<1> QED BY <1>1, <1>2, <1>3, <1>4, <1>5, <1>6, <1>7, <1>8, <1>9, <1>10 DEF Next, Messages

\* An audit out of turn is asked for only after a notification was lost,
\* buffered or reordered, for every number of sequence numbers: the adapter
\* counts as the ONU does (processAlarmData, incrementAlarmSequence).
LEMMA AuditsAreNeeded == Spec /\ []StopTaken => NoNeedlessAudit
<1>1. CountInv /\ [Next]_vars =>
        [dh.at = "up" /\ "Early" \in pend' \ pend => ~hist'.regular]_vars
  BY EarlyStep
<1> QED BY <1>1, CountInit, CountStep, PTL DEF Spec, NoNeedlessAudit
-----------------------------------------------------------------------------
(* The invariants about the alarms.                                        *)

\* What was applied out of order led to an audit out of turn.
Noticed ==
  Counted /\ hist.missed = 0 =>
    hist.regular \/ (as = "InSync" /\ (am.audit => "Early" \in pend))

\* The table of the bitmaps is right.
Tables == \A m \in DOMAIN db : m \in MEs /\ db[m] = active[m]

\* The entities with alarms at the time of the ONU's snapshot are all listed.
Listed ==
  /\ Len(onu.snap) \in Nat
  /\ \A i \in 1 .. Len(onu.snap) : onu.snap[i] \in MEs
  /\ \A m \in MEs : onu.shot[m] # {} => \E i \in 1 .. Len(onu.snap) : onu.snap[i] = m

\* The first k entities of the snapshot were read.
ReadUpTo(k) == \A i \in 1 .. k : onu.snap[i] \in DOMAIN copy.onu

\* The copies hold the adapter's bitmaps and those of the snapshot.
Copied ==
  /\ DOMAIN copy.olt = DOMAIN db /\ \A m \in DOMAIN db : copy.olt[m] = db[m]
  /\ \A m \in DOMAIN copy.onu : m \in MEs /\ copy.onu[m] = onu.shot[m]

\* The adapter has all alarms of the snapshot.
Resynced == \A m \in Known : onu.shot[m] \subseteq active[m]

\* How far an audit is.
Audited ==
  /\ dh.at = "up" /\ as = "Auditing" =>
       /\ Fresh \/ (sent # <<>> /\ Head(sent).type = "all") =>
            am.upSeq = 0 /\ DOMAIN copy.olt = {} /\ DOMAIN copy.onu = {}
       /\ Underway => Listed
       /\ Fresh => Head(back).cmds = Len(onu.snap)
       /\ Underway /\ ~Fresh => Copied
       /\ sent # <<>> /\ Head(sent).type = "next" =>
            /\ am.upSeq = Head(sent).no + 1 /\ am.upSeq <= Len(onu.snap)
            /\ am.upCmds = Len(onu.snap) /\ ReadUpTo(am.upSeq - 1)
       /\ back # <<>> /\ Head(back).type = "next" =>
            /\ am.upSeq \in 1 .. Len(onu.snap) /\ am.upCmds = Len(onu.snap)
            /\ ReadUpTo(am.upSeq - 1)
            /\ Head(back).me = onu.snap[am.upSeq] /\ Head(back).bits = onu.shot[Head(back).me]
       /\ "Resync" \in pend => ReadUpTo(Len(onu.snap))
       /\ "Success" \in pend => Resynced
  /\ dh.at = "up" /\ as = "Resynchronizing" => Resynced

\* What the adapter has of an entity, or will have once the audit is done.
Told(m) == IF as = "Auditing" THEN onu.shot[m] ELSE active[m]

\* The notifications on the way tell what the adapter does not know yet.
Latest(m, x) ==
  /\ x.me = m /\ \A y \in notif : y.me = m => y.nth <= x.nth
  /\ x.bits = onu.alarms[m]

Reported ==
  Counted /\ hist.regular =>
    \A m \in Known :
      \/ \E x \in notif : Latest(m, x)
      \/ (\A x \in notif : x.me # m) /\ onu.alarms[m] \subseteq Told(m)

\* Steps that go on with the count.
LEMMA NoticedKept ==
  ASSUME Noticed, SameHist,
         Counted' => /\ Counted
                     /\ as = "InSync" =>
                          as' = "InSync" /\ am'.audit = am.audit /\ ("Early" \in pend => "Early" \in pend')
  PROVE  Noticed'
BY DEF Noticed, SameHist

\* A notification applied out of order shows by its number.
LEMMA NoticedEnd ==
  ASSUME Ordered, Life, Numbers, Noticed, FewOnTheWay, NEW x \in notif,
         notif' = notif \ {x}, UNCHANGED <<as, sent, back, onu, dh>>,
         am'.audit = am.audit, n'.change = n.change, hist'.audited = hist.audited, Skipped \/ Taken(x)
  PROVE  Noticed'
<1>1. CASE Skipped
  <2>1. hist'.missed = hist.missed + 1 /\ hist.missed \in Nat
    BY <1>1 DEF Skipped, Ordered, Shape
  <2> QED BY <2>1 DEF Noticed
<1>2. CASE Taken(x)
  <2> SUFFICES ASSUME Counted', hist'.missed = 0, ~hist'.regular
               PROVE  as' = "InSync" /\ (am'.audit => "Early" \in pend')
    BY DEF Noticed
  <2>1. /\ as # "Auditing" /\ as # "Resynchronizing" /\ hist.missed = 0
        /\ hist'.regular = (hist.regular /\ Older(x) = {})
        /\ pend' = IF am.audit /\ x.seq # NextSeq(am.last) THEN pend \cup {"Early"} ELSE pend
    BY <1>2 DEF Taken
  <2>2. Counted /\ as = "InSync"
    BY <2>1 DEF Counted
  <2>3. CASE ~hist.regular
    BY <2>1, <2>2, <2>3 DEF Noticed
  <2>4. CASE hist.regular
    <3> DEFINE F == Cardinality(notif)
    <3>1. F \in Nat /\ F <= SeqMax /\ n.change \in Nat
      BY OneLess DEF Ordered, FewOnTheWay, Shape
    <3> HIDE DEF F
    <3>2. \A y \in notif : y.nth > Handled /\ y.seq = Ahead(Base, y.nth - Handled) /\ y.nth \in 1 .. n.change
      BY <2>2, <2>4 DEF Numbers, Ordered, Shape
    <3>3. PICK y \in notif : y.nth < x.nth
      BY <2>1, <2>4 DEF Older
    <3> DEFINE k == x.nth - Handled
    <3>4. Handled = n.change - F
      BY DEF Handled, F
    <3>5. k \in Nat /\ k > 1 /\ k <= SeqMax
      <4>1. y.nth \in Nat /\ x.nth \in Nat /\ x.nth <= n.change /\ y.nth > Handled
        BY <3>2
      <4> QED BY <3>1, <3>3, <3>4, <4>1, SeqMaxType
    <3>6. x.seq = Ahead(Base, k)
      BY <3>2
    <3> HIDE DEF k
    <3>7. Base = am.last /\ am.last \in 0 .. SeqMax
      BY <2>2 DEF Base, Fresh, Counted, Ordered, Exchange, Shape
    <3>8. x.seq # NextSeq(am.last)
      <4>1. Ahead(am.last, k) # Ahead(am.last, 1)
        BY <3>5, <3>7, Distinct
      <4>2. NextSeq(am.last) = Ahead(am.last, 1)
        BY <3>5, <3>7, Counting
      <4> QED BY <3>6, <3>7, <4>1, <4>2
    <3> QED BY <2>1, <2>2, <3>8
  <2> QED BY <2>3, <2>4
<1> QED BY <1>1, <1>2

\* An entry of the table is the bitmap that was applied last.
LEMMA TablesStep ==
  ASSUME Ordered, Tables, [Next]_vars
  PROVE  Tables'
<1>s. Shape
  BY DEF Ordered
<1>k. Known \subseteq MEs
  BY AlarmManagerAssumption
<1>0. CASE UNCHANGED <<active, db>>
  BY <1>0 DEF Tables
<1>e. CASE DOMAIN db' = {}
  BY <1>e DEF Tables
<1>1. CASE Fire
  <2>1. PICK p \in pend : Rejected(p) \/ AuditBegins(p) \/ ResyncBegins(p) \/ SyncReached(p)
    BY <1>1, FireEffect
  <2>2. CASE ResyncBegins(p) /\ am.process
    <3> DEFINE both == {m \in DOMAIN copy.onu \cap DOMAIN copy.olt : copy.onu[m] # copy.olt[m]}
               onuOnly == DOMAIN copy.onu \ DOMAIN copy.olt
               oltOnly == DOMAIN copy.olt \ DOMAIN copy.onu
               f == [m \in both \cup onuOnly \cup oltOnly |->
                       IF m \in oltOnly THEN copy.olt[m] ELSE copy.onu[m]]
               S == DOMAIN f
    <3>1. active' = Differences.active /\ db' = Differences.db
      BY <2>2 DEF ResyncBegins
    <3>2. active' = AppliedAll(S, f).active /\ db' = AppliedAll(S, f).db
      BY <3>1 DEF Differences
    <3> HIDE DEF S, f
    <3>3. /\ active' = [m \in MEs |-> IF m \in S \cap Known THEN f[m] ELSE active[m]]
          /\ \A m \in DOMAIN db' : (m \in DOMAIN db \/ m \in S \cap Known)
                                   /\ db'[m] = (IF m \in S \cap Known THEN f[m] ELSE db[m])
      BY <3>2 DEF AppliedAll
    <3> QED BY <1>k, <3>3 DEF Tables
  <2>3. CASE ~(ResyncBegins(p) /\ am.process)
    BY <1>0, <2>1, <2>3 DEF Rejected, AuditBegins, ResyncBegins, SyncReached
  <2> QED BY <2>2, <2>3
<1>2. CASE HandleNotification \/ NotificationLost
  <2>1. PICK x \in notif : Skipped \/ Taken(x)
    BY <1>s, <1>2, NotificationEnds
  <2>2. CASE Taken(x)
    <3>1. /\ x.me \in Known
          /\ active' = [active EXCEPT ![x.me] = x.bits]
          /\ \A m \in DOMAIN db' : (m \in DOMAIN db \/ m = x.me)
                                   /\ db'[m] = (IF m = x.me THEN x.bits ELSE db[m])
      BY <2>2 DEF Taken, Applied
    <3> QED BY <1>s, <1>k, <3>1 DEF Tables, Shape
  <2>3. CASE Skipped
    BY <1>0, <2>3 DEF Skipped
  <2> QED BY <2>1, <2>2, <2>3
<1>3. CASE StartAlarmManager
  BY <1>s, <1>e, <1>3, StartEffect
<1>4. CASE StopProcessing
  BY <1>e, <1>4 DEF StopProcessing, NoDB
<1>5. CASE AuditTimer \/ AlarmsRequested \/ Request \/ StopAuditTimer
  BY <1>s, <1>0, <1>5, AsideSteps DEF Aside
<1>6. CASE GetAllAlarmsResponse \/ GetAllAlarmNextResponse
  BY <1>s, <1>0, <1>6, Answers DEF AnswerTaken
<1>7. CASE ResponseWhenDisabled \/ OnuChanges \/ OnuAnswers \/ RequestTimeout \/ StopAlarmManager
  BY <1>0, <1>7 DEF ResponseWhenDisabled, OnuChanges, OnuAnswers, RequestTimeout, StopAlarmManager
<1>8. CASE UNCHANGED vars
  BY <1>0, <1>8 DEF vars
<1> QED BY <1>1, <1>2, <1>3, <1>4, <1>5, <1>6, <1>7, <1>8 DEF Next, Messages

\* A sequence made of a finite set has each of its elements.
LEMMA SequenceOfSet ==
  ASSUME NEW S, IsFiniteSet(S)
  PROVE  /\ Len(SetToSeq(S)) \in Nat
         /\ \A i \in 1 .. Len(SetToSeq(S)) : SetToSeq(S)[i] \in S
         /\ \A m \in S : \E i \in 1 .. Len(SetToSeq(S)) : SetToSeq(S)[i] = m
<1> DEFINE C == Cardinality(S)
           q == SetToSeq(S)
<1>1. C \in Nat /\ ExistsBijection(1 .. C, S)
  BY FS_CardinalityType
<1>2. \E f \in [1 .. C -> S] : IsInjective(f)
  BY <1>1 DEF ExistsBijection, Bijection, Injection, IsInjective
<1>3. q \in [1 .. C -> S] /\ IsInjective(q)
  BY <1>2 DEF SetToSeq
<1> HIDE DEF q, C
<1>4. q \in Injection(1 .. C, S)
  BY <1>3 DEF Injection
<1>5. Cardinality(1 .. C) = C
  BY <1>1, FS_Interval
<1>6. q \in Surjection(1 .. C, S)
  BY <1>4, <1>5, FS_Injection DEF C
<1>7. Len(q) = C
  BY <1>1, <1>3
<1> QED BY <1>1, <1>3, <1>6, <1>7 DEF Surjection, q

\* The ONU's answers to the requests of an audit.
LEMMA AnswerSent ==
  ASSUME Shape, OnuAnswers
  PROVE  /\ UNCHANGED <<as, pend, am, active, db, copy, notif, dh, n>> /\ sent # <<>> /\ back = <<>> /\ sent' = <<>>
         /\ onu'.alarms = onu.alarms /\ back' # <<>>
         /\ \/ /\ Head(sent).type = "all" /\ Head(back').type = "all"
               /\ notif = {} /\ Listed' /\ Head(back').cmds = Len(onu'.snap) /\ onu'.shot = onu.alarms
               /\ hist'.regular = TRUE /\ hist'.missed = 0
            \/ /\ Head(sent).type = "next" /\ Head(back').type = "next" /\ UNCHANGED <<onu, hist>>
               /\ Head(back').me = onu.snap[Head(sent).no + 1]
               /\ Head(back').bits = onu.shot[onu.snap[Head(sent).no + 1]]
<1>1. UNCHANGED <<as, pend, am, active, db, copy, notif, dh, n>> /\ sent # <<>> /\ back = <<>> /\ sent' = <<>>
  BY DEF OnuAnswers
<1>2. CASE Head(sent).type = "all"
  <2> DEFINE S == {m \in MEs : onu.alarms[m] # {}}
             q == SetToSeq(S)
  <2>1. /\ notif = {} /\ back' = <<[type |-> "all", cmds |-> Len(q)]>>
        /\ hist' = [hist EXCEPT !.regular = TRUE, !.missed = 0]
        /\ onu' = [onu EXCEPT !.seq = 0, !.snap = q, !.shot = onu.alarms]
    BY <1>2 DEF OnuAnswers
  <2>2. IsFiniteSet(S)
    BY AlarmManagerAssumption, FS_Subset
  <2>3. /\ Len(q) \in Nat
        /\ \A i \in 1 .. Len(q) : q[i] \in MEs
        /\ \A m \in MEs : onu.alarms[m] # {} => \E i \in 1 .. Len(q) : q[i] = m
    <3> HIDE DEF S
    <3>1. /\ Len(q) \in Nat
          /\ \A i \in 1 .. Len(q) : q[i] \in S
          /\ \A m \in S : \E i \in 1 .. Len(q) : q[i] = m
      BY <2>2, SequenceOfSet
    <3> QED BY <3>1 DEF S
  <2> HIDE DEF q
  <2>4. back' # <<>> /\ Head(back').type = "all" /\ Head(back').cmds = Len(q)
    BY <2>1
  <2>5. onu'.snap = q /\ onu'.shot = onu.alarms /\ onu'.alarms = onu.alarms
    BY <2>1 DEF Shape, OnuMembers
  <2>6. hist'.regular = TRUE /\ hist'.missed = 0
    BY <2>1 DEF Shape, HistMembers
  <2> QED BY <1>1, <1>2, <2>1, <2>3, <2>4, <2>5, <2>6 DEF Listed
<1>3. CASE Head(sent).type # "all"
  <2>1. Head(sent).type = "next"
    BY <1>1, <1>3 DEF Shape
  <2> DEFINE e == onu.snap[Head(sent).no + 1]
  <2>2. back' = <<[type |-> "next", me |-> e, bits |-> onu.shot[e]]>> /\ UNCHANGED <<onu, hist>>
    BY <1>3 DEF OnuAnswers
  <2> HIDE DEF e
  <2>3. back' # <<>> /\ Head(back').type = "next" /\ Head(back').me = e /\ Head(back').bits = onu.shot[e]
    BY <2>2
  <2> QED BY <1>1, <2>1, <2>2, <2>3 DEF e
<1> QED BY <1>2, <1>3

\* Steps that leave an audit where it is.
LEMMA AuditedKept ==
  ASSUME Audited, UNCHANGED <<as, active, db, copy, back>>, dh'.at = dh.at,
         onu'.snap = onu.snap, onu'.shot = onu.shot, am'.upSeq = am.upSeq, am'.upCmds = am.upCmds,
         sent' = sent \/ sent' = <<>>,
         "Success" \in pend' => "Success" \in pend, "Resync" \in pend' => "Resync" \in pend
  PROVE  Audited'
<1>1. Underway' => Underway
  BY DEF Underway
<1>2. Fresh' <=> Fresh
  BY DEF Fresh
<1>3. (Listed' <=> Listed) /\ (Copied' <=> Copied) /\ (Resynced' <=> Resynced)
  BY DEF Listed, Copied, Resynced
<1>4. ReadUpTo(am.upSeq - 1)' <=> ReadUpTo(am.upSeq - 1)
  BY DEF ReadUpTo
<1>5. ReadUpTo(Len(onu.snap))' <=> ReadUpTo(Len(onu.snap))
  BY DEF ReadUpTo
<1> QED BY <1>1, <1>2, <1>3, <1>4, <1>5 DEF Audited

\* The differences make the adapter's alarms those of the snapshot.
LEMMA ResyncApplies ==
  ASSUME Shape, Tables, Listed, Copied, ReadUpTo(Len(onu.snap)), onu' = onu, active' = Differences.active
  PROVE  Resynced'
<1> DEFINE both == {m \in DOMAIN copy.onu \cap DOMAIN copy.olt : copy.onu[m] # copy.olt[m]}
           onuOnly == DOMAIN copy.onu \ DOMAIN copy.olt
           oltOnly == DOMAIN copy.olt \ DOMAIN copy.onu
           f == [m \in both \cup onuOnly \cup oltOnly |->
                   IF m \in oltOnly THEN copy.olt[m] ELSE copy.onu[m]]
<1>1. active' = [m \in MEs |-> IF m \in (DOMAIN f) \cap Known THEN f[m] ELSE active[m]]
  BY DEF Differences, AppliedAll
<1> SUFFICES ASSUME NEW m \in Known PROVE onu.shot[m] \subseteq active'[m]
  BY DEF Resynced
<1>2. m \in MEs /\ active'[m] = IF m \in DOMAIN f THEN f[m] ELSE active[m]
  BY <1>1, AlarmManagerAssumption
<1>3. CASE onu.shot[m] = {}
  BY <1>3
<1>4. CASE onu.shot[m] # {}
  <2>1. m \in DOMAIN copy.onu /\ copy.onu[m] = onu.shot[m]
    BY <1>2, <1>4 DEF Listed, ReadUpTo, Copied
  <2>2. CASE m \in DOMAIN f
    BY <1>2, <2>1, <2>2
  <2>3. CASE m \notin DOMAIN f
    <3>1. m \in DOMAIN copy.olt /\ copy.olt[m] = copy.onu[m]
      BY <2>1, <2>3
    <3>2. active[m] = copy.olt[m]
      BY <3>1 DEF Copied, Tables
    <3> QED BY <1>2, <2>1, <2>3, <3>1, <3>2
  <2> QED BY <2>2, <2>3
<1> QED BY <1>3, <1>4

\* If there are none, they are the same already.
LEMMA NothingToResync ==
  ASSUME Tables', Listed', Copied', ReadUpTo(Len(onu.snap))', copy'.onu = copy'.olt
  PROVE  Resynced'
<1> SUFFICES ASSUME NEW m \in Known, onu'.shot[m] # {} PROVE onu'.shot[m] \subseteq active'[m]
  BY DEF Resynced
<1>1. m \in MEs
  BY AlarmManagerAssumption
<1>2. m \in DOMAIN copy'.onu /\ copy'.onu[m] = onu'.shot[m]
  BY <1>1 DEF Listed, ReadUpTo, Copied
<1> QED BY <1>2 DEF Copied, Tables

\* What an answer does to the copies.
LEMMA AnswerCopied ==
  ASSUME Shape, Audited, dh.at = "up", as = "Auditing", GetAllAlarmsResponse \/ GetAllAlarmNextResponse
  PROVE  /\ Listed' /\ Copied'
         /\ Head(back).type = "all" => am.upSeq = 0 /\ Head(back).cmds = Len(onu.snap)
         /\ Head(back).type = "next" =>
              /\ am.upSeq \in 1 .. Len(onu.snap) /\ am.upCmds = Len(onu.snap)
              /\ \A i \in 1 .. am.upSeq : onu.snap[i] \in DOMAIN copy'.onu
<1>1. AnswerTaken
  BY Answers
<1>2. UNCHANGED <<active, db, onu>> /\ back # <<>>
  BY <1>1 DEF AnswerTaken
<1>3. Underway /\ Listed /\ Listed'
  BY <1>2 DEF Underway, Audited, Listed
<1>4. CASE GetAllAlarmsResponse
  <2>1. Head(back).type = "all" /\ Fresh
    BY <1>2, <1>4 DEF GetAllAlarmsResponse, Receive, Fresh
  <2>2. am.upSeq = 0 /\ DOMAIN copy.olt = {} /\ DOMAIN copy.onu = {} /\ Head(back).cmds = Len(onu.snap)
    BY <2>1 DEF Audited
  <2> DEFINE o == [m \in DOMAIN copy.olt \cup DOMAIN db |-> IF m \in DOMAIN db THEN db[m] ELSE copy.olt[m]]
  <2>3. copy' = [copy EXCEPT !.olt = o]
    BY <1>4 DEF GetAllAlarmsResponse
  <2>4. DOMAIN o = DOMAIN db /\ \A m \in DOMAIN db : o[m] = db[m]
    BY <2>2
  <2> HIDE DEF o
  <2>5. copy'.olt = o /\ copy'.onu = copy.onu
    BY <2>3 DEF Shape
  <2>6. Copied'
    BY <1>2, <2>2, <2>4, <2>5 DEF Copied
  <2> QED BY <1>3, <2>1, <2>2, <2>6
<1>5. CASE GetAllAlarmNextResponse
  <2>1. Head(back).type = "next" /\ ~Fresh
    BY <1>2, <1>5 DEF GetAllAlarmNextResponse, Receive, Fresh
  <2> DEFINE me == Head(back).me
  <2>2. /\ am.upSeq \in 1 .. Len(onu.snap) /\ am.upCmds = Len(onu.snap) /\ ReadUpTo(am.upSeq - 1)
        /\ me = onu.snap[am.upSeq] /\ Head(back).bits = onu.shot[me] /\ Copied
    BY <1>2, <1>3, <2>1 DEF Audited
  <2> DEFINE o == [m \in DOMAIN copy.onu \cup {me} |-> IF m = me THEN Head(back).bits ELSE copy.onu[m]]
  <2>3. copy' = [copy EXCEPT !.onu = o]
    BY <1>5 DEF GetAllAlarmNextResponse
  <2>4. me \in MEs
    BY <1>3, <2>2 DEF Listed
  <2> HIDE DEF me
  <2>5. DOMAIN o = DOMAIN copy.onu \cup {me} /\ \A m \in DOMAIN o : m \in MEs /\ o[m] = onu.shot[m]
    BY <2>2, <2>4 DEF Copied
  <2> HIDE DEF o
  <2>6. copy'.onu = o /\ copy'.olt = copy.olt
    BY <2>3 DEF Shape
  <2>7. Copied'
    BY <1>2, <2>2, <2>5, <2>6 DEF Copied
  <2>8. \A i \in 1 .. am.upSeq : onu.snap[i] \in DOMAIN copy'.onu
    <3>1. am.upSeq \in Nat /\ Len(onu.snap) \in Nat
      BY <1>3 DEF Shape, Listed
    <3>2. \A i \in 1 .. am.upSeq : onu.snap[i] \in DOMAIN copy.onu \cup {me}
      <4> SUFFICES ASSUME NEW i \in 1 .. am.upSeq PROVE onu.snap[i] \in DOMAIN copy.onu \cup {me}
        OBVIOUS
      <4>1. i \in 1 .. am.upSeq - 1 \/ i = am.upSeq
        BY <3>1
      <4> QED BY <2>2, <4>1 DEF ReadUpTo
    <3> QED BY <2>5, <2>6, <3>2
  <2> QED BY <1>3, <2>1, <2>2, <2>7, <2>8
<1> QED BY <1>4, <1>5

\* An answer brings the audit on.
LEMMA AuditedAnswer ==
  ASSUME Ordered, Life, Tables, Audited, GetAllAlarmsResponse \/ GetAllAlarmNextResponse
  PROVE  Audited'
<1> SUFFICES ASSUME dh.at = "up" PROVE Audited'
  <2>1. dh' = dh
    BY Answers DEF Ordered, AnswerTaken
  <2> QED BY <2>1 DEF Audited
<1>1. AnswerTaken
  BY Answers DEF Ordered
<1>2. UNCHANGED <<as, active, db, onu, dh>> /\ back # <<>> /\ back' = <<>>
  BY <1>1 DEF AnswerTaken
<1>3. as = "Auditing" /\ sent = <<>> /\ "Success" \notin pend /\ "Resync" \notin pend
  BY <1>2 DEF Life, Ordered, Exchange
<1>4. /\ Listed' /\ Copied'
      /\ Head(back).type = "all" => am.upSeq = 0 /\ Head(back).cmds = Len(onu.snap)
      /\ Head(back).type = "next" =>
           /\ am.upSeq \in 1 .. Len(onu.snap) /\ am.upCmds = Len(onu.snap)
           /\ \A i \in 1 .. am.upSeq : onu.snap[i] \in DOMAIN copy'.onu
  BY <1>3, AnswerCopied DEF Ordered
<1>5. Head(back).type \in {"all", "next"} /\ am.upSeq \in Nat /\ Len(onu.snap) \in Nat
  BY <1>2, <1>4 DEF Ordered, Shape, Listed
<1>6. am'.upCmds = Len(onu.snap) /\ \A i \in 1 .. am.upSeq : onu.snap[i] \in DOMAIN copy'.onu
  <2>1. CASE Head(back).type = "all"
    BY <1>1, <1>4, <2>1 DEF AnswerTaken
  <2>2. CASE Head(back).type = "next"
    BY <1>1, <1>4, <2>2 DEF AnswerTaken
  <2> QED BY <1>5, <2>1, <2>2
<1>7. ~Fresh'
  BY <1>2 DEF Fresh
<1>8. CASE /\ sent' = <<[type |-> "next", no |-> am.upSeq]>> /\ pend' = pend
           /\ am'.upSeq = am.upSeq + 1 /\ am.upSeq < am'.upCmds
  <2>1. Head(sent').type = "next" /\ Head(sent').no = am.upSeq
    BY <1>8
  <2>2. am'.upSeq = Head(sent').no + 1 /\ am'.upSeq <= Len(onu'.snap) /\ am'.upSeq - 1 = am.upSeq
    BY <1>2, <1>5, <1>6, <1>8, <2>1
  <2>3. ReadUpTo(am.upSeq - 1)'
    BY <1>2, <1>6, <2>2 DEF ReadUpTo
  <2> QED BY <1>2, <1>3, <1>4, <1>6, <1>7, <1>8, <2>1, <2>2, <2>3 DEF Audited
<1>9. CASE sent' = sent /\ pend' = pend \cup {"Failure"}
  <2>1. ~Underway'
    BY <1>2, <1>3, <1>9 DEF Underway
  <2> QED BY <1>2, <1>3, <1>7, <1>9, <2>1 DEF Audited
<1>10. CASE /\ sent' = sent /\ pend' = pend \cup {Compared(copy')}
            /\ (am'.upCmds = 0 /\ Head(back).type = "all") \/ ~(am'.upSeq < am'.upCmds)
            /\ am'.upSeq = am.upSeq
  <2>1. ReadUpTo(Len(onu.snap))'
    <3>1. Len(onu.snap) <= am.upSeq
      BY <1>5, <1>6, <1>10
    <3> QED BY <1>2, <1>5, <1>6, <3>1 DEF ReadUpTo
  <2>2. Tables'
    BY <1>2 DEF Tables
  <2>3. copy'.onu = copy'.olt => Resynced'
    BY <1>4, <2>1, <2>2, NothingToResync
  <2>4. "Success" \in pend' => copy'.onu = copy'.olt
    BY <1>3, <1>10 DEF Compared
  <2> QED BY <1>2, <1>3, <1>4, <1>7, <1>10, <2>1, <2>3, <2>4 DEF Audited
<1> QED BY <1>1, <1>8, <1>9, <1>10 DEF AnswerTaken

\* Every step keeps what is known of an audit.
LEMMA AuditedStep ==
  ASSUME Ordered, Life, Life', Tables, Audited, StopTaken, StopTaken', [Next]_vars
  PROVE  Audited'
<1>s. Shape /\ Exchange
  BY DEF Ordered
<1>1. CASE Fire
  <2>1. UNCHANGED <<back, onu, dh>>
    BY <1>1, FireEffect
  <2>2. PICK p \in pend : Rejected(p) \/ AuditBegins(p) \/ ResyncBegins(p) \/ SyncReached(p)
    BY <1>1, FireEffect
  <2>3. CASE Rejected(p)
    <3>1. am'.upSeq = am.upSeq /\ am'.upCmds = am.upCmds
      BY <1>s, <2>3 DEF Rejected, Shape, AmMembers
    <3> QED BY <2>1, <2>3, <3>1, AuditedKept DEF Rejected
  <2>4. CASE AuditBegins(p)
    <3>1. as' = "Auditing" /\ back' = <<>> /\ "Success" \notin pend' /\ "Resync" \notin pend'
          /\ as \in {"Starting", "InSync"}
      BY <1>s, <2>1, <2>4 DEF AuditBegins, Exchange
    <3>2. DOMAIN copy'.olt = {} /\ DOMAIN copy'.onu = {}
      BY <2>4 DEF AuditBegins, NoDB
    <3>3. sent' = <<>> \/ (Head(sent').type = "all" /\ am'.upSeq = 0)
      <4>1. sent = <<>>
        BY <1>s, <3>1 DEF Exchange
      <4>2. CASE sent' = sent
        BY <4>1, <4>2
      <4>3. CASE /\ sent' = <<[type |-> "all", no |-> 0]>>
                 /\ am' = [am EXCEPT !.upSeq = 0, !.upCmds = 0]
        BY <1>s, <4>3 DEF Shape, AmMembers
      <4> QED BY <2>4, <4>2, <4>3 DEF AuditBegins
    <3>4. ~Underway' /\ ~Fresh'
      BY <3>1, <3>3 DEF Underway, Fresh
    <3> QED BY <3>1, <3>2, <3>3, <3>4 DEF Audited
  <2>5. CASE ResyncBegins(p)
    <3> SUFFICES ASSUME dh.at = "up" PROVE Resynced'
      BY <2>1, <2>5 DEF Audited, ResyncBegins
    <3>1. as = "Auditing" /\ "Resync" \in pend /\ active' = Differences.active
      BY <2>5 DEF ResyncBegins, Life
    <3>2. Underway /\ ~Fresh
      BY <1>s, <3>1 DEF Underway, Fresh, Exchange
    <3>3. Listed /\ Copied /\ ReadUpTo(Len(onu.snap))
      BY <3>1, <3>2 DEF Audited
    <3> QED BY <1>s, <2>1, <3>1, <3>3, ResyncApplies
  <2>6. CASE SyncReached(p)
    BY <2>6 DEF SyncReached, Audited
  <2> QED BY <2>2, <2>3, <2>4, <2>5, <2>6
<1>2. CASE AuditTimer \/ AlarmsRequested \/ Request \/ StopAuditTimer
  <2>1. Aside
    BY <1>s, <1>2, AsideSteps
  <2>2. /\ "Success" \in pend' => "Success" \in pend
        /\ "Resync" \in pend' => "Resync" \in pend
    BY <2>1 DEF Aside
  <2> QED BY <2>1, <2>2, AuditedKept DEF Aside
<1>3. CASE GetAllAlarmsResponse \/ GetAllAlarmNextResponse
  BY <1>3, AuditedAnswer
<1>4. CASE ResponseWhenDisabled
  BY <1>4 DEF ResponseWhenDisabled, Audited
<1>5. CASE HandleNotification \/ NotificationLost
  <2>1. PICK x \in notif :
           /\ UNCHANGED <<as, copy, sent, back, onu, dh>>
           /\ am'.upSeq = am.upSeq /\ am'.upCmds = am.upCmds
           /\ Skipped \/ Taken(x)
    BY <1>s, <1>5, NotificationEnds
  <2>2. CASE Skipped
    BY <2>1, <2>2, AuditedKept DEF Skipped
  <2>3. CASE Taken(x)
    BY <2>1, <2>3 DEF Taken, Audited
  <2> QED BY <2>1, <2>2, <2>3
<1>6. CASE OnuChanges
  BY <1>s, <1>6, OneMore, AuditedKept
<1>7. CASE OnuAnswers
  <2> SUFFICES ASSUME dh.at = "up" PROVE Audited'
    BY <1>7 DEF OnuAnswers, Audited
  <2>1. UNCHANGED <<as, pend, am, active, db, copy, dh>> /\ sent # <<>> /\ back = <<>> /\ sent' = <<>> /\ back' # <<>>
    BY <1>s, <1>7, AnswerSent
  <2>2. as = "Auditing" /\ "Success" \notin pend /\ "Resync" \notin pend
    BY <1>s, <2>1 DEF Life, Exchange
  <2>3. CASE Head(sent).type = "all"
    <3>1. Head(back').type = "all" /\ Listed' /\ Head(back').cmds = Len(onu'.snap)
      BY <1>s, <1>7, <2>3, AnswerSent
    <3>2. am.upSeq = 0 /\ DOMAIN copy.olt = {} /\ DOMAIN copy.onu = {}
      BY <2>1, <2>2, <2>3 DEF Audited
    <3>3. Fresh'
      BY <2>1, <3>1 DEF Fresh
    <3> QED BY <2>1, <2>2, <3>1, <3>2, <3>3 DEF Audited
  <2>4. CASE Head(sent).type # "all"
    <3> DEFINE e == onu.snap[Head(sent).no + 1]
    <3>1. /\ Head(sent).type = "next" /\ Head(back').type = "next" /\ onu' = onu
          /\ Head(back').me = e /\ Head(back').bits = onu.shot[e]
      BY <1>s, <1>7, <2>4, AnswerSent
    <3>2. Underway /\ ~Fresh
      BY <2>1, <3>1 DEF Underway, Fresh
    <3>3. /\ Listed /\ Copied /\ am.upSeq = Head(sent).no + 1 /\ am.upSeq <= Len(onu.snap)
          /\ am.upCmds = Len(onu.snap) /\ ReadUpTo(am.upSeq - 1)
      BY <2>1, <2>2, <3>1, <3>2 DEF Audited
    <3>4. am.upSeq \in 1 .. Len(onu.snap)
      BY <1>s, <2>1, <3>3 DEF Shape, Listed
    <3>5. Listed' /\ Copied' /\ ReadUpTo(am.upSeq - 1)' /\ ~Fresh'
      BY <2>1, <3>1, <3>3 DEF Listed, Copied, ReadUpTo, Fresh
    <3> QED BY <2>1, <2>2, <3>1, <3>3, <3>4, <3>5 DEF Audited
  <2> QED BY <2>3, <2>4
<1>8. CASE RequestTimeout
  BY <1>8, AuditedKept DEF RequestTimeout
<1>9. CASE StartAlarmManager
  <2>1. as = "Disabled" \/ "Stop" \in pend'
    BY <1>s, <1>9, StartEffect DEF Life
  <2> QED BY <1>s, <1>9, <2>1, StartEffect DEF Audited, StopTaken
<1>10. CASE StopAlarmManager \/ StopProcessing
  <2>1. dh'.at # "up"
    <3>1. CASE StopAlarmManager
      BY <1>s, <3>1 DEF StopAlarmManager, Shape
    <3>2. CASE StopProcessing
      BY <3>2 DEF StopProcessing
    <3> QED BY <1>10, <3>1, <3>2
  <2> QED BY <2>1 DEF Audited
<1>11. CASE UNCHANGED vars
  BY <1>11, AuditedKept DEF vars
<1> QED BY <1>1, <1>2, <1>3, <1>4, <1>5, <1>6, <1>7, <1>8, <1>9, <1>10, <1>11 DEF Next, Messages

\* Steps that tell the adapter nothing of the alarms, or all of the snapshot.
LEMMA ReportedKept ==
  ASSUME Reported,
         Counted' /\ hist'.regular =>
           /\ Counted /\ hist.regular /\ notif' = notif /\ onu'.alarms = onu.alarms
           /\ \A m \in Known : onu.alarms[m] \subseteq Told(m) => onu'.alarms[m] \subseteq Told(m)'
  PROVE  Reported'
<1> SUFFICES ASSUME Counted', hist'.regular, NEW m \in Known
             PROVE  \/ \E x \in notif' : Latest(m, x)'
                    \/ (\A x \in notif' : x.me # m) /\ onu'.alarms[m] \subseteq Told(m)'
  BY DEF Reported
<1>1. Counted /\ hist.regular /\ notif' = notif /\ onu'.alarms = onu.alarms
  OBVIOUS
<1>2. CASE \E x \in notif : Latest(m, x)
  BY <1>1, <1>2 DEF Latest
<1>3. CASE (\A x \in notif : x.me # m) /\ onu.alarms[m] \subseteq Told(m)
  BY <1>1, <1>3
<1> QED BY <1>1, <1>2, <1>3 DEF Reported

\* A notification applied in its turn.
LEMMA ReportedEnd ==
  ASSUME Ordered, Life, Numbers, Reported, NEW x \in notif,
         notif' = notif \ {x}, UNCHANGED <<as, sent, back, onu, dh>>,
         hist'.audited = hist.audited, Skipped \/ Taken(x)
  PROVE  Reported'
<1> SUFFICES ASSUME Counted', hist'.regular, NEW m \in Known
             PROVE  \/ \E y \in notif' : Latest(m, y)'
                    \/ (\A y \in notif' : y.me # m) /\ onu'.alarms[m] \subseteq Told(m)'
  BY DEF Reported
<1>1. Taken(x) /\ hist.regular /\ Older(x) = {}
  BY DEF Skipped, Taken, Ordered, Shape
<1>2. as # "Auditing" /\ as # "Resynchronizing"
  BY <1>1 DEF Taken
<1>3. Counted /\ as = "InSync"
  BY <1>2 DEF Counted
<1>4. m \in MEs /\ x.me \in MEs
  BY AlarmManagerAssumption DEF Ordered, Shape
<1>5. active' = [active EXCEPT ![x.me] = x.bits] /\ DOMAIN active = MEs
  BY <1>1 DEF Taken, Applied, Ordered, Shape
<1>6. CASE \E y \in notif : Latest(m, y)
  <2>1. PICK y \in notif : Latest(m, y)
    BY <1>6
  <2>2. CASE y # x
    BY <2>1, <2>2 DEF Latest
  <2>3. CASE y = x
    <3>1. x.me = m /\ x.bits = onu.alarms[m]
      BY <2>1, <2>3 DEF Latest
    <3>2. \A z \in notif' : z.me # m
      <4> SUFFICES ASSUME NEW z \in notif', z.me = m PROVE FALSE
        OBVIOUS
      <4>1. z \in notif /\ z # x /\ z.nth \in Nat /\ x.nth \in Nat
        BY DEF Ordered, Shape
      <4>2. z.nth <= x.nth
        BY <2>1, <2>3, <4>1 DEF Latest
      <4>3. ~(z.nth < x.nth)
        BY <1>1, <4>1 DEF Older
      <4>4. z.nth = x.nth
        BY <4>1, <4>2, <4>3
      <4> QED BY <4>1, <4>4 DEF Ordered, Shape
    <3>3. Told(m)' = x.bits
      BY <1>3, <1>4, <1>5, <3>1 DEF Told
    <3> QED BY <3>1, <3>2, <3>3
  <2> QED BY <2>2, <2>3
<1>7. CASE (\A y \in notif : y.me # m) /\ onu.alarms[m] \subseteq Told(m)
  <2>1. x.me # m
    BY <1>7
  <2>2. Told(m)' = active[m] /\ Told(m) = active[m]
    BY <1>3, <1>4, <1>5, <2>1 DEF Told
  <2> QED BY <1>7, <2>2
<1> QED BY <1>1, <1>3, <1>6, <1>7 DEF Reported

\* A change of the alarms is reported.
LEMMA ReportedMore ==
  ASSUME Ordered, Reported, OnuChanges
  PROVE  Reported'
<1>1. PICK e \in MEs, x \in notif' :
           /\ notif' = notif \cup {x} /\ x.me = e /\ x.nth = n'.change /\ x.bits = onu'.alarms[e]
           /\ n'.change = n.change + 1 /\ onu'.shot = onu.shot
           /\ \A k \in MEs \ {e} : onu'.alarms[k] = onu.alarms[k]
           /\ UNCHANGED <<as, pend, am, active, sent, back, dh, hist>>
  BY OneMore DEF Ordered
<1> SUFFICES ASSUME Counted', hist'.regular, NEW m \in Known
             PROVE  \/ \E y \in notif' : Latest(m, y)'
                    \/ (\A y \in notif' : y.me # m) /\ onu'.alarms[m] \subseteq Told(m)'
  BY DEF Reported
<1>2. Counted /\ hist.regular /\ m \in MEs
  BY <1>1, AlarmManagerAssumption DEF Counted, Underway
<1>3. CASE m = e
  <2>1. \A y \in notif' : y.nth <= x.nth
    BY <1>1 DEF Ordered, Shape
  <2> QED BY <1>1, <1>3, <2>1 DEF Latest
<1>4. CASE m # e
  <2>1. onu'.alarms[m] = onu.alarms[m] /\ x.me # m /\ Told(m)' = Told(m)
    BY <1>1, <1>2, <1>4 DEF Told
  <2>2. CASE \E y \in notif : Latest(m, y)
    BY <1>1, <2>1, <2>2 DEF Latest
  <2>3. CASE (\A y \in notif : y.me # m) /\ onu.alarms[m] \subseteq Told(m)
    BY <1>1, <2>1, <2>3
  <2> QED BY <1>2, <2>2, <2>3 DEF Reported
<1> QED BY <1>3, <1>4

\* Steps that touch neither the count nor what is reported.
LEMMA KnowledgeKept ==
  ASSUME Noticed, Reported, SameHist, Counted' => Counted,
         UNCHANGED <<as, active, notif, onu>>, am'.audit = am.audit,
         "Early" \in pend => "Early" \in pend'
  PROVE  Noticed' /\ Reported'
<1>1. \A m \in Known : Told(m)' = Told(m)
  BY DEF Told
<1>2. Noticed'
  BY NoticedKept
<1>3. Reported'
  BY <1>1, ReportedKept DEF SameHist
<1> QED BY <1>2, <1>3

\* Nothing is to be known when nothing is counted.
LEMMA KnowledgeVoid ==
  ASSUME ~Counted'
  PROVE  Noticed' /\ Reported'
BY DEF Noticed, Reported

\* An event keeps what is known.
LEMMA KnowledgeFire ==
  ASSUME Ordered, Life, StopTaken, Numbers, Noticed, Audited, Reported, Audited', Fire
  PROVE  Noticed' /\ Reported'
<1>1. UNCHANGED <<back, notif, onu, dh>> /\ SameHist /\ SameAlarmManager
  BY FireEffect, FireKeeps
<1>2. Counted' => Counted
  BY CountedFire
<1>3. PICK p \in pend : Rejected(p) \/ AuditBegins(p) \/ ResyncBegins(p) \/ SyncReached(p)
  BY FireEffect
<1>4. CASE Rejected(p)
  <2>1. CASE as = "InSync"
    <3>1. UNCHANGED <<as, active>> /\ ("Early" \in pend => "Early" \in pend')
      BY <1>4, <2>1 DEF Rejected, Causes
    <3> QED BY <1>1, <1>2, <3>1, KnowledgeKept DEF SameAlarmManager
  <2>2. CASE as # "InSync"
    <3>1. UNCHANGED <<as, active>>
      BY <1>4 DEF Rejected
    <3>2. Noticed'
      BY <1>1, <1>2, <2>2, NoticedKept
    <3>3. \A m \in Known : Told(m)' = Told(m)
      BY <1>1, <3>1 DEF Told
    <3>4. Reported'
      BY <1>1, <1>2, <3>3, ReportedKept DEF SameHist
    <3> QED BY <3>2, <3>4
  <2> QED BY <2>1, <2>2
<1>5. CASE ~Counted'
  BY <1>5, KnowledgeVoid
<1>6. CASE (AuditBegins(p) \/ ResyncBegins(p) \/ SyncReached(p)) /\ Counted'
  <2>1. as # "InSync" /\ as' # "Auditing"
    <3>1. CASE AuditBegins(p)
      <4>1. as \in {"Starting", "InSync"} /\ as' = "Auditing"
        BY <3>1 DEF AuditBegins
      <4>2. Counted
        BY <1>2, <1>6
      <4>3. as = "InSync"
        BY <4>1, <4>2 DEF Counted
      <4>4. back' = <<>> /\ "Success" \notin pend' /\ "Resync" \notin pend' /\ sent = <<>>
        BY <1>1, <3>1, <4>3 DEF AuditBegins, Ordered, Exchange
      <4>5. sent' = <<>> \/ Head(sent').type = "all"
        BY <3>1, <4>4 DEF AuditBegins
      <4> QED BY <1>6, <4>1, <4>4, <4>5 DEF Counted, Underway
    <3>2. CASE ResyncBegins(p)
      BY <3>2 DEF ResyncBegins
    <3>3. CASE SyncReached(p)
      BY <1>6, <3>3 DEF SyncReached, Counted
    <3> QED BY <1>6, <3>1, <3>2, <3>3
  <2>2. Noticed'
    BY <1>1, <1>2, <2>1, NoticedKept
  <2>3. \A m \in Known : onu.alarms[m] \subseteq Told(m) => onu'.alarms[m] \subseteq Told(m)'
    <3> SUFFICES ASSUME NEW m \in Known, onu.alarms[m] \subseteq Told(m) PROVE onu.alarms[m] \subseteq active'[m]
      BY <1>1, <2>1 DEF Told
    <3>1. dh.at = "up" /\ dh' = dh
      BY <1>1, <1>6 DEF Counted
    <3>2. CASE as = "Auditing"
      <4>1. Resynced'
        <5>1. CASE ResyncBegins(p)
          BY <3>1, <5>1 DEF ResyncBegins, Audited
        <5>2. CASE SyncReached(p)
          <6>1. "Success" \in pend /\ active' = active
            BY <1>6, <3>2, <5>2 DEF SyncReached, Counted
          <6>2. Resynced
            BY <3>1, <3>2, <6>1 DEF Audited
          <6> QED BY <1>1, <6>1, <6>2 DEF Resynced
        <5>3. CASE AuditBegins(p)
          BY <3>2, <5>3 DEF AuditBegins
        <5> QED BY <1>6, <5>1, <5>2, <5>3
      <4>2. Told(m) = onu.shot[m]
        BY <3>2 DEF Told
      <4> QED BY <1>1, <4>1, <4>2 DEF Resynced
    <3>3. CASE as # "Auditing"
      <4>1. active' = active
        BY <1>6, <2>1, <3>3 DEF AuditBegins, ResyncBegins, SyncReached
      <4> QED BY <3>3, <4>1 DEF Told
    <3> QED BY <3>2, <3>3
  <2>4. Reported'
    BY <1>1, <1>2, <2>3, ReportedKept DEF SameHist
  <2> QED BY <2>2, <2>4
<1> QED BY <1>3, <1>4, <1>5, <1>6

\* Every step keeps what is known.
LEMMA KnowledgeStep ==
  ASSUME Ordered, Life, StopTaken, StopTaken', Numbers, FewOnTheWay, Noticed, Audited, Reported, Audited',
         [Next]_vars
  PROVE  Noticed' /\ Reported'
<1>s. Shape /\ Exchange
  BY DEF Ordered
<1>1. CASE Fire
  BY <1>1, KnowledgeFire
<1>2. CASE AuditTimer \/ AlarmsRequested \/ Request \/ StopAuditTimer
  <2>1. Aside
    BY <1>s, <1>2, AsideSteps
  <2>2. /\ "Success" \in pend' => "Success" \in pend
        /\ "Resync" \in pend' => "Resync" \in pend
        /\ "Early" \in pend => "Early" \in pend'
    BY <2>1 DEF Aside
  <2>3. UNCHANGED <<as, active, sent, back, notif, onu, hist>> /\ am'.audit = am.audit /\ dh'.at = dh.at
    BY <2>1 DEF Aside, SameAlarmManager
  <2>4. Counted' => Counted
    BY <2>2, <2>3 DEF Counted, Underway
  <2> QED BY <2>2, <2>3, <2>4, KnowledgeKept DEF SameHist
<1>3. CASE GetAllAlarmsResponse \/ GetAllAlarmNextResponse
  <2>1. AnswerTaken
    BY <1>s, <1>3, Answers
  <2>2. UNCHANGED <<as, active, notif, onu, dh>> /\ SameHist /\ hist'.audited = hist.audited
        /\ back # <<>> /\ am'.audit = am.audit /\ ("Early" \in pend => "Early" \in pend')
    BY <2>1 DEF AnswerTaken
  <2>3. Counted' => Counted
    BY <2>2 DEF Counted, Underway
  <2> QED BY <2>2, <2>3, KnowledgeKept
<1>4. CASE ResponseWhenDisabled
  <2>1. ~Counted'
    BY <1>4 DEF ResponseWhenDisabled, Counted
  <2> QED BY <2>1, KnowledgeVoid
<1>5. CASE HandleNotification \/ NotificationLost
  <2>1. PICK x \in notif :
           /\ notif' = notif \ {x}
           /\ UNCHANGED <<as, copy, sent, back, onu, dh>>
           /\ n'.change = n.change /\ hist'.audited = hist.audited /\ am'.audit = am.audit
           /\ Skipped \/ Taken(x)
    BY <1>s, <1>5, NotificationEnds
  <2>2. Noticed'
    BY <2>1, NoticedEnd
  <2>3. Reported'
    BY <2>1, ReportedEnd
  <2> QED BY <2>2, <2>3
<1>6. CASE OnuChanges
  <2>1. UNCHANGED <<as, pend, am, sent, back, dh, hist>>
    BY <1>s, <1>6, OneMore
  <2>2. Noticed'
    BY <2>1, NoticedKept DEF Counted, Underway, SameHist
  <2> QED BY <1>6, <2>2, ReportedMore
<1>7. CASE OnuAnswers
  <2>1. UNCHANGED <<as, pend, am, active, notif, dh, n>> /\ sent # <<>> /\ back = <<>>
        /\ onu'.alarms = onu.alarms /\ back' # <<>>
    BY <1>s, <1>7, AnswerSent
  <2>2. CASE Head(sent).type = "all"
    <3>1. notif = {} /\ onu'.shot = onu.alarms /\ hist'.regular = TRUE
      BY <1>s, <1>7, <2>2, AnswerSent
    <3>2. Counted' => as = "Auditing"
      BY <1>s, <2>1 DEF Counted, Exchange
    <3>3. \A m \in Known : Counted' => onu'.alarms[m] \subseteq Told(m)'
      BY <2>1, <3>1, <3>2 DEF Told
    <3> QED BY <2>1, <3>1, <3>3 DEF Noticed, Reported
  <2>3. CASE Head(sent).type # "all"
    <3>1. Head(sent).type = "next" /\ UNCHANGED <<onu, hist>>
      BY <1>s, <1>7, <2>3, AnswerSent
    <3>2. Counted' => Counted
      BY <2>1, <3>1 DEF Counted, Underway
    <3> QED BY <2>1, <3>1, <3>2, KnowledgeKept DEF SameHist
  <2> QED BY <2>2, <2>3
<1>8. CASE RequestTimeout
  <2>1. UNCHANGED <<as, pend, am, active, back, notif, onu, dh>> /\ sent' = <<>>
    BY <1>8 DEF RequestTimeout
  <2>2. SameHist /\ hist'.audited = hist.audited
    BY <1>s, <1>8 DEF RequestTimeout, Shape, HistMembers, SameHist
  <2>3. Counted' => Counted
    BY <2>1, <2>2 DEF Counted, Underway
  <2> QED BY <2>1, <2>2, <2>3, KnowledgeKept
<1>9. CASE StartAlarmManager
  <2>1. as = "Disabled" \/ "Stop" \in pend'
    BY <1>s, <1>9, StartEffect DEF Life
  <2>2. as' = "Starting"
    BY <1>s, <1>9, <2>1, StartEffect DEF StopTaken
  <2>3. ~Counted'
    BY <2>2 DEF Counted
  <2> QED BY <2>3, KnowledgeVoid
<1>10. CASE StopAlarmManager \/ StopProcessing
  <2>1. dh'.at # "up"
    <3>1. CASE StopAlarmManager
      BY <1>s, <3>1 DEF StopAlarmManager, Shape
    <3>2. CASE StopProcessing
      BY <3>2 DEF StopProcessing
    <3> QED BY <1>10, <3>1, <3>2
  <2>2. ~Counted'
    BY <2>1 DEF Counted
  <2> QED BY <2>2, KnowledgeVoid
<1>11. CASE UNCHANGED vars
  <2>1. UNCHANGED <<as, pend, am, active, sent, back, notif, onu, dh, hist>>
    BY <1>11 DEF vars
  <2>2. Counted' => Counted
    BY <2>1 DEF Counted, Underway
  <2> QED BY <2>1, <2>2, KnowledgeKept DEF SameHist
<1> QED BY <1>1, <1>2, <1>3, <1>4, <1>5, <1>6, <1>7, <1>8, <1>9, <1>10, <1>11 DEF Next, Messages

\* The inductive invariant of InStep.
StepInv == CountInv /\ Noticed /\ Tables /\ Audited /\ Reported

\* It holds at first.
LEMMA StepInit == Init => StepInv
<1> SUFFICES ASSUME Init PROVE StepInv
  OBVIOUS
<1>1. as = "Disabled" /\ DOMAIN db = {}
  BY DEF Init, NoDB
<1>2. ~Counted
  BY <1>1 DEF Counted
<1> QED BY <1>1, <1>2, CountInit DEF StepInv, Noticed, Tables, Audited, Reported

\* Every step keeps it.
LEMMA StepStep ==
  StepInv /\ StopTaken /\ StopTaken' /\ FewOnTheWay /\ [Next]_vars => StepInv'
<1> SUFFICES ASSUME StepInv, StopTaken, StopTaken', FewOnTheWay, [Next]_vars PROVE StepInv'
  OBVIOUS
<1>1. CountInv'
  BY CountStep DEF StepInv
<1>2. Tables'
  BY TablesStep DEF StepInv, CountInv
<1>3. Audited'
  BY <1>1, AuditedStep DEF StepInv, CountInv
<1>4. Noticed' /\ Reported'
  BY <1>3, KnowledgeStep DEF StepInv, CountInv
<1> QED BY <1>1, <1>2, <1>3, <1>4 DEF StepInv

\* With equal numbers nothing is missing.
LEMMA StepInvInStep == StepInv => InStep
<1> SUFFICES ASSUME StepInv, dh.at = "up", as = "InSync", am.audit, hist.audited, notif = {},
                    "Early" \notin pend, am.last = onu.seq, hist.missed < SeqMax,
                    NEW m \in Known
             PROVE  onu.alarms[m] \subseteq active[m]
  BY DEF InStep
<1>1. Counted /\ Ordered /\ Numbers /\ Noticed /\ Reported
  BY DEF Counted, StepInv, CountInv
<1>2. Base = am.last /\ am.last \in 0 .. SeqMax /\ hist.missed \in Nat
  BY <1>1 DEF Base, Fresh, Ordered, Exchange, Shape
<1>3. Cardinality(notif) = 0
  BY FS_EmptySet
<1>4. am.last = Ahead(am.last, hist.missed)
  BY <1>1, <1>2, <1>3 DEF Numbers
<1>5. hist.missed = 0
  BY <1>2, <1>4, Distinct
<1>6. hist.regular
  BY <1>1, <1>5 DEF Noticed
<1> QED BY <1>1, <1>6 DEF Reported, Told

\* Once an audit is done, with nothing on the way and equal numbers, each alarm
\* the ONU has on a known entity is active in the adapter, for every number of
\* entities, alarms, changes, audits and disturbances, as long as there are
\* never more notifications on the way than there are sequence numbers
\* (processAlarmData, asFsmAuditing, asFsmResynchronizing).
LEMMA AlarmsInStep == Spec /\ []StopTaken /\ []FewOnTheWay => []InStep
BY StepInit, StepStep, StepInvInStep, PTL DEF Spec

-----------------------------------------------------------------------------
(* The first premise, for a device that comes up once.                     *)

\* Only a start counts a life.
LEMMA LifeCounted ==
  ASSUME Shape, [Next]_vars, ~StartAlarmManager
  PROVE  n'.life = n.life
<1>1. \/ n' = n \/ n' = [n EXCEPT !.disturb = @ + 1] \/ n' = [n EXCEPT !.audit = @ + 1]
      \/ n' = [n EXCEPT !.change = @ + 1] \/ n' = [n EXCEPT !.request = @ + 1]
  <2>1. CASE Fire
    BY <2>1 DEF Fire, Transition, Disturb
  <2>2. CASE AuditTimer \/ AlarmsRequested \/ Request \/ StopAuditTimer
    BY <2>2 DEF AuditTimer, AlarmsRequested, Request, RequestTaken, RequestAnswered, RequestExpires, StopAuditTimer
  <2>3. CASE Messages
    BY <2>3 DEF Messages, GetAllAlarmsResponse, ResponseWhenDisabled, GetAllAlarmNextResponse,
                SendGetAllAlarmNext, Disturb
  <2>4. CASE HandleNotification \/ NotificationLost \/ OnuChanges \/ OnuAnswers \/ RequestTimeout
    BY <2>4 DEF HandleNotification, NotificationLost, OnuChanges, OnuAnswers, RequestTimeout, Disturb
  <2>5. CASE StopAlarmManager \/ StopProcessing
    BY <2>5 DEF StopAlarmManager, StopProcessing
  <2>6. CASE UNCHANGED vars
    BY <2>6 DEF vars
  <2> QED BY <2>1, <2>2, <2>3, <2>4, <2>5, <2>6 DEF Next
<1> QED BY <1>1 DEF Shape, NMembers

\* Before the first start the FSM is disabled.
FirstLife ==
  Ordered /\ StopTaken /\ n.life \in Nat /\ (n.life = 0 => dh.at = "off" /\ as = "Disabled")

\* Only a stop posts the stop event, and nothing but a start leaves Disabled.
LEMMA FirstLifeStep ==
  ASSUME MaxLife = 1, FirstLife, [Next]_vars
  PROVE  FirstLife'
<1>s. Ordered /\ Ordered' /\ Shape
  BY OrderedStep DEF FirstLife, Ordered
<1>1. CASE StartAlarmManager
  <2>1. n.life = 0 /\ n'.life = 1
    BY <1>s, <1>1 DEF FirstLife, StartAlarmManager, Shape, NMembers
  <2>2. pend' \subseteq {"Sync"}
    BY <1>s, <1>1, <2>1, StartEffect DEF FirstLife
  <2> QED BY <1>s, <2>1, <2>2 DEF FirstLife, StopTaken
<1>2. ASSUME ~StartAlarmManager,
             dh'.at = dh.at, as = "Disabled" => as' = "Disabled", "Stop" \in pend' => "Stop" \in pend
      PROVE  FirstLife'
  BY <1>s, <1>2, LifeCounted DEF FirstLife, StopTaken
<1>3. CASE ~StartAlarmManager
  <2>1. CASE Fire
    <3>1. dh' = dh
      BY <1>s, <2>1, FireEffect
    <3>2. PICK p \in pend : Rejected(p) \/ AuditBegins(p) \/ ResyncBegins(p) \/ SyncReached(p)
      BY <1>s, <2>1, FireEffect
    <3>3. as = "Disabled" => as' = "Disabled"
      BY <3>2 DEF Rejected, AuditBegins, ResyncBegins, SyncReached
    <3>4. \/ pend' = pend \ {p} \/ pend' = (pend \ {p}) \cup {"Failure"}
          \/ pend' = (pend \ {p}) \cup {"Success"}
      BY <3>2 DEF Rejected, AuditBegins, ResyncBegins, SyncReached
    <3>5. "Stop" \in pend' => "Stop" \in pend
      BY <3>4
    <3> QED BY <1>2, <1>3, <3>1, <3>3, <3>5
  <2>2. CASE AuditTimer \/ AlarmsRequested \/ Request \/ StopAuditTimer
    <3>1. Aside
      BY <1>s, <2>2, AsideSteps
    <3>2. "Stop" \in pend' => "Stop" \in pend
      BY <3>1 DEF Aside
    <3> QED BY <1>2, <1>3, <3>1, <3>2 DEF Aside
  <2>3. CASE GetAllAlarmsResponse \/ GetAllAlarmNextResponse
    <3>1. AnswerTaken
      BY <1>s, <2>3, Answers
    <3>2. pend' = pend \/ pend' = pend \cup {"Failure"} \/ pend' = pend \cup {Compared(copy')}
      BY <3>1 DEF AnswerTaken
    <3>3. "Stop" \in pend' => "Stop" \in pend
      BY <3>2 DEF Compared
    <3> QED BY <1>2, <1>3, <3>1, <3>3 DEF AnswerTaken
  <2>4. CASE ResponseWhenDisabled \/ OnuAnswers \/ RequestTimeout \/ OnuChanges
    BY <1>2, <1>3, <2>4 DEF ResponseWhenDisabled, OnuAnswers, RequestTimeout, OnuChanges
  <2>5. CASE HandleNotification \/ NotificationLost
    <3>1. PICK x \in notif : as' = as /\ dh' = dh /\ (Skipped \/ Taken(x))
      BY <1>s, <2>5, NotificationEnds
    <3>2. "Stop" \in pend' => "Stop" \in pend
      <4>1. pend' = pend \/ pend' = pend \cup {"Early"}
        BY <3>1 DEF Skipped, Taken
      <4> QED BY <4>1
    <3> QED BY <1>2, <1>3, <3>1, <3>2
  <2>6. CASE StopAlarmManager
    <3>1. dh'.at = "stop" /\ dh.at = "up"
      BY <1>s, <2>6 DEF StopAlarmManager, Shape
    <3> QED BY <1>s, <1>3, <3>1, LifeCounted DEF FirstLife, StopTaken
  <2>7. CASE StopProcessing
    <3>1. dh'.at = "off" /\ dh.at = "stop"
      BY <2>7 DEF StopProcessing
    <3> QED BY <1>s, <1>3, <3>1, LifeCounted DEF FirstLife, StopTaken
  <2>8. CASE UNCHANGED vars
    BY <1>2, <1>3, <2>8 DEF vars
  <2> QED BY <1>3, <2>1, <2>2, <2>3, <2>4, <2>5, <2>6, <2>7, <2>8 DEF Next, Messages
<1> QED BY <1>1, <1>3

\* In the first life of the alarm manager no stop event of an earlier one can
\* wait: the premise of the lemmas above holds (StartAlarmManager).
THEOREM FirstLifeIsClean ==
  ASSUME MaxLife = 1
  PROVE  Spec => []StopTaken
<1>1. Init => FirstLife
  <2> SUFFICES ASSUME Init PROVE FirstLife
    OBVIOUS
  <2>1. as = "Disabled" /\ dh.at = "off" /\ n.life = 0
    BY DEF Init
  <2> QED BY <2>1, OrderedInit DEF FirstLife, StopTaken
<1>2. FirstLife /\ [Next]_vars => FirstLife'
  BY FirstLifeStep
<1>3. FirstLife => StopTaken
  BY DEF FirstLife
<1> QED BY <1>1, <1>2, <1>3, PTL DEF Spec

\* In the first life of the alarm manager an audit out of turn always has a
\* reason, with no premise about the stop (processAlarmData).
THEOREM FirstLifeAuditsAreNeeded ==
  ASSUME MaxLife = 1
  PROVE  Spec => NoNeedlessAudit
BY FirstLifeIsClean, AuditsAreNeeded, PTL

\* In the first life of the alarm manager, once an audit is done, with nothing
\* on the way and equal numbers, each alarm the ONU has on a known entity is
\* active in the adapter, for every number of entities, alarms, changes, audits
\* and disturbances, as long as there are never more notifications on the way
\* than there are sequence numbers (processAlarmData, asFsmAuditing,
\* asFsmResynchronizing).
THEOREM FirstLifeInStep ==
  ASSUME MaxLife = 1
  PROVE  Spec /\ []FewOnTheWay => []InStep
BY FirstLifeIsClean, AlarmsInStep, PTL
=============================================================================
