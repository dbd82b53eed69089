--------------------------- MODULE AniConfigProofs ---------------------------
(***************************************************************************)
(* Proofs about AniConfig: the flag tpProfileResetting, with which every   *)
(* download of a technology profile is refused, is up only while a         *)
(* cancellation runs.                                                      *)
(*                                                                         *)
(* The flag is one member of a record that enter callbacks, requests and   *)
(* the cancellation all write, some with a copy they have taken before.    *)
(* So the proof needs the shape of the records, and that an event of the   *)
(* request is fired only in the three places in which its goroutine waits  *)
(* for one (RequestEvent has no other case).                               *)
(***************************************************************************)
EXTENDS AniConfig, TLAPS

TpMembers == {"ind", "done", "config", "resetting", "remGem", "err"}
RqMembers == {"op", "arg", "at"}
Posts == [ev : Events, by : {"go", "loop", "wk", "req", "late", "down"}]
Places == {"none", "check", "event", "run", "wait", "ok", "fail", "clear"}

\* The FSM is in one of its states, events are those of its table, and the
\* records have their members.
Shape ==
  /\ st \in States /\ pend \subseteq Posts
  /\ DOMAIN wk = {"at", "todo", "ev"} /\ wk.ev \in Events
  /\ DOMAIN tp = TpMembers /\ tp.resetting \in BOOLEAN
  /\ DOMAIN rq = RqMembers /\ rq.at \in Places
  /\ DOMAIN dh = {"ready", "onReboot", "check", "cancel"}

\* There is one event of the request at most, and its goroutine waits for it.
OneOwnEvent ==
  /\ \A p, q \in pend : p.by = "req" /\ q.by = "req" => p = q
  /\ \A p \in pend : p.by = "req" => rq.at \in {"event", "fail", "clear"}
  /\ \A p \in pend : p.by = "req" /\ rq.at = "fail" => p.ev = "Reset"

ResetInv == Shape /\ OneOwnEvent /\ ResettingEnds

-----------------------------------------------------------------------------
(* The events and the callbacks.                                           *)

\* Facts about the table of the FSM: an event that is taken leads to a state.
LEMMA NextState ==
  ASSUME NEW ev \in Events, NEW s \in States, s \in DOMAIN Table[ev]
  PROVE  Table[ev][s] \in States
BY DEF Events, Table, States

\* The names of the events.
LEMMA EventNames ==
  {"Start", "ReadAniSideConfig", "PrepareConfig", "StartConfig", "RxDot1pmapCResp", "RxMbpcdResp",
   "RxTcontsResp", "RxGemntcpsResp", "RxGemiwsResp", "RxPrioqsResp", "RxDot1pmapSResp", "RemGemiw",
   "WaitFlowRem", "FlowRemDone", "RxRemGemiwResp", "RxRemGemntpResp", "RxRemTdResp", "RemGemDone",
   "RxRem1pMapperResp", "RxRemAniBPCDResp", "RemTcontPath", "RxResetTcontResp", "Reset", "Restart"}
    = Events
BY DEF Events, Table

\* What the callbacks have in common that the flag depends on: none of them
\* writes it (Keep is what a callback leaves alone).
Harmless(e) ==
  /\ DOMAIN e.tp = TpMembers /\ e.tp.resetting = tp.resetting
  /\ e.post \subseteq Events
  /\ DOMAIN e.wk = {"at", "todo", "ev"} /\ e.wk.ev \in Events
  /\ e.signal \in {"none", "ok", "fail"}

IsResult(e) ==
  DOMAIN e = {"cb", "post", "f", "wk", "read", "ch", "sent", "tp", "pers", "signal"}

\* A callback that changes nothing is harmless.
LEMMA KeepHarmless ==
  ASSUME Shape
  PROVE  IsResult(Keep) /\ Harmless(Keep)
BY DEF Shape, IsResult, Harmless, Keep

\* So is one that sends a single request.
LEMMA AskHarmless ==
  ASSUME NEW e, NEW r, NEW err, IsResult(e), Harmless(e)
  PROVE  IsResult(Ask(e, r, err)) /\ Harmless(Ask(e, r, err))
BY EventNames DEF IsResult, Harmless, Ask

\* And one that signals the request.
LEMMA SignalHarmless ==
  ASSUME NEW e, NEW v \in {"ok", "fail"}, IsResult(e), Harmless(e)
  PROVE  IsResult(Signal(e, v)) /\ Harmless(Signal(e, v))
BY DEF IsResult, Harmless, Signal
\* No enter callback writes the flag.
LEMMA EnterHarmless ==
  ASSUME Shape, NEW d \in States, NEW flow \in BOOLEAN, NEW err \in BOOLEAN
  PROVE  Harmless(Enter(d, flow, err))
<1> DEFINE e == Enter(d, flow, err)
<1>k. IsResult(Keep) /\ Harmless(Keep)
  BY KeepHarmless
<1>off. ASSUME NEW v PROVE LET x == [Keep EXCEPT !.f.off = v] IN IsResult(x) /\ Harmless(x)
  BY <1>k DEF IsResult, Harmless
<1>post. ASSUME NEW v \in Events PROVE LET x == [Keep EXCEPT !.post = {v}] IN IsResult(x) /\ Harmless(x)
  BY <1>k DEF IsResult, Harmless
<1>1. CASE d \in {"CreatingMBPCD", "SettingTconts", "RemovingGemNCTP", "RemovingTD", "RemAniBPCD"}
  <2>1. PICK r : e = Ask(Keep, r, err)
    BY <1>1 DEF Enter, EnterCreatingMBPCD, EnterSettingTconts, EnterRemovingGemNCTP, EnterRemovingTD,
                EnterRemovingAniBPCD
  <2> QED BY <2>1, <1>k, AskHarmless
<1>2. CASE d \in {"CreatingDot1PMapper", "ResetTcont"}
  <2>1. PICK r, v : e = Ask([Keep EXCEPT !.f.off = v], r, err)
    BY <1>2 DEF Enter, EnterCreatingDot1PMapper, EnterResettingTcont
  <2> QED BY <2>1, <1>off, AskHarmless
<1>3. CASE d = "SettingDot1PMapper"
  <2>1. e = EnterSettingDot1PMapper(err)
    BY <1>3 DEF Enter
  <2>2. \/ \E r : e = Ask(Keep, r, err)
        \/ e = [Keep EXCEPT !.post = {"RxDot1pmapSResp"}]
    BY <2>1 DEF EnterSettingDot1PMapper
  <2> QED BY <2>2, <1>k, <1>post, AskHarmless, EventNames
<1>4. CASE d = "RemDot1PMapper"
  <2>1. e = EnterRemoving1pMapper(err)
    BY <1>4 DEF Enter
  <2>2. \/ \E r : e = Ask(Keep, r, err)
        \/ e = [Keep EXCEPT !.post = {"RemGemDone"}]
    BY <2>1 DEF EnterRemoving1pMapper
  <2> QED BY <2>2, <1>k, <1>post, AskHarmless, EventNames
<1>5. CASE d = "RemovingGemIW"
  <2>1. e = EnterRemovingGemIW(flow, err)
    BY <1>5 DEF Enter
  <2>2. \/ \E r : e = Ask([Keep EXCEPT !.f.off = 1], r, err)
        \/ e = [Keep EXCEPT !.post = {"WaitFlowRem"}]
    BY <2>1 DEF EnterRemovingGemIW
  <2>3. ASSUME NEW r, e = Ask([Keep EXCEPT !.f.off = 1], r, err) PROVE Harmless(e)
    BY <2>3, <1>off, AskHarmless
  <2>4. ASSUME e = [Keep EXCEPT !.post = {"WaitFlowRem"}] PROVE Harmless(e)
    BY <2>4, <1>post, EventNames
  <2> QED BY <2>2, <2>3, <2>4
<1>6. CASE d \in {"CreatingGemNCTPs", "CreatingGemIWs", "SettingPQs"}
  <2>1. \/ e = Work(CreatingGemNCTPs, "RxGemntcpsResp")
        \/ e = Work(CreatingGemIWs, "RxGemiwsResp")
        \/ e = Work(SettingPQs, "RxPrioqsResp")
    BY <1>6 DEF Enter
  <2>2. ASSUME NEW todo, NEW ev \in Events PROVE Harmless(Work(todo, ev))
    BY <1>k DEF Work, IsResult, Harmless
  <2>3. "RxGemntcpsResp" \in Events /\ "RxGemiwsResp" \in Events /\ "RxPrioqsResp" \in Events
    BY EventNames
  <2> QED BY <2>1, <2>2, <2>3
<1>7. CASE d = "Starting"
  <2>1. e = EnterStarting
    BY <1>7 DEF Enter
  <2> QED BY <2>1, <1>k, EventNames DEF EnterStarting, IsResult, Harmless
<1>8. CASE d = "ReadAniSideConfig"
  <2>1. e = EnterReadAniSideConfig
    BY <1>8 DEF Enter
  <2> QED BY <2>1, <1>k, EventNames DEF EnterReadAniSideConfig, IsResult, Harmless, TpMembers
<1>9. CASE d = "PrepareConfig"
  <2>1. e = EnterPrepareConfig
    BY <1>9 DEF Enter
  <2> QED BY <2>1, <1>k, EventNames DEF EnterPrepareConfig, IsResult, Harmless
<1>10. CASE d = "ConfigDone"
  <2>1. e = Signal([Keep EXCEPT !.tp.done = tp.ind], "ok")
    BY <1>10 DEF Enter, EnterConfigDone
  <2>2. LET x == [Keep EXCEPT !.tp.done = tp.ind] IN IsResult(x) /\ Harmless(x)
    BY <1>k DEF IsResult, Harmless, TpMembers
  <2> QED BY <2>1, <2>2, SignalHarmless
<1>11. CASE d = "WaitingFlowRem"
  <2>1. e = EnterWaitingFlowRem
    BY <1>11 DEF Enter
  <2> QED BY <2>1, <1>k DEF EnterWaitingFlowRem, IsResult, Harmless
<1>12. CASE d = "RemoveDone"
  <2>1. e = [Signal(Keep, "ok") EXCEPT !.post = {"Reset"}]
    BY <1>12 DEF Enter, EnterRemoveDone
  <2>2. IsResult(Signal(Keep, "ok")) /\ Harmless(Signal(Keep, "ok"))
    BY <1>k, SignalHarmless
  <2> QED BY <2>1, <2>2, EventNames DEF IsResult, Harmless
<1>13. CASE d = "Resetting"
  <2>1. \/ e = [Signal(Keep, "fail") EXCEPT !.ch = Append(@, Abort), !.post = {"Restart"}]
        \/ e = [Signal(Keep, "fail") EXCEPT !.cb = "abort"]
    BY <1>13 DEF Enter, EnterResetting
  <2>2. IsResult(Signal(Keep, "fail")) /\ Harmless(Signal(Keep, "fail"))
    BY <1>k, SignalHarmless
  <2>3. CASE e = [Signal(Keep, "fail") EXCEPT !.ch = Append(@, Abort), !.post = {"Restart"}]
    BY <2>2, <2>3, EventNames DEF IsResult, Harmless
  <2>4. CASE e = [Signal(Keep, "fail") EXCEPT !.cb = "abort"]
    BY <2>2, <2>4 DEF IsResult, Harmless
  <2> QED BY <2>1, <2>3, <2>4
<1>14. CASE d = "Disabled"
  <2>1. e = EnterDisabled
    BY <1>14 DEF Enter
  <2> QED BY <2>1, <1>k DEF EnterDisabled, IsResult, Harmless
<1> QED BY <1>1, <1>2, <1>3, <1>4, <1>5, <1>6, <1>7, <1>8, <1>9, <1>10, <1>11, <1>12, <1>13,
           <1>14 DEF States
-----------------------------------------------------------------------------
(* The steps.                                                              *)

\* The goroutine of a request returns: with the profile cleared it has one
\* more event to fire (IsTechProfileConfigCleared).
LEMMA ReturnedEffect ==
  ASSUME NEW r, NEW t, DOMAIN r = RqMembers, DOMAIN t = TpMembers, t.resetting \in BOOLEAN
  PROVE  /\ DOMAIN Returned(r, t).rq = RqMembers
         /\ DOMAIN Returned(r, t).tp = TpMembers
         /\ Returned(r, t).tp.resetting \in {t.resetting, FALSE}
         /\ \/ Returned(r, t).post = {} /\ Returned(r, t).rq.at = "none"
            \/ Returned(r, t).post = {Post("Reset", "req")} /\ Returned(r, t).rq.at = "clear"
BY DEF Returned, ClearAniSideConfig, NoRequest, RqMembers, TpMembers

\* An error of a download is noted, nothing else.
LEMMA FailedEffect ==
  ASSUME NEW r, NEW t, DOMAIN t = TpMembers
  PROVE  DOMAIN Failed(r, t) = TpMembers /\ Failed(r, t).resetting = t.resetting
BY DEF Failed, TpMembers

\* No step of the FSM raises the flag; an event of the request is used up by
\* the step that fires it.
LEMMA FireEffect ==
  ASSUME Shape, OneOwnEvent, Fire
  PROVE  /\ Shape' /\ OneOwnEvent'
         /\ tp'.resetting \in {tp.resetting, FALSE}
         /\ dh'.cancel \in {dh.cancel, "clear"}
<1>1. PICK p \in pend, flow \in BOOLEAN, err \in BOOLEAN :
        LET taken == st \in DOMAIN Table[p.ev]
            d == IF taken THEN Table[p.ev][st] ELSE st
            e == IF taken THEN Enter(d, flow, err) ELSE Keep
            own == RequestEvent(p, taken, e)
            go == {Post(x, "go") : x \in e.post}
        IN /\ st' = d /\ wk' = e.wk
           /\ IF p.by = "req"
              THEN rq' = own.rq /\ tp' = own.tp /\ pend' = (pend \ {p}) \cup go \cup own.post
              ELSE rq' = Signalled(e.signal) /\ tp' = e.tp /\ pend' = (pend \ {p}) \cup go
           /\ dh' = IF p.by = "down" THEN [dh EXCEPT !.cancel = "clear"] ELSE dh
  BY DEF Fire
<1> DEFINE taken == st \in DOMAIN Table[p.ev]
           d == IF taken THEN Table[p.ev][st] ELSE st
           e == IF taken THEN Enter(d, flow, err) ELSE Keep
           own == RequestEvent(p, taken, e)
           go == {Post(x, "go") : x \in e.post}
<1>2. /\ st' = d /\ wk' = e.wk
      /\ p.by = "req" => rq' = own.rq /\ tp' = own.tp /\ pend' = (pend \ {p}) \cup go \cup own.post
      /\ p.by # "req" => rq' = Signalled(e.signal) /\ tp' = e.tp /\ pend' = (pend \ {p}) \cup go
      /\ dh' = IF p.by = "down" THEN [dh EXCEPT !.cancel = "clear"] ELSE dh
  BY <1>1
<1>3. p \in Posts /\ p.ev \in Events
  BY DEF Shape, Posts
<1>4. d \in States
  BY <1>3, NextState DEF Shape
<1>5. Harmless(e)
  <2>1. CASE taken
    BY <2>1, <1>4, EnterHarmless
  <2>2. CASE ~taken
    BY <2>2, KeepHarmless
  <2> QED BY <2>1, <2>2
<1>6. e.tp.resetting \in BOOLEAN /\ DOMAIN e.tp = TpMembers /\ e.tp.resetting = tp.resetting
  BY <1>5 DEF Harmless, Shape
<1>7. \A q \in go : q \in Posts /\ q.by = "go"
  BY <1>5 DEF Harmless, Post, Posts
<1>8. DOMAIN wk' = {"at", "todo", "ev"} /\ wk'.ev \in Events
  BY <1>2, <1>5 DEF Harmless
<1>9. DOMAIN dh' = DOMAIN dh /\ dh'.cancel \in {dh.cancel, "clear"}
  BY <1>2 DEF Shape
<1> HIDE DEF taken, d, e, go
<1>10. CASE p.by # "req"
  <2>1. tp' = e.tp /\ rq' = Signalled(e.signal) /\ pend' = (pend \ {p}) \cup go
    BY <1>2, <1>10
  <2>2. DOMAIN tp' = TpMembers /\ tp'.resetting = tp.resetting
    BY <2>1, <1>6
  <2>3. /\ DOMAIN rq' = RqMembers /\ rq'.at \in Places
        /\ rq'.at = rq.at \/ (rq.at = "wait" /\ rq'.at \in {"ok", "fail"})
    BY <2>1, <1>5 DEF Signalled, Harmless, Shape, RqMembers, Places
  <2>4. pend' \subseteq Posts
    BY <2>1, <1>7 DEF Shape
  <2>5. OneOwnEvent'
    <3>1. \A q \in pend' : q.by = "req" => q \in pend
      BY <2>1, <1>7
    <3> QED BY <3>1, <2>3 DEF OneOwnEvent
  <2> QED BY <1>2, <1>4, <1>8, <1>9, <2>2, <2>3, <2>4, <2>5 DEF Shape
<1>11. CASE p.by = "req"
  <2>1. rq.at \in {"event", "fail", "clear"} /\ \A q \in pend \ {p} : q.by # "req"
    BY <1>11 DEF OneOwnEvent
  <2>2. tp' = own.tp /\ rq' = own.rq /\ pend' = (pend \ {p}) \cup go \cup own.post
    BY <1>2, <1>11
  <2>3. DOMAIN rq = RqMembers /\ DOMAIN tp = TpMembers /\ tp.resetting \in BOOLEAN
    BY DEF Shape
  <2>4. /\ DOMAIN own.rq = RqMembers /\ DOMAIN own.tp = TpMembers
        /\ own.tp.resetting \in {tp.resetting, FALSE}
        /\ own.rq.at \in {"none", "run", "clear"}
        /\ own.post = {} \/ (own.post = {Post("Reset", "req")} /\ own.rq.at = "clear")
    <3>1. CASE rq.at = "event" /\ taken
      <4>1. own = [rq |-> [rq EXCEPT !.at = "run"], tp |-> e.tp, post |-> {}, path |-> pers.path]
        BY <3>1 DEF RequestEvent
      <4> HIDE DEF own
      <4> QED BY <4>1, <1>6, <2>3 DEF RqMembers
    <3>2. CASE rq.at = "event" /\ ~taken
      <4> DEFINE ret == Returned(rq, Failed(rq, tp))
      <4>1. own = [rq |-> ret.rq, tp |-> ret.tp, post |-> ret.post, path |-> pers.path]
        BY <3>2 DEF RequestEvent
      <4>2. DOMAIN Failed(rq, tp) = TpMembers /\ Failed(rq, tp).resetting = tp.resetting
        BY <2>3, FailedEffect
      <4>3. /\ DOMAIN ret.rq = RqMembers /\ DOMAIN ret.tp = TpMembers
            /\ ret.tp.resetting \in {tp.resetting, FALSE}
            /\ \/ ret.post = {} /\ ret.rq.at = "none"
               \/ ret.post = {Post("Reset", "req")} /\ ret.rq.at = "clear"
        BY <2>3, <4>2, ReturnedEffect
      <4> HIDE DEF own, ret
      <4> QED BY <4>1, <4>3
    <3>3. CASE rq.at = "fail"
      <4> DEFINE ret == Returned(rq, e.tp)
      <4>1. own = [rq |-> ret.rq, tp |-> ret.tp, post |-> ret.post, path |-> pers.path]
        BY <3>3 DEF RequestEvent
      <4>2. /\ DOMAIN ret.rq = RqMembers /\ DOMAIN ret.tp = TpMembers
            /\ ret.tp.resetting \in {e.tp.resetting, FALSE}
            /\ \/ ret.post = {} /\ ret.rq.at = "none"
               \/ ret.post = {Post("Reset", "req")} /\ ret.rq.at = "clear"
        BY <2>3, <1>6, ReturnedEffect
      <4> HIDE DEF own, ret
      <4> QED BY <4>1, <4>2, <1>6
    <3>4. CASE rq.at = "clear"
      <4>1. own = [rq |-> NoRequest, tp |-> e.tp, post |-> {}, path |-> None]
        BY <3>4 DEF RequestEvent
      <4> HIDE DEF own
      <4> QED BY <4>1, <1>6 DEF NoRequest, RqMembers
    <3> QED BY <2>1, <3>1, <3>2, <3>3, <3>4
  <2> HIDE DEF own
  <2>5. pend' \subseteq Posts
    <3>1. Post("Reset", "req") \in Posts
      BY EventNames DEF Post, Posts
    <3> QED BY <2>2, <2>4, <3>1, <1>7 DEF Shape
  <2>6. OneOwnEvent'
    <3>1. \A q \in pend' : q.by = "req" => own.post = {Post("Reset", "req")} /\ q = Post("Reset", "req")
      BY <2>1, <2>2, <2>4, <1>7
    <3> QED BY <3>1, <2>2, <2>4 DEF OneOwnEvent
  <2> QED BY <1>2, <1>4, <1>8, <1>9, <2>2, <2>3, <2>4, <2>5, <2>6 DEF Shape, Places
<1> QED BY <1>10, <1>11
\* Steps of the FSM's goroutines, of the worker, of the message loop, of the ONU
\* and of the cancellation: they add events of their own to the waiting ones.
LEMMA OthersPost ==
  ASSUME Shape, OneOwnEvent, UNCHANGED <<st, rq>>,
         NEW S, pend' = pend \cup S, \A q \in S : q.ev \in Events /\ q \in Posts /\ q.by # "req",
         DOMAIN wk' = {"at", "todo", "ev"}, wk'.ev \in Events,
         DOMAIN tp' = TpMembers, tp'.resetting \in BOOLEAN, DOMAIN dh' = DOMAIN dh
  PROVE  Shape' /\ OneOwnEvent'
<1>1. pend' \subseteq Posts
  BY DEF Shape
<1>2. \A q \in pend' : q.by = "req" => q \in pend
  OBVIOUS
<1>3. OneOwnEvent'
  BY <1>2 DEF OneOwnEvent
<1> QED BY <1>1, <1>3 DEF Shape

\* The event of an answer is one of the FSM's.
LEMMA EventsForAnswer ==
  ASSUME NEW a
  PROVE  EventsFor(a) \subseteq Events
<1>1. \A s \in SingleRequests : s[3] \in Events
  BY EventNames DEF SingleRequests
<1> QED BY <1>1 DEF EventsFor

\* The waiting goroutines that are not the request's.
LEMMA OtherPosts ==
  ASSUME NEW ev \in Events, NEW by \in {"go", "loop", "wk", "late", "down"}
  PROVE  Post(ev, by) \in Posts /\ Post(ev, by).ev \in Events /\ Post(ev, by).by # "req"
BY DEF Post, Posts

Background ==
  \/ AbortSent \/ FlowRemoved \/ WorkerSends \/ WorkerReceives \/ WorkerTimer \/ WorkerEnds
  \/ LoopEnds \/ HandleAnswer \/ HandleRefusal \/ OnuAnswers \/ RequestLost
  \/ DeviceDown \/ DeviceUp \/ Down

\* These steps keep the shape; of them only CancelFlag raises the flag, and
\* then the cancellation goes on.
LEMMA BackgroundEffect ==
  ASSUME Shape, OneOwnEvent, ResettingEnds, Background
  PROVE  ResetInv'
<1> DEFINE NoWk == DOMAIN wk' = {"at", "todo", "ev"} /\ wk'.ev \in Events
<1>r. "Reset" \in Events /\ "Restart" \in Events /\ "FlowRemDone" \in Events
  BY EventNames
<1>w. DOMAIN NoWork = {"at", "todo", "ev"} /\ NoWork.ev \in Events
  BY <1>r DEF NoWork
<1>n. ASSUME UNCHANGED <<pend, rq, st>>, DOMAIN tp' = TpMembers, tp'.resetting \in BOOLEAN,
             DOMAIN dh' = DOMAIN dh, NoWk
      PROVE  Shape' /\ OneOwnEvent'
  <2> DEFINE S == {}
  <2>1. UNCHANGED <<st, rq>> /\ pend' = pend \cup S
    BY <1>n
  <2>2. \A q \in S : q.ev \in Events /\ q \in Posts /\ q.by # "req"
    OBVIOUS
  <2> HIDE DEF S
  <2> QED BY <2>1, <2>2, <1>n, OthersPost
<1>o. ASSUME NEW ev \in Events, NEW by \in {"go", "loop", "wk", "late", "down"},
             UNCHANGED <<rq, st, tp>>, pend' = pend \cup {Post(ev, by)}, NoWk, DOMAIN dh' = DOMAIN dh
      PROVE  Shape' /\ OneOwnEvent'
  <2> DEFINE S == {Post(ev, by)}
  <2>1. \A q \in S : q.ev \in Events /\ q \in Posts /\ q.by # "req"
    BY OtherPosts
  <2>2. DOMAIN tp' = TpMembers /\ tp'.resetting \in BOOLEAN
    BY <1>o DEF Shape
  <2>3. UNCHANGED <<st, rq>> /\ pend' = pend \cup S
    BY <1>o
  <2> HIDE DEF S
  <2> QED BY <1>o, <2>1, <2>2, <2>3, OthersPost
<1>s. NoWk <=> (DOMAIN wk' = {"at", "todo", "ev"} /\ wk'.ev \in Events)
  OBVIOUS
<1>t. DOMAIN wk = {"at", "todo", "ev"} /\ wk.ev \in Events /\ DOMAIN tp = TpMembers
      /\ tp.resetting \in BOOLEAN /\ DOMAIN dh = {"ready", "onReboot", "check", "cancel"}
  BY DEF Shape
<1>u. UNCHANGED wk => NoWk
  BY <1>t
<1>v. wk' = NoWork => NoWk
  BY <1>w
<1> HIDE DEF NoWk
<1>1. CASE AbortSent
  <2>1. Shape' /\ OneOwnEvent'
    BY <1>1, <1>o, <1>r, <1>u DEF AbortSent
  <2> QED BY <1>1, <2>1 DEF AbortSent, ResetInv, ResettingEnds
<1>2. CASE FlowRemoved
  <2>1. Shape' /\ OneOwnEvent'
    BY <1>2, <1>o, <1>r, <1>u DEF FlowRemoved
  <2> QED BY <1>2, <2>1 DEF FlowRemoved, ResetInv, ResettingEnds
<1>3. CASE WorkerSends
  <2>1. CASE wk' = NoWork /\ pend' = pend \cup {Post("Reset", "wk")}
    <3>1. Shape' /\ OneOwnEvent'
      BY <1>3, <2>1, <1>o, <1>r, <1>v DEF WorkerSends
    <3> QED BY <1>3, <3>1 DEF WorkerSends, ResetInv, ResettingEnds
  <2>2. CASE wk' = [wk EXCEPT !.at = "wait"] /\ UNCHANGED pend
    <3>1. NoWk
      BY <2>2, <1>s, <1>t
    <3>2. Shape' /\ OneOwnEvent'
      BY <1>3, <2>2, <3>1, <1>n, <1>t DEF WorkerSends
    <3> QED BY <1>3, <3>2 DEF WorkerSends, ResetInv, ResettingEnds
  <2> QED BY <1>3, <2>1, <2>2 DEF WorkerSends
<1>4. CASE WorkerReceives
  <2>1. CASE wk' = NoWork /\ pend' = pend \cup {Post(wk.ev, "wk")}
    <3>1. Shape' /\ OneOwnEvent'
      BY <1>4, <2>1, <1>o, <1>t, <1>v DEF WorkerReceives
    <3> QED BY <1>4, <3>1 DEF WorkerReceives, ResetInv, ResettingEnds
  <2>2. CASE wk' = [wk EXCEPT !.at = "send", !.todo = Tail(@)] /\ UNCHANGED pend
    <3>1. NoWk
      BY <2>2, <1>s, <1>t
    <3>2. Shape' /\ OneOwnEvent'
      BY <1>4, <2>2, <3>1, <1>n, <1>t DEF WorkerReceives
    <3> QED BY <1>4, <3>2 DEF WorkerReceives, ResetInv, ResettingEnds
  <2> QED BY <1>4, <2>1, <2>2 DEF WorkerReceives
<1>5. CASE WorkerTimer
  <2>1. NoWk
    BY <1>5, <1>s, <1>t DEF WorkerTimer
  <2>2. Shape' /\ OneOwnEvent'
    BY <1>5, <2>1, <1>n, <1>t DEF WorkerTimer
  <2> QED BY <1>5, <2>2 DEF WorkerTimer, ResetInv, ResettingEnds
<1>6. CASE WorkerEnds
  <2>1. Shape' /\ OneOwnEvent'
    BY <1>6, <1>o, <1>r, <1>v DEF WorkerEnds
  <2> QED BY <1>6, <2>1 DEF WorkerEnds, ResetInv, ResettingEnds
<1>7. CASE LoopEnds \/ HandleRefusal \/ OnuAnswers \/ RequestLost
  <2>1. UNCHANGED <<st, pend, wk, tp, rq, dh>>
    BY <1>7 DEF LoopEnds, HandleRefusal, OnuAnswers, RequestLost
  <2>2. Shape' /\ OneOwnEvent'
    BY <2>1, <1>n, <1>t, <1>u
  <2> QED BY <2>1, <2>2 DEF ResetInv, ResettingEnds
<1>8. CASE HandleAnswer
  <2>1. UNCHANGED <<st, wk, tp, rq, dh>>
    BY <1>8 DEF HandleAnswer
  <2>2. UNCHANGED pend \/ \E ev \in Events : pend' = pend \cup {Post(ev, "loop")}
    BY <1>8, EventsForAnswer DEF HandleAnswer
  <2>3. Shape' /\ OneOwnEvent'
    BY <2>1, <2>2, <1>n, <1>o, <1>t, <1>u
  <2> QED BY <2>1, <2>3 DEF ResetInv, ResettingEnds
<1>9. CASE DeviceDown \/ DeviceUp
  <2>1. /\ UNCHANGED <<st, pend, wk, tp, rq>> /\ DOMAIN dh' = DOMAIN dh
        /\ dh.cancel = "no"
    BY <1>9, <1>t DEF DeviceDown, DeviceUp, StartDown
  <2>2. Shape' /\ OneOwnEvent'
    BY <2>1, <1>n, <1>t, <1>u
  <2> QED BY <2>1, <2>2 DEF ResetInv, ResettingEnds
<1>10. CASE CancelFlag
  <2>1. /\ UNCHANGED <<st, pend, wk, rq>> /\ DOMAIN dh' = DOMAIN dh
        /\ dh'.cancel \in {"clear", "await"}
        /\ DOMAIN tp' = TpMembers /\ tp'.resetting \in BOOLEAN
    BY <1>10, <1>t DEF CancelFlag, TpMembers
  <2>2. Shape' /\ OneOwnEvent'
    BY <2>1, <1>n, <1>u
  <2> QED BY <2>1, <2>2 DEF ResetInv, ResettingEnds
<1>11. CASE CancelAwait
  <2>1. /\ UNCHANGED <<st, pend, wk, tp, rq>> /\ DOMAIN dh' = DOMAIN dh
        /\ dh'.cancel \in {"send", "flow"}
    BY <1>11, <1>t DEF CancelAwait
  <2>2. Shape' /\ OneOwnEvent'
    BY <2>1, <1>n, <1>t, <1>u
  <2> QED BY <2>1, <2>2 DEF ResetInv, ResettingEnds
<1>12. CASE CancelSend
  <2>1. /\ UNCHANGED <<st, tp, rq>> /\ DOMAIN dh' = DOMAIN dh /\ dh'.cancel = "flow"
        /\ wk' = NoWork /\ pend' = pend \cup {Post("Reset", "wk")}
    BY <1>12, <1>t DEF CancelSend
  <2>2. Shape' /\ OneOwnEvent'
    BY <2>1, <1>o, <1>r, <1>v
  <2> QED BY <2>1, <2>2 DEF ResetInv, ResettingEnds
<1>13. CASE CancelFlow
  <2>1. /\ UNCHANGED <<st, tp, wk, rq>> /\ DOMAIN dh' = DOMAIN dh
        /\ dh'.cancel \in {"sendflow", "event"}
        /\ UNCHANGED pend \/ pend' = pend \cup {Post("Reset", "down")}
    BY <1>13, <1>t DEF CancelFlow
  <2>2. Shape' /\ OneOwnEvent'
    BY <2>1, <1>n, <1>o, <1>r, <1>t, <1>u
  <2> QED BY <2>1, <2>2 DEF ResetInv, ResettingEnds
<1>14. CASE CancelSendFlow
  <2> DEFINE S == {Post("Reset", "go"), Post("Reset", "down")}
  <2>1. /\ UNCHANGED <<st, tp, wk, rq>> /\ DOMAIN dh' = DOMAIN dh /\ dh'.cancel = "event"
        /\ pend' = pend \cup S
    BY <1>14, <1>t DEF CancelSendFlow
  <2>2. \A q \in S : q.ev \in Events /\ q \in Posts /\ q.by # "req"
    BY <1>r, OtherPosts
  <2> HIDE DEF S
  <2>3. Shape' /\ OneOwnEvent'
    BY <2>1, <2>2, <1>t, OthersPost
  <2> QED BY <2>1, <2>3 DEF ResetInv, ResettingEnds
<1>15. CASE CancelClear
  <2>1. /\ UNCHANGED <<st, pend, wk, rq>> /\ DOMAIN dh' = DOMAIN dh
        /\ DOMAIN tp' = TpMembers /\ tp'.resetting = FALSE
    BY <1>15, <1>t DEF CancelClear, ClearAniSideConfig, TpMembers
  <2>2. Shape' /\ OneOwnEvent'
    BY <2>1, <1>n, <1>u
  <2> QED BY <2>1, <2>2 DEF ResetInv, ResettingEnds
<1> QED BY <1>1, <1>2, <1>3, <1>4, <1>5, <1>6, <1>7, <1>8, <1>9, <1>10, <1>11, <1>12, <1>13,
           <1>14, <1>15 DEF Background, Down
\* Steps of the request: it has no event under way, and gets one at most.
LEMMA OwnPost ==
  ASSUME Shape, \A q \in pend : q.by # "req", UNCHANGED <<st, wk>>, DOMAIN dh' = DOMAIN dh,
         DOMAIN tp' = TpMembers, tp'.resetting \in BOOLEAN,
         DOMAIN rq' = RqMembers, rq'.at \in Places, NEW S, pend' = pend \cup S,
         \/ S = {}
         \/ \E ev \in Events : S = {Post(ev, "req")} /\ rq'.at \in {"event", "clear"}
  PROVE  Shape' /\ OneOwnEvent'
<1>1. CASE S = {}
  BY <1>1 DEF Shape, OneOwnEvent
<1>2. ASSUME NEW ev \in Events, S = {Post(ev, "req")}, rq'.at \in {"event", "clear"}
      PROVE  Shape' /\ OneOwnEvent'
  <2>1. Post(ev, "req") \in Posts
    BY DEF Post, Posts
  <2>2. pend' \subseteq Posts /\ \A q \in pend' : q.by = "req" => q = Post(ev, "req")
    BY <1>2, <2>1 DEF Shape
  <2> QED BY <1>2, <2>2 DEF Shape, OneOwnEvent
<1> QED BY <1>1, <1>2

\* runAniConfigFsm, or the return of the goroutine.
LEMMA RunEffect ==
  ASSUME NEW ev \in Events, NEW r, NEW t, DOMAIN r = RqMembers, DOMAIN t = TpMembers,
         t.resetting \in BOOLEAN, Run(ev, r, t)
  PROVE  /\ DOMAIN tp' = TpMembers /\ tp'.resetting \in {t.resetting, FALSE}
         /\ DOMAIN rq' = RqMembers /\ rq'.at \in {"none", "event", "clear"}
         /\ \E S : /\ pend' = pend \cup S
                   /\ \/ S = {}
                      \/ \E x \in Events : S = {Post(x, "req")} /\ rq'.at \in {"event", "clear"}
<1>1. CASE MayRun(ev)
  <2>1. rq' = [r EXCEPT !.at = "event"] /\ tp' = t /\ pend' = pend \cup {Post(ev, "req")}
    BY <1>1 DEF Run
  <2>2. DOMAIN rq' = RqMembers /\ rq'.at = "event"
    BY <2>1 DEF RqMembers
  <2> QED BY <2>1, <2>2
<1>2. CASE ~MayRun(ev)
  <2> DEFINE ret == Returned(r, Failed(r, t))
  <2>1. rq' = ret.rq /\ tp' = ret.tp /\ pend' = pend \cup ret.post
    BY <1>2 DEF Run
  <2>2. DOMAIN Failed(r, t) = TpMembers /\ Failed(r, t).resetting = t.resetting
    BY FailedEffect
  <2>3. /\ DOMAIN ret.rq = RqMembers /\ DOMAIN ret.tp = TpMembers
        /\ ret.tp.resetting \in {t.resetting, FALSE}
        /\ \/ ret.post = {} /\ ret.rq.at = "none"
           \/ ret.post = {Post("Reset", "req")} /\ ret.rq.at = "clear"
    BY <2>2, ReturnedEffect
  <2>4. "Reset" \in Events
    BY EventNames
  <2> HIDE DEF ret
  <2> QED BY <2>1, <2>3, <2>4
<1> QED BY <1>1, <1>2

Requests ==
  \/ ConfigureUniTp \/ RequestWaits \/ RequestSucceeds \/ RequestFails \/ Deadline
  \/ CheckForDeviceTechProf
  \/ \E i \in Insts : TechProfileDownload(i) \/ DeleteTcont(i)
  \/ \E g \in Unicast(Gems) : DeleteGemPort(g)

\* What the steps of a request do to the flag and to the cancellation: they
\* leave the flag, or clear it with the profile, and only a download without a
\* free T-CONT begins a cancellation.
RequestLeaves ==
  /\ tp'.resetting \in {tp.resetting, FALSE}
  /\ dh'.cancel = dh.cancel \/ (dh.cancel = "no" /\ dh'.cancel = "flag")

\* A request that returns at once: handleDeleteGemPortRequest and
\* handleDeleteTcontRequest of what is not configured, or after success.
LEMMA ReturnStep ==
  ASSUME Shape, \A q \in pend : q.by # "req", UNCHANGED <<st, wk>>, UNCHANGED dh,
         NEW r, NEW t, DOMAIN r = RqMembers, DOMAIN t = TpMembers, t.resetting = tp.resetting,
         rq' = Returned(r, t).rq, tp' = Returned(r, t).tp, pend' = pend \cup Returned(r, t).post
  PROVE  Shape' /\ OneOwnEvent' /\ RequestLeaves
<1> DEFINE ret == Returned(r, t)
<1>1. t.resetting \in BOOLEAN
  BY DEF Shape
<1>2. /\ DOMAIN ret.rq = RqMembers /\ DOMAIN ret.tp = TpMembers
      /\ ret.tp.resetting \in {t.resetting, FALSE}
      /\ \/ ret.post = {} /\ ret.rq.at = "none"
         \/ ret.post = {Post("Reset", "req")} /\ ret.rq.at = "clear"
  BY <1>1, ReturnedEffect
<1>3. rq' = ret.rq /\ tp' = ret.tp /\ pend' = pend \cup ret.post
  OBVIOUS
<1>4. "Reset" \in Events
  BY EventNames
<1> HIDE DEF ret
<1>5. DOMAIN rq' = RqMembers /\ rq'.at \in Places /\ DOMAIN tp' = TpMembers /\ tp'.resetting \in BOOLEAN
  BY <1>1, <1>2, <1>3 DEF Places
<1>6. \/ ret.post = {}
      \/ \E ev \in Events : ret.post = {Post(ev, "req")} /\ rq'.at \in {"event", "clear"}
  BY <1>2, <1>3, <1>4
<1>7. Shape' /\ OneOwnEvent'
  BY <1>3, <1>5, <1>6, OwnPost
<1> QED BY <1>2, <1>3, <1>7 DEF RequestLeaves

\* A request that starts a run of the FSM.
LEMMA RunStep ==
  ASSUME Shape, \A q \in pend : q.by # "req", UNCHANGED <<st, wk>>, UNCHANGED dh,
         NEW ev \in Events, NEW r, NEW t, DOMAIN r = RqMembers, DOMAIN t = TpMembers,
         t.resetting = tp.resetting, Run(ev, r, t)
  PROVE  Shape' /\ OneOwnEvent' /\ RequestLeaves
<1>1. t.resetting \in BOOLEAN
  BY DEF Shape
<1>2. PICK S : /\ DOMAIN tp' = TpMembers /\ tp'.resetting \in {t.resetting, FALSE}
               /\ DOMAIN rq' = RqMembers /\ rq'.at \in {"none", "event", "clear"}
               /\ pend' = pend \cup S
               /\ \/ S = {}
                  \/ \E x \in Events : S = {Post(x, "req")} /\ rq'.at \in {"event", "clear"}
  BY <1>1, RunEffect
<1>3. rq'.at \in Places /\ tp'.resetting \in BOOLEAN
  BY <1>1, <1>2 DEF Places
<1>4. Shape' /\ OneOwnEvent'
  BY <1>2, <1>3, OwnPost
<1> QED BY <1>2, <1>4 DEF RequestLeaves
\* The steps of a request keep the shape and its single event.
LEMMA RequestsEffect ==
  ASSUME Shape, OneOwnEvent, Requests
  PROVE  Shape' /\ OneOwnEvent' /\ RequestLeaves
<1>t. /\ DOMAIN tp = TpMembers /\ tp.resetting \in BOOLEAN /\ DOMAIN rq = RqMembers /\ rq.at \in Places
      /\ DOMAIN dh = {"ready", "onReboot", "check", "cancel"}
  BY DEF Shape
<1>f. rq.at \notin {"event", "fail", "clear"} => \A q \in pend : q.by # "req"
  BY DEF OneOwnEvent
<1>i. rq = NoRequest => rq.at \notin {"event", "fail", "clear"}
  BY DEF NoRequest
<1>e. {"Start", "RemGemiw", "RemTcontPath"} \subseteq Events
  BY EventNames
<1>q. DOMAIN NoRequest = RqMembers /\ NoRequest.at = "none"
  BY DEF NoRequest, RqMembers
<1>n. ASSUME \A q \in pend : q.by # "req", UNCHANGED <<st, wk, pend>>, DOMAIN dh' = DOMAIN dh,
             DOMAIN tp' = TpMembers, tp'.resetting = tp.resetting, DOMAIN rq' = RqMembers, rq'.at \in Places
      PROVE  Shape' /\ OneOwnEvent'
  <2> DEFINE S == {}
  <2>1. pend' = pend \cup S /\ S = {} /\ UNCHANGED <<st, wk>> /\ tp'.resetting \in BOOLEAN
    BY <1>n, <1>t
  <2> HIDE DEF S
  <2> QED BY <1>n, <2>1, OwnPost
<1>1. CASE ConfigureUniTp
  <2>1. \A q \in pend : q.by # "req"
    BY <1>1, <1>f DEF ConfigureUniTp
  <2>2. UNCHANGED <<st, wk>> /\ UNCHANGED dh
    BY <1>1 DEF ConfigureUniTp
  <2>3. CASE rq' = NoRequest /\ tp' = Failed(rq, tp) /\ UNCHANGED pend
    <3>1. DOMAIN tp' = TpMembers /\ tp'.resetting = tp.resetting
      BY <2>3, <1>t, FailedEffect
    <3>2. DOMAIN rq' = RqMembers /\ rq'.at \in Places
      BY <2>3, <1>q DEF Places
    <3> QED BY <2>1, <2>2, <2>3, <3>1, <3>2, <1>n DEF RequestLeaves
  <2>4. CASE Run("Start", rq, [tp EXCEPT !.ind = TRUE, !.done = FALSE])
    <3> DEFINE t == [tp EXCEPT !.ind = TRUE, !.done = FALSE]
    <3>1. DOMAIN t = TpMembers /\ t.resetting = tp.resetting
      BY <1>t
    <3>2. Run("Start", rq, t)
      BY <2>4
    <3> HIDE DEF t
    <3> QED BY <2>1, <2>2, <3>1, <3>2, <1>t, <1>e, RunStep
  <2> QED BY <1>1, <2>3, <2>4 DEF ConfigureUniTp
<1>2. CASE RequestWaits
  <2>1. /\ rq.at = "run" /\ UNCHANGED <<st, wk, pend, tp, dh>>
        /\ DOMAIN rq' = RqMembers /\ rq'.at = "wait"
    BY <1>2, <1>t DEF RequestWaits, RqMembers
  <2> QED BY <2>1, <1>f, <1>n, <1>t DEF RequestLeaves, Places
<1>3. CASE RequestSucceeds
  <2> DEFINE t == IF rq.op = "delGem" /\ tp.remGem # None THEN DeleteGemPortParams(tp) ELSE tp
  <2>1. /\ \A q \in pend : q.by # "req"
        /\ UNCHANGED <<st, wk>> /\ UNCHANGED dh
    BY <1>3, <1>f DEF RequestSucceeds
  <2>2. DOMAIN t = TpMembers /\ t.resetting = tp.resetting
    BY <1>t DEF DeleteGemPortParams, TpMembers
  <2>3. rq' = Returned(rq, t).rq /\ tp' = Returned(rq, t).tp /\ pend' = pend \cup Returned(rq, t).post
    BY <1>3 DEF RequestSucceeds
  <2> HIDE DEF t
  <2> QED BY <2>1, <2>2, <2>3, <1>t, ReturnStep
<1>4. CASE RequestFails
  <2>1. /\ rq.at = "fail" /\ pend' = pend \cup {Post("Reset", "req")} /\ Post("Reset", "req") \notin pend
        /\ UNCHANGED <<st, wk, rq, dh>> /\ tp' = Failed(rq, tp)
    BY <1>4 DEF RequestFails
  <2>2. DOMAIN tp' = TpMembers /\ tp'.resetting = tp.resetting
    BY <2>1, <1>t, FailedEffect
  <2>3. \A q \in pend : q.by # "req"
    <3>1. SUFFICES ASSUME NEW q \in pend, q.by = "req" PROVE q = Post("Reset", "req")
      BY <2>1
    <3>2. q \in Posts /\ q.ev = "Reset"
      BY <2>1, <3>1 DEF OneOwnEvent, Shape
    <3> QED BY <3>1, <3>2 DEF Post, Posts
  <2>4. Post("Reset", "req") \in Posts /\ Post("Reset", "req").ev = "Reset"
    BY EventNames DEF Post, Posts
  <2>5. pend' \subseteq Posts /\ \A q \in pend' : q.by = "req" => q = Post("Reset", "req")
    BY <2>1, <2>3, <2>4 DEF Shape
  <2>6. OneOwnEvent'
    BY <2>1, <2>4, <2>5 DEF OneOwnEvent
  <2>7. Shape'
    BY <2>1, <2>2, <2>5 DEF Shape
  <2> QED BY <2>1, <2>2, <2>6, <2>7 DEF RequestLeaves
<1>5. CASE Deadline
  <2>1. /\ rq.at = "wait" /\ pend' = pend \cup {Post("Reset", "late")}
        /\ UNCHANGED <<st, wk, dh>> /\ tp' = Failed(rq, tp) /\ rq' = NoRequest
    BY <1>5 DEF Deadline
  <2>2. DOMAIN tp' = TpMembers /\ tp'.resetting = tp.resetting
    BY <2>1, <1>t, FailedEffect
  <2>3. \A q \in pend : q.by # "req"
    BY <2>1, <1>f
  <2>4. Post("Reset", "late") \in Posts /\ Post("Reset", "late").by # "req"
    BY EventNames, OtherPosts
  <2>5. pend' \subseteq Posts /\ \A q \in pend' : q.by # "req"
    BY <2>1, <2>3, <2>4 DEF Shape
  <2>6. OneOwnEvent'
    BY <2>5 DEF OneOwnEvent
  <2>7. Shape'
    BY <2>1, <2>2, <2>5, <1>q DEF Shape, Places
  <2> QED BY <2>1, <2>2, <2>6, <2>7 DEF RequestLeaves
<1>6. CASE CheckForDeviceTechProf
  <2>1. UNCHANGED <<st, wk, pend>> /\ rq = NoRequest /\ dh' = [dh EXCEPT !.check = FALSE]
    BY <1>6 DEF CheckForDeviceTechProf
  <2>2. /\ tp' = tp \/ tp' = [tp EXCEPT !.err = tp.resetting]
        /\ rq' = rq \/ rq' = NoRequest \/ rq' = [op |-> "reboot", arg |-> f.inst, at |-> "check"]
    BY <1>6 DEF CheckForDeviceTechProf
  <2>3. DOMAIN tp' = TpMembers /\ tp'.resetting = tp.resetting
    BY <2>2, <1>t DEF TpMembers
  <2>4. DOMAIN rq' = RqMembers /\ rq'.at \in Places
    BY <2>1, <2>2, <1>q DEF RqMembers, Places
  <2>5. DOMAIN dh' = DOMAIN dh /\ dh'.cancel = dh.cancel
    BY <2>1, <1>t
  <2> QED BY <2>1, <2>3, <2>4, <2>5, <1>f, <1>i, <1>n DEF RequestLeaves
<1>7. ASSUME NEW i \in Insts, TechProfileDownload(i) PROVE Shape' /\ OneOwnEvent' /\ RequestLeaves
  <2>1. UNCHANGED <<st, wk, pend>> /\ rq = NoRequest
    BY <1>7 DEF TechProfileDownload, Ask1
  <2>2. /\ tp' = tp \/ tp' = [tp EXCEPT !.err = tp.resetting]
        /\ rq' = rq \/ rq' = NoRequest \/ rq' = [op |-> "download", arg |-> i, at |-> "check"]
        /\ dh' = dh \/ (dh.cancel = "no" /\ dh' = StartDown)
    BY <1>7 DEF TechProfileDownload
  <2>3. DOMAIN tp' = TpMembers /\ tp'.resetting = tp.resetting
    BY <2>2, <1>t DEF TpMembers
  <2>4. DOMAIN rq' = RqMembers /\ rq'.at \in Places
    BY <2>1, <2>2, <1>q DEF RqMembers, Places
  <2>5. DOMAIN dh' = DOMAIN dh /\ (dh'.cancel = dh.cancel \/ (dh.cancel = "no" /\ dh'.cancel = "flag"))
    BY <2>2, <1>t DEF StartDown
  <2> QED BY <2>1, <2>3, <2>4, <2>5, <1>f, <1>i, <1>n DEF RequestLeaves
<1>8. ASSUME NEW i \in Insts, DeleteTcont(i) PROVE Shape' /\ OneOwnEvent' /\ RequestLeaves
  <2> DEFINE t == [tp EXCEPT !.err = FALSE]
             r == [op |-> "delTcont", arg |-> i, at |-> "check"]
  <2>1. UNCHANGED <<st, wk>> /\ UNCHANGED dh /\ rq = NoRequest
    BY <1>8 DEF DeleteTcont, Ask1
  <2>2. DOMAIN t = TpMembers /\ t.resetting = tp.resetting /\ DOMAIN r = RqMembers
    BY <1>t DEF RqMembers, TpMembers
  <2>3. \/ rq' = Returned(r, t).rq /\ tp' = Returned(r, t).tp /\ pend' = pend \cup Returned(r, t).post
        \/ Run("RemTcontPath", r, t)
    BY <1>8 DEF DeleteTcont
  <2> HIDE DEF t, r
  <2>4. \A q \in pend : q.by # "req"
    BY <2>1, <1>f, <1>i
  <2>5. CASE rq' = Returned(r, t).rq /\ tp' = Returned(r, t).tp /\ pend' = pend \cup Returned(r, t).post
    BY <2>1, <2>2, <2>4, <2>5, ReturnStep
  <2>6. CASE Run("RemTcontPath", r, t)
    BY <2>1, <2>2, <2>4, <2>6, <1>e, RunStep
  <2> QED BY <2>3, <2>5, <2>6
<1>9. ASSUME NEW g \in Unicast(Gems), DeleteGemPort(g) PROVE Shape' /\ OneOwnEvent' /\ RequestLeaves
  <2> DEFINE t == [tp EXCEPT !.err = FALSE, !.remGem = IF g \in tp.config.gems THEN g ELSE @]
             r == [op |-> "delGem", arg |-> g, at |-> "check"]
             u == IF t.remGem = None THEN t ELSE DeleteGemPortParams(t)
  <2>1. UNCHANGED <<st, wk>> /\ UNCHANGED dh /\ rq = NoRequest
    BY <1>9 DEF DeleteGemPort, Ask1
  <2>2. DOMAIN t = TpMembers /\ t.resetting = tp.resetting /\ DOMAIN r = RqMembers
    BY <1>t DEF RqMembers, TpMembers
  <2>3. \/ tp' = [tp EXCEPT !.err = FALSE] /\ UNCHANGED <<rq, pend>>
        \/ rq' = Returned(r, u).rq /\ tp' = Returned(r, u).tp /\ pend' = pend \cup Returned(r, u).post
        \/ Run("RemGemiw", r, t)
    BY <1>9 DEF DeleteGemPort
  <2> HIDE DEF t, r
  <2>4. DOMAIN u = TpMembers /\ u.resetting = tp.resetting
    BY <2>2 DEF DeleteGemPortParams, TpMembers
  <2> HIDE DEF u
  <2>5. \A q \in pend : q.by # "req"
    BY <2>1, <1>f, <1>i
  <2>6. CASE rq' = Returned(r, u).rq /\ tp' = Returned(r, u).tp /\ pend' = pend \cup Returned(r, u).post
    BY <2>1, <2>2, <2>4, <2>5, <2>6, ReturnStep
  <2>7. CASE Run("RemGemiw", r, t)
    BY <2>1, <2>2, <2>5, <2>7, <1>e, RunStep
  <2>8. CASE tp' = [tp EXCEPT !.err = FALSE] /\ UNCHANGED <<rq, pend>>
    <3>1. DOMAIN tp' = TpMembers /\ tp'.resetting = tp.resetting
      BY <2>8, <1>t
    <3> QED BY <2>1, <2>5, <2>8, <3>1, <1>n, <1>t DEF RequestLeaves
  <2> QED BY <2>3, <2>6, <2>7, <2>8
<1> QED BY <1>1, <1>2, <1>3, <1>4, <1>5, <1>6, <1>7, <1>8, <1>9 DEF Requests

-----------------------------------------------------------------------------
(* The theorem.                                                            *)

\* The invariant holds at the start.
LEMMA InitResetInv == Init => ResetInv
<1> SUFFICES ASSUME Init PROVE ResetInv
  OBVIOUS
<1>1. PICK b \in BOOLEAN : dh = [ready |-> TRUE, onReboot |-> b, check |-> FALSE, cancel |-> "no"]
  BY DEF Init
<1>2. "Reset" \in Events
  BY EventNames
<1>3. Shape
  BY <1>1, <1>2 DEF Init, Shape, NoWork, NoRequest, RqMembers, TpMembers, Places, States
<1> QED BY <1>3 DEF Init, OneOwnEvent, ResetInv, ResettingEnds

\* Every step keeps it.
LEMMA ResetInvStep == ResetInv /\ [Next]_vars => ResetInv'
<1> SUFFICES ASSUME ResetInv, [Next]_vars PROVE ResetInv'
  OBVIOUS
<1> USE DEF ResetInv
<1>1. CASE Fire
  <2>1. Shape' /\ OneOwnEvent' /\ tp'.resetting \in {tp.resetting, FALSE} /\ dh'.cancel \in {dh.cancel, "clear"}
    BY <1>1, FireEffect
  <2> QED BY <2>1 DEF ResettingEnds
<1>2. CASE Background
  BY <1>2, BackgroundEffect
<1>3. CASE Requests
  <2>1. Shape' /\ OneOwnEvent' /\ RequestLeaves
    BY <1>3, RequestsEffect
  <2> QED BY <2>1 DEF RequestLeaves, ResettingEnds
<1>4. CASE UNCHANGED vars
  BY <1>4 DEF vars, Shape, OneOwnEvent, ResettingEnds
<1> QED BY <1>1, <1>2, <1>3, <1>4 DEF Next, Steps, Background, Requests

\* tpProfileResetting, with which every download is refused, is up only while
\* CancelProcessing runs, however its steps interleave with the FSM's callbacks
\* and with the requests of the OLT adapter (CancelProcessing,
\* clearAniSideConfig).
THEOREM ResettingIsTakenBack == Spec => []ResettingEnds
<1>1. ResetInv => ResettingEnds
  BY DEF ResetInv
<1> QED BY <1>1, InitResetInv, ResetInvStep, PTL DEF Spec
=============================================================================
