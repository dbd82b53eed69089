--------------------------- MODULE OnuUpgradeProofs --------------------------
(***************************************************************************)
(* Theorems about OnuUpgrade for any number of windows, repetitions and    *)
(* disturbances of every kind.                                             *)
(***************************************************************************)
EXTENDS OnuUpgrade, TLAPS

(***************************************************************************)
(* The shape of the state: TypeOK without the bounds of the two counters,  *)
(* with the requests and the answers.                                      *)
(***************************************************************************)
Members == [activate : BOOLEAN, commit : BOOLEAN, phase : Phases, dl : DlStates,
            img : ImgStates, reason : Reasons, cond : BOOLEAN, abortReq : Reasons,
            endOpen : BOOLEAN, repeat : BOOLEAN, verified : BOOLEAN, waitCount : Int, win : Int]

Routines == [adapter : {"off", "on"}, loop : {"off", "run"},
             ender : {"off", "delay", "send", "sent"}, waitEnd : {"off", "on"},
             dlTimer : {"off", "on"}, monitor : {"off", "on"}, abw : Nat,
             rx : {"idle", "success", "busy", "abort", "ready", "ended"},
             restart : {"off", "on"}]

Onus == [up : BOOLEAN, dl : {"closed", "open"}, img : {"invalid", "valid"},
         active : {"old", "new"}, committed : {"old", "new"},
         booting : BOOLEAN, end : {"none", "due", "sent", "failed"}]

Devs == [ref : BOOLEAN, canceled : BOOLEAN, view : {"old", "new", "none"},
         shown : {"none", "first", "both"}, toCommit : BOOLEAN, sync : BOOLEAN,
         last : [dl : DlStates, img : ImgStates, reason : Reasons]]

Cancels == [full : BOOLEAN, reason : Reasons,
            pc : {"check", "sendExpected", "sendAbort", "event"}]

Pendings == [ev : Events, by : {"rx", "async", "loop", "oper", "cancel", "sync"}]

Kinds0 == {"start", "window", "end", "abort", "get", "activate", "commit"}

Messages == [kind : Kinds0 \cup {"stop"},
             res : {"none", "err", "ok", "busy", "version", "inactive", "active", "committed"}]

Shape ==
  /\ fsm \in States /\ pending \subseteq Pendings
  /\ p \in Members /\ g \in Routines /\ onu \in Onus /\ dev \in Devs
  /\ cancel \subseteq Cancels /\ reqs \subseteq Kinds0 /\ rxq \in Seq(Messages)

\* The states some of the events are taken in.
LEMMA SrcOf ==
  /\ Src["PrepareSwDownload"] = {"WaitingAdapterDL"}
  /\ Src["RxStartSwDownload"] = {"PreparingDL"}
  /\ Src["Restart"] = {"Resetting", "AbortingDL"}
  /\ Src["AbortSwDownload"] = {"Resetting"}
  /\ Src["CommitSw"] = {"Starting", "RequestingActivate", "WaitForCommit", "Activated"}
BY DEF Src

\* The events of the FSM, by name.
LEMMA EventsAre ==
  Events = {"PrepareSwDownload", "RxStartSwDownload", "WaitWindowAck", "ContinueNextWindow",
       "EndSwDownload", "WaitEndDownload", "ContinueFinalize", "CheckImageName",
       "WaitForActivate", "RequestActivate", "ActivationDone", "WaitForCommit", "CommitSw",
       "CheckCommitted", "Reset", "Abort", "AbortSwDownload", "Restart", "Disable"}
BY DEF Src, Events

\* A send on chOnuDlReady ends one of the two supervisions and nothing else.
LEMMA OnuDlReadyEffect ==
  ASSUME NEW h \in Routines, NEW k \in OnuDlReady(h)
  PROVE  /\ k \in Routines
         /\ \A f \in {"adapter", "loop", "ender", "waitEnd", "abw", "rx", "restart"} : k[f] = h[f]
BY DEF OnuDlReady, Routines

\* The update of the states on a reset leaves the members that follow the
\* download on the ONU alone.
LEMMA StateUpdateEffect ==
  ASSUME NEW q \in Members
  PROVE  /\ StateUpdateOnReset(q) \in Members
         /\ StateUpdateOnReset(q).endOpen = q.endOpen
         /\ StateUpdateOnReset(q).verified = q.verified
         /\ StateUpdateOnReset(q).img = "committed" => q.img = "committed"
         /\ StateUpdateOnReset(q).dl = "succeeded" => q.dl = "succeeded"
<1>1. CASE q.cond
  BY <1>1 DEF StateUpdateOnReset, Members, ImgStates, DlStates, Reasons
<1>2. CASE ~q.cond /\ q.phase \in {"undefined", "downloading"}
  BY <1>2 DEF StateUpdateOnReset, Members, ImgStates, DlStates
<1>3. CASE ~q.cond /\ q.phase = "activating"
  BY <1>3 DEF StateUpdateOnReset, Members, ImgStates
<1>4. CASE ~q.cond /\ q.phase = "committing"
  BY <1>4 DEF StateUpdateOnReset, Members, ImgStates
<1>5. CASE ~q.cond /\ q.phase \notin {"undefined", "downloading", "activating", "committing"}
  BY <1>5 DEF StateUpdateOnReset
<1> QED BY <1>1, <1>2, <1>3, <1>4, <1>5

\* An error is noted in the members of the FSM, and nothing else.
LEMMA OmciErrorEffect ==
  ASSUME NEW q \in Members
  PROVE  /\ OmciError(q) \in Members
         /\ \A f \in {"activate", "commit", "phase", "dl", "img", "abortReq", "endOpen",
                       "repeat", "verified", "waitCount", "win"} : OmciError(q)[f] = q[f]
BY DEF OmciError, Members, Reasons

\* The events of the FSM with their callbacks keep the shape.
LEMMA EventShape ==
  ASSUME Shape, NEW e \in pending, Event(e) PROVE Shape'
<1>1. CASE Rejected(e)
  BY <1>1 DEF Rejected, Shape, Sent, Kinds0
<1>2. CASE EvPrepareSwDownload(e)
  <2>1. p' \in Members
    BY <1>2 DEF EvPrepareSwDownload, OmciError, Shape, Members, Reasons
  <2>2. g' \in Routines /\ onu' \in Onus
    BY <1>2 DEF EvPrepareSwDownload, Shape, Routines, Onus
  <2>3. fsm' \in States /\ pending' \subseteq Pendings /\ reqs' \subseteq Kinds0
    BY <1>2, EventsAre DEF Pendings, EvPrepareSwDownload, Taken, Shape, States, DownloadStates, Async, Ev, Sent, Kinds0
  <2> QED BY <1>2, <2>1, <2>2, <2>3 DEF EvPrepareSwDownload, Shape
<1>3. CASE EvDownloadSection(e)
  BY <1>3 DEF EvDownloadSection, Taken, Shape, States, DownloadStates, Routines
<1>4. CASE EvWaitWindowAck(e)
  BY <1>4 DEF EvWaitWindowAck, Taken, Shape, Sent, Kinds0, States, DownloadStates
<1>5. CASE EvFinalizeDL(e)
  BY <1>5 DEF EvFinalizeDL, Taken, Shape, States, DownloadStates, Routines
<1>6. CASE EvWaitEndDownload(e)
  BY <1>6, EventsAre DEF Pendings, EvWaitEndDownload, Taken, Shape, States, DownloadStates, Routines, Members, Reasons, Async, Ev
<1>7. CASE EvGetImage(e)
  <2>1. p' \in Members
    BY <1>7 DEF EvGetImage, OmciError, Shape, Members, Reasons, Phases, ImgStates
  <2>2. fsm' \in States /\ pending' \subseteq Pendings /\ reqs' \subseteq Kinds0
    <3>1. fsm' \in States /\ reqs' \subseteq Kinds0
      BY <1>7 DEF EvGetImage, Taken, Shape, States, DownloadStates, Sent, Kinds0
    <3>2. Async("Abort") \in Pendings
      BY EventsAre DEF Pendings, Async, Ev
    <3>3. pending' \subseteq pending \cup {Async("Abort")}
      BY <1>7 DEF EvGetImage
    <3> QED BY <3>1, <3>2, <3>3 DEF Shape
  <2> QED BY <1>7, <2>1, <2>2 DEF EvGetImage, Shape
<1>8. CASE EvWaitForActivate(e) \/ EvActivationDone(e)
  BY <1>8 DEF EvWaitForActivate, EvActivationDone, Taken, Shape, States, DownloadStates
<1>9. CASE EvRequestActivate(e)
  <2>1. p' \in Members
    BY <1>9 DEF EvRequestActivate, OmciError, Shape, Members, Reasons, Phases, ImgStates
  <2>2. fsm' \in States /\ pending' \subseteq Pendings /\ reqs' \subseteq Kinds0
    BY <1>9, EventsAre DEF Pendings, EvRequestActivate, Taken, Shape, States, DownloadStates, Async, Ev, Sent, Kinds0
  <2> QED BY <1>9, <2>1, <2>2 DEF EvRequestActivate, Shape
<1>10. CASE EvCommitSw(e)
  <2>1. p' \in Members
    <3> DEFINE q == [p EXCEPT !.phase = "committing", !.img = "committing"]
    <3>1. q \in Members /\ [p EXCEPT !.cond = FALSE, !.reason = "onuState"] \in Members
      BY DEF Shape, Members, Reasons, Phases, ImgStates
    <3>2. OmciError(q) \in Members
      BY <3>1, OmciErrorEffect
    <3> QED BY <1>10, <3>1, <3>2 DEF EvCommitSw
  <2>2. fsm' \in States /\ pending' \subseteq Pendings /\ reqs' \subseteq Kinds0
    <3>1. fsm' \in States /\ reqs' \subseteq Kinds0
      BY <1>10 DEF EvCommitSw, Taken, Shape, States, DownloadStates, Sent, Kinds0
    <3>2. Async("Abort") \in Pendings
      BY EventsAre DEF Pendings, Async, Ev
    <3>3. pending' \subseteq pending \cup {Async("Abort")}
      BY <1>10 DEF EvCommitSw
    <3> QED BY <3>1, <3>2, <3>3 DEF Shape
  <2> QED BY <1>10, <2>1, <2>2 DEF EvCommitSw, Shape
<1>11. CASE EvResetting(e)
  <2>1. p' \in Members
    <3> DEFINE q == StateUpdateOnReset(p)
               r == [q EXCEPT !.abortReq = q.reason]
    <3>1. q \in Members
      BY StateUpdateEffect DEF Shape
    <3>2. r \in Members
      <4> HIDE DEF q
      <4> QED BY <3>1 DEF Members
    <3>3. p' = IF r.endOpen /\ ~r.repeat THEN [r EXCEPT !.waitCount = MaxWaitEnd] ELSE r
      BY <1>11 DEF EvResetting
    <3> HIDE DEF r
    <3> QED BY <3>2, <3>3, UpgradeAssumption DEF Members
  <2>2. fsm' \in States /\ pending' \subseteq Pendings /\ reqs' \subseteq Kinds0
    BY <1>11, EventsAre DEF Pendings, EvResetting, Taken, Shape, States, DownloadStates, Async, Ev, Sent, Kinds0
  <2> QED BY <1>11, <2>1, <2>2, OnuDlReadyEffect DEF EvResetting, Shape
<1>12. CASE EvAbortSwDownload(e)
  BY <1>12, EventsAre DEF Pendings, EvAbortSwDownload, Taken, Shape, States, DownloadStates, Routines, Onus, Async, Ev, Sent, Kinds0
<1>13. CASE EvRestart(e)
  BY <1>13 DEF EvRestart, Taken, Shape, States, DownloadStates, Routines
<1>14. CASE EvDisable(e)
  BY <1>14 DEF EvDisable, Taken, Shape, States, DownloadStates, Devs, Members
<1> QED
  BY <1>1, <1>2, <1>3, <1>4, <1>5, <1>6, <1>7, <1>8, <1>9, <1>10, <1>11, <1>12, <1>13, <1>14
     DEF Event

\* The events the goroutines and handlers add.
LEMMA EvType ==
  \A ev \in Events : /\ Async(ev) \in Pendings
                     /\ \A by \in {"rx", "async", "loop", "oper", "cancel", "sync"} :
                          Ev(ev, by) \in Pendings
BY DEF Pendings, Async, Ev

\* The counters of the records stay integers.
LEMMA CountDown ==
  ASSUME NEW q \in Members, NEW h \in Routines
  PROVE  /\ [q EXCEPT !.waitCount = @ - 1, !.repeat = TRUE] \in Members
         /\ h.abw > 0 => /\ [h EXCEPT !.abw = @ - 1] \in Routines
                         /\ [h EXCEPT !.rx = "idle", !.abw = @ - 1] \in Routines
<1>1. q.waitCount - 1 \in Int /\ (h.abw > 0 => h.abw - 1 \in Nat)
  BY DEF Members, Routines
<1>2. ASSUME NEW n \in Int PROVE [q EXCEPT !.waitCount = n, !.repeat = TRUE] \in Members
  BY DEF Members
<1>3. ASSUME NEW n \in Nat
      PROVE  [h EXCEPT !.abw = n] \in Routines /\ [h EXCEPT !.rx = "idle", !.abw = n] \in Routines
  BY DEF Routines
<1> QED BY <1>1, <1>2, <1>3

\* The steps of the goroutines keep the shape.
LEMMA RoutineShape ==
  ASSUME Shape, Routine \/ DownloadTimeout PROVE Shape'
<1> USE DEF Shape
<1>0. /\ Async("PrepareSwDownload") \in Pendings /\ Async("Abort") \in Pendings
      /\ Ev("WaitWindowAck", "loop") \in Pendings /\ Async("WaitEndDownload") \in Pendings
      /\ Async("ContinueFinalize") \in Pendings /\ Async("Restart") \in Pendings
      /\ Async("Reset") \in Pendings /\ Async("Disable") \in Pendings
  BY EventsAre, EvType
<1>1. CASE AdapterReady \/ WaitEndTimeout \/ AbortTimeout
  BY <1>0, <1>1 DEF AdapterReady, WaitEndTimeout, AbortTimeout, Routines
<1>2. CASE AdapterTimeout \/ DownloadTimeout
  <2>1. [p EXCEPT !.cond = FALSE, !.reason = "unknown"] \in Members
    BY DEF Members, Reasons
  <2>2. OmciError(p) \in Members
    BY OmciErrorEffect
  <2>3. [g EXCEPT !.adapter = "off"] \in Routines /\ [g EXCEPT !.dlTimer = "off"] \in Routines
    BY DEF Routines
  <2> QED BY <1>0, <1>2, <2>1, <2>2, <2>3 DEF AdapterTimeout, DownloadTimeout
<1>3. CASE SectionLoopAborted \/ SectionLoopWindow
  <2>1. [p EXCEPT !.reason = p.abortReq, !.phase = "downloading",
                  !.img = IF p.win = 0 THEN "downloading" ELSE @] \in Members
    BY DEF Members, Phases, ImgStates
  <2>2. [p EXCEPT !.phase = "downloading",
                  !.img = IF p.win = 0 THEN "downloading" ELSE @] \in Members
    BY DEF Members, Phases, ImgStates
  <2>3. [g EXCEPT !.loop = "off"] \in Routines
    BY DEF Routines
  <2> QED BY <1>0, <1>3, <2>1, <2>2, <2>3 DEF SectionLoopAborted, SectionLoopWindow
<1>4. CASE EndSend
  <2>0. /\ [g EXCEPT !.ender = "off"] \in Routines /\ [g EXCEPT !.ender = "sent"] \in Routines
        /\ [onu EXCEPT !.end = "sent"] \in Onus
    BY DEF Routines, Onus
  <2>1. p' \in Members /\ g' \in Routines /\ onu' \in Onus
    BY <1>4, <2>0, OmciErrorEffect DEF EndSend
  <2> QED BY <1>0, <1>4, <2>1 DEF EndSend, Sent, Kinds0
<1>5. CASE EndSent
  BY <1>0, <1>5 DEF EndSent, Routines, Members
<1>6. CASE RxHandOver
  <2>1. [p EXCEPT !.waitCount = @ - 1, !.repeat = TRUE] \in Members
    BY CountDown
  <2>2. p' \in Members /\ pending' \subseteq Pendings
    BY <1>0, <1>6, <2>1 DEF RxHandOver, AbortAnswered
  <2>3. g.abw > 0 => [g EXCEPT !.rx = "idle", !.abw = @ - 1] \in Routines
    BY CountDown
  <2> QED BY <1>6, <2>2, <2>3 DEF RxHandOver
<1>7. CASE RxOnuDlReady
  <2>1. [g EXCEPT !.rx = "idle"] \in Routines
    BY DEF Routines
  <2> QED BY <1>7, <2>1, OnuDlReadyEffect DEF RxOnuDlReady
<1>8. CASE RestartingSend
  <2>1. [kind |-> "stop", res |-> "none"] \in Messages
    BY DEF Messages, Kinds0
  <2>2. g' \in Routines
    BY <1>8 DEF RestartingSend, Routines
  <2> QED BY <1>0, <1>8, <2>1, <2>2 DEF RestartingSend
<1> QED
  BY <1>1, <1>2, <1>3, <1>4, <1>5, <1>6, <1>7, <1>8 DEF Routine

\* The steps of the message loop keep the shape.
LEMMA RxShape ==
  ASSUME Shape, Rx PROVE Shape'
<1> USE DEF Shape
<1>0. \A ev \in Events : Async(ev) \in Pendings /\ Ev(ev, "rx") \in Pendings
  BY EvType
<1>a. ASSUME NEW kind, Received(kind) PROVE rxq' \in Seq(Messages)
  BY <1>a DEF Received
<1>b. [p EXCEPT !.cond = FALSE, !.reason = "onuState"] \in Members /\ OmciError(p) \in Members
  BY OmciErrorEffect DEF Members, Reasons
<1>c. ASSUME AbortFromRx
      PROVE  p' \in Members /\ pending' \subseteq Pendings /\ g' \in Routines
  BY <1>0, <1>b, <1>c, EventsAre DEF AbortFromRx
<1>d. ASSUME NEW ev \in Events, EventFromRx(ev)
      PROVE  pending' \subseteq Pendings /\ g' \in Routines
  BY <1>0, <1>d DEF EventFromRx
<1>1. CASE RxStartSwDownloadResponse
  <2>1. p' \in Members /\ pending' \subseteq Pendings /\ g' \in Routines
    BY <1>1, <1>c, <1>d, EventsAre DEF RxStartSwDownloadResponse, Members
  <2> QED BY <1>1, <1>a, <2>1 DEF RxStartSwDownloadResponse
<1>2. CASE RxSwSectionResponse
  <2>1. p' \in Members /\ pending' \subseteq Pendings /\ g' \in Routines
    BY <1>2, <1>c, <1>d, EventsAre DEF RxSwSectionResponse, Members
  <2> QED BY <1>2, <1>a, <2>1 DEF RxSwSectionResponse
<1>3. CASE RxEndSwDownloadResponse
  <2>1. p' \in Members
    BY <1>3, <1>b DEF RxEndSwDownloadResponse, Members
  <2>2. pending' \subseteq Pendings
    BY <1>3, <1>0, EventsAre DEF RxEndSwDownloadResponse
  <2>3. g' \in Routines
    <3>1. \A k \in OnuDlReady(g) : k \in Routines
      BY OnuDlReadyEffect
    <3>2. \A x \in {"busy", "success", "abort"} : [g EXCEPT !.rx = x] \in Routines
      BY DEF Routines
    <3>3. [g EXCEPT !.waitEnd = "off"] \in Routines
      BY DEF Routines
    <3> QED BY <1>3, <3>1, <3>2, <3>3 DEF RxEndSwDownloadResponse
  <2> QED BY <1>3, <1>a, <2>1, <2>2, <2>3 DEF RxEndSwDownloadResponse
<1>4. CASE RxSwGetResponse
  <2>1. ASSUME NEW res, VerifyOnuSwStatusAfterDownload(res)
        PROVE  p' \in Members /\ pending' \subseteq Pendings /\ g' \in Routines
    <3>0. /\ [p EXCEPT !.phase = "downloaded", !.dl = "succeeded", !.img = "inactive",
                     !.verified = TRUE] \in Members
          /\ [p EXCEPT !.reason = "onuState"] \in Members
      BY DEF Members, Phases, DlStates, ImgStates, Reasons
    <3>1. p' \in Members
      BY <2>1, <3>0 DEF VerifyOnuSwStatusAfterDownload
    <3>2. pending' \subseteq Pendings
      BY <2>1, <1>0, EventsAre DEF VerifyOnuSwStatusAfterDownload, EventFromRx
    <3>3. [g EXCEPT !.rx = "ready"] \in Routines /\ \A k \in OnuDlReady(g) : k \in Routines
      BY OnuDlReadyEffect DEF Routines
    <3> QED BY <2>1, <3>1, <3>2, <3>3 DEF VerifyOnuSwStatusAfterDownload, EventFromRx
  <2>2. ASSUME NEW res, VerifyCommitted(res)
        PROVE  p' \in Members /\ pending' \subseteq Pendings /\ g' \in Routines
    <3>1. [p EXCEPT !.cond = FALSE, !.phase = "committed", !.img = "committed"] \in Members
      BY DEF Members, Phases, ImgStates
    <3> QED BY <2>2, <3>1, <1>b, <1>d, EventsAre DEF VerifyCommitted
  <2> QED BY <1>4, <1>a, <1>c, <2>1, <2>2 DEF RxSwGetResponse
<1>5. CASE RxActivateSoftwareResponse \/ RxCommitSoftwareResponse
  <2>1. p' \in Members /\ pending' \subseteq Pendings /\ g' \in Routines
    BY <1>5, <1>c, <1>d, EventsAre DEF RxActivateSoftwareResponse, RxCommitSoftwareResponse
  <2> QED BY <1>5, <1>a, <2>1 DEF RxActivateSoftwareResponse, RxCommitSoftwareResponse
<1>6. CASE RxStop
  BY <1>6, <1>a DEF RxStop, Routines
<1> QED BY <1>1, <1>2, <1>3, <1>4, <1>5, <1>6 DEF Rx

\* The parts of CancelProcessing keep the shape.
LEMMA CancelShape ==
  ASSUME Shape, Canceller PROVE Shape'
<1> USE DEF Shape
<1> PICK c \in cancel : \/ CancelCheck(c) \/ CancelSendExpected(c) \/ CancelSendAbort(c)
                        \/ (c.pc = "event" /\ CancelEvent(c))
  BY DEF Canceller
<1>0. c \in Cancels
  OBVIOUS
<1>a. \A pc \in {"check", "sendExpected", "sendAbort", "event"} : [c EXCEPT !.pc = pc] \in Cancels
  BY <1>0 DEF Cancels
<1>b. ASSUME NEW pc \in {"check", "sendExpected", "sendAbort", "event"}, CancelTo(c, pc)
      PROVE  cancel' \subseteq Cancels
  BY <1>a, <1>b DEF CancelTo
<1>c. /\ Async("Abort") \in Pendings /\ Async("Restart") \in Pendings /\ Async("Reset") \in Pendings
      /\ Ev("Abort", "cancel") \in Pendings /\ Ev("Reset", "cancel") \in Pendings
  BY EventsAre, EvType
<1>d. CASE CancelEvent(c)
  <2>1. c.reason \in Reasons
    BY <1>0 DEF Cancels
  <2>2. [p EXCEPT !.cond = FALSE, !.reason = c.reason] \in Members /\ [p EXCEPT !.cond = TRUE] \in Members
    BY <2>1 DEF Members
  <2> QED BY <1>c, <1>d, <2>2 DEF CancelEvent
<1>1. CASE CancelCheck(c)
  <2>1. CASE fsm \in {"WaitEndDL", "AbortingDL"}
    <3>1. CancelTo(c, "sendExpected") \/ CancelTo(c, "sendAbort")
      BY <1>1, <2>1 DEF CancelCheck
    <3>2. UNCHANGED <<fsm, pending, p, g, reqs, rxq, onu, dev, used>>
      BY <1>1, <2>1 DEF CancelCheck
    <3> QED BY <1>b, <3>1, <3>2
  <2> QED BY <1>1, <1>d, <2>1 DEF CancelCheck
<1>2. CASE CancelSendExpected(c)
  <2>1. OmciError(p) \in Members
    BY OmciErrorEffect
  <2>2. [OmciError(p) EXCEPT !.endOpen = FALSE] \in Members
    BY <2>1 DEF Members
  <2>3. [g EXCEPT !.waitEnd = "off"] \in Routines
    BY DEF Routines
  <2> QED BY <1>2, <1>b, <1>c, <2>2, <2>3 DEF CancelSendExpected
<1>3. CASE CancelSendAbort(c)
  <2>1. [g EXCEPT !.abw = @ - 1] \in Routines
    BY <1>3, CountDown DEF CancelSendAbort
  <2>2. p' \in Members /\ pending' \subseteq Pendings
    BY <1>3, <1>c, CountDown DEF CancelSendAbort, AbortAnswered
  <2> QED BY <1>3, <1>b, <2>1, <2>2 DEF CancelSendAbort
<1> QED BY <1>1, <1>2, <1>3, <1>d

\* The requests and indications at the device handler keep the shape.
LEMMA HandlerShape ==
  ASSUME Shape, Handler PROVE Shape'
<1> USE DEF Shape
<1>a. ASSUME NEW full \in BOOLEAN, NEW reason \in Reasons, CancelProcessing(full, reason)
      PROVE  p' \in Members /\ g' \in Routines /\ cancel' \subseteq Cancels
  <2>1. [full |-> full, reason |-> reason, pc |-> "check"] \in Cancels
    BY DEF Cancels
  <2>2. [p EXCEPT !.abortReq = reason] \in Members
    BY DEF Members
  <2>3. [g EXCEPT !.adapter = "off", !.ender = IF @ = "delay" THEN "off" ELSE @] \in Routines
    BY DEF Routines
  <2> QED BY <1>a, <2>1, <2>2, <2>3 DEF CancelProcessing
<1>b. "request" \in Reasons /\ "onuState" \in Reasons
  BY DEF Reasons
<1>1. CASE CancelOnuSwUpgrade
  <2>1. [dev EXCEPT !.canceled = TRUE] \in Devs
    BY DEF Devs
  <2> QED BY <1>1, <1>a, <1>b, <2>1 DEF CancelOnuSwUpgrade
<1>2. CASE OnuSwCommitRequest
  <2>1. [p EXCEPT !.commit = TRUE] \in Members
    BY DEF Members
  <2>2. Ev("CommitSw", "oper") \in Pendings
    BY EventsAre, EvType
  <2> QED BY <1>2, <2>1, <2>2 DEF OnuSwCommitRequest
<1>3. ASSUME NEW com \in BOOLEAN, OnuSwActivateRequest(com) PROVE Shape'
  <2>1. [p EXCEPT !.activate = TRUE, !.commit = com] \in Members
    BY DEF Members
  <2>2. Ev("RequestActivate", "oper") \in Pendings
    BY EventsAre, EvType
  <2> QED BY <1>3, <2>1, <2>2 DEF OnuSwActivateRequest
<1>4. CASE OnuDown
  <2>1. [onu EXCEPT !.up = FALSE, !.dl = "closed", !.end = "none"] \in Onus
    BY DEF Onus
  <2>2. p' \in Members /\ g' \in Routines /\ cancel' \subseteq Cancels
    BY <1>4, <1>a, <1>b DEF OnuDown
  <2> QED BY <1>4, <2>1, <2>2 DEF OnuDown
<1>5. CASE OnuUp
  <2>1. \A img \in {"old", "new"} : [onu EXCEPT !.up = TRUE, !.active = img, !.booting = FALSE] \in Onus
    BY DEF Onus
  <2>2. [dev EXCEPT !.shown = "none"] \in Devs
    BY DEF Devs
  <2>3. onu.committed \in {"old", "new"}
    BY DEF Onus
  <2>4. onu' \in Onus /\ dev' \in Devs
    BY <1>5, <2>1, <2>2, <2>3 DEF OnuUp
  <2> QED BY <1>5, <2>4 DEF OnuUp
<1>7. CASE FirstSwImageIndication
  <2>1. \A v \in {"old", "new", "none"} : [dev EXCEPT !.view = v, !.shown = "first"] \in Devs
    BY DEF Devs
  <2>2. onu.active \in {"old", "new"}
    BY DEF Onus
  <2> QED BY <1>7, <2>1, <2>2 DEF FirstSwImageIndication
<1>8. CASE SecondSwImageIndication
  <2>1. \A v \in {"old", "new"}, b \in BOOLEAN :
          [dev EXCEPT !.view = v, !.shown = "both", !.sync = TRUE, !.toCommit = b] \in Devs
    BY DEF Devs
  <2>2. onu.active \in {"old", "new"} /\ (onu.active = "new" /\ onu.committed = "old") \in BOOLEAN
    BY DEF Onus
  <2>3. dev' \in Devs
    BY <1>8, <2>1, <2>2 DEF SecondSwImageIndication
  <2> QED BY <1>8, <2>3 DEF SecondSwImageIndication
<1>6. CASE CheckOnOnuImageCommit
  <2>1. [dev EXCEPT !.sync = FALSE] \in Devs /\ [[dev EXCEPT !.sync = FALSE] EXCEPT !.canceled = TRUE] \in Devs
    BY DEF Devs
  <2>2. Ev("ActivationDone", "sync") \in Pendings /\ Ev("CommitSw", "sync") \in Pendings
    BY EventsAre, EvType
  <2>3. [p EXCEPT !.phase = "activated", !.img = "active"] \in Members
    BY DEF Members, Phases, ImgStates
  <2>4. dev' \in Devs /\ pending' \subseteq Pendings
    BY <1>6, <2>1, <2>2 DEF CheckOnOnuImageCommit
  <2>5. p' \in Members /\ g' \in Routines /\ cancel' \subseteq Cancels
    BY <1>6, <1>a, <1>b, <2>3 DEF CheckOnOnuImageCommit
  <2> QED BY <1>6, <2>4, <2>5 DEF CheckOnOnuImageCommit
<1> QED BY <1>1, <1>2, <1>3, <1>4, <1>5, <1>6, <1>7, <1>8 DEF Handler

Results == {"err", "ok", "busy", "version", "inactive", "active", "committed"}

\* What the answer a to the request r says of the ONU and changes there: only
\* StartSwDl invalidates the image, nothing withdraws a commitment, and the
\* attributes of the image are the true ones.
TrueAnswer(r, a) ==
  /\ a.onu \in Onus /\ a.res \in Results
  /\ a.onu.up = onu.up /\ a.onu.active = onu.active /\ a.onu.end = onu.end
  /\ r # "start" /\ onu.img = "valid" => a.onu.img = "valid"
  /\ onu.committed = "new" => a.onu.committed = "new"
  /\ r = "get" /\ a.res \in {"inactive", "active", "committed"} => onu.img = "valid"
  /\ r = "get" /\ a.res = "committed" => onu.committed = "new"

\* Every answer the ONU may give is a true one.
LEMMA AnswerEffect ==
  ASSUME Shape, NEW r \in Kinds0, NEW a \in Answers(r)
  PROVE  TrueAnswer(r, a)
<1>0. onu \in Onus
  BY DEF Shape
<1>a. [onu EXCEPT !.dl = "open", !.img = "invalid"] \in Onus
  BY <1>0 DEF Onus
<1>b. [onu EXCEPT !.dl = "closed"] \in Onus /\ [onu EXCEPT !.dl = "closed", !.img = "valid"] \in Onus
  BY <1>0 DEF Onus
<1>c. [onu EXCEPT !.booting = TRUE] \in Onus /\ [onu EXCEPT !.committed = "new"] \in Onus
  BY <1>0 DEF Onus
<1>d. [onu EXCEPT !.committed = onu.committed] = onu
  BY <1>0 DEF Onus
<1>1. CASE a = [res |-> "err", onu |-> onu]
  BY <1>1, <1>0 DEF TrueAnswer, Results
<1>2. CASE r = "start" /\ a # [res |-> "err", onu |-> onu]
  <2>1. a = [res |-> "ok", onu |-> [onu EXCEPT !.dl = "open", !.img = "invalid"]]
    BY <1>2 DEF Answers
  <2> QED BY <2>1, <1>2, <1>a, <1>0 DEF TrueAnswer, Results, Onus
<1>3. CASE r = "window" /\ a # [res |-> "err", onu |-> onu]
  <2>1. a = [res |-> "ok", onu |-> onu]
    BY <1>3 DEF Answers
  <2> QED BY <2>1, <1>3, <1>0 DEF TrueAnswer, Results
<1>4. CASE r = "end" /\ a # [res |-> "err", onu |-> onu]
  <2>1. \/ a = [res |-> "busy", onu |-> onu]
        \/ a = [res |-> "err", onu |-> [onu EXCEPT !.dl = "closed"]]
        \/ a = [res |-> "ok", onu |-> [onu EXCEPT !.dl = "closed", !.img = "valid"]]
    BY <1>4 DEF Answers
  <2>2. CASE a = [res |-> "busy", onu |-> onu]
    BY <2>2, <1>4, <1>0 DEF TrueAnswer, Results
  <2>3. CASE a = [res |-> "err", onu |-> [onu EXCEPT !.dl = "closed"]]
    BY <2>3, <1>4, <1>b, <1>0 DEF TrueAnswer, Results, Onus
  <2>4. CASE a = [res |-> "ok", onu |-> [onu EXCEPT !.dl = "closed", !.img = "valid"]]
    <3>1. PICK o : o = [onu EXCEPT !.dl = "closed", !.img = "valid"]
      OBVIOUS
    <3>2. o.up = onu.up /\ o.active = onu.active /\ o.end = onu.end /\ o.img = "valid"
          /\ o.committed = onu.committed
      BY <3>1, <1>0 DEF Onus
    <3>3. a.onu = o /\ a.res = "ok" /\ o \in Onus
      BY <2>4, <3>1, <1>b
    <3> QED BY <1>4, <3>2, <3>3 DEF TrueAnswer, Results
  <2> QED BY <2>1, <2>2, <2>3, <2>4
<1>5. CASE r = "abort" /\ a # [res |-> "err", onu |-> onu]
  <2>1. \/ a = [res |-> "busy", onu |-> onu]
        \/ a = [res |-> "ok", onu |-> [onu EXCEPT !.dl = "closed"]]
    BY <1>5 DEF Answers
  <2> QED BY <2>1, <1>5, <1>b, <1>0 DEF TrueAnswer, Results, Onus
<1>6. CASE r = "get" /\ a # [res |-> "err", onu |-> onu]
  <2>1. a.onu = onu /\ a.res \in Shown
    BY <1>6 DEF Answers
  <2> QED BY <2>1, <1>6, <1>0 DEF TrueAnswer, Results, Onus, Shown
<1>7. CASE r = "activate" /\ a # [res |-> "err", onu |-> onu]
  <2>1. a = [res |-> "ok", onu |-> [onu EXCEPT !.booting = TRUE]]
    BY <1>7 DEF Answers
  <2> QED BY <2>1, <1>7, <1>c, <1>0 DEF TrueAnswer, Results, Onus
<1>8. CASE r = "commit" /\ a # [res |-> "err", onu |-> onu]
  <2>1. \/ a = [res |-> "ok", onu |-> [onu EXCEPT !.committed = onu.committed]]
        \/ a = [res |-> "ok", onu |-> [onu EXCEPT !.committed = "new"]]
    BY <1>8 DEF Answers
  <2> QED BY <2>1, <1>8, <1>c, <1>d, <1>0 DEF TrueAnswer, Results, Onus
<1> QED BY <1>1, <1>2, <1>3, <1>4, <1>5, <1>6, <1>7, <1>8 DEF Kinds0

\* An answer of the ONU keeps the shape.
LEMMA AnswerShape ==
  ASSUME Shape, NEW r \in reqs, OnuAnswer(r) PROVE Shape'
<1>1. r \in Kinds0
  BY DEF Shape
<1> PICK a \in Answers(r) : onu' = a.onu /\ rxq' = Append(rxq, [kind |-> r, res |-> a.res])
  BY DEF OnuAnswer
<1>2. a.onu \in Onus /\ a.res \in Results
  BY <1>1, AnswerEffect DEF TrueAnswer
<1>3. [kind |-> r, res |-> a.res] \in Messages
  BY <1>1, <1>2 DEF Messages, Results
<1> QED BY <1>2, <1>3 DEF OnuAnswer, Shape

\* The initial states have the shape.
LEMMA InitShape == Init => Shape
<1> SUFFICES ASSUME Init PROVE Shape OBVIOUS
<1> PICK mode \in {"download", "activate", "commit"}, act \in BOOLEAN, com \in BOOLEAN :
    Init!(mode, act, com)
  BY DEF Init
<1>1. fsm \in States /\ reqs \subseteq Kinds0 /\ cancel \subseteq Cancels /\ rxq \in Seq(Messages)
  BY DEF States, DownloadStates
<1>2. pending \subseteq Pendings
  BY EventsAre, EvType
<1>3. p \in Members
  BY UpgradeAssumption DEF Members, Phases, DlStates, ImgStates, Reasons
<1>4. g \in Routines
  BY DEF Routines
<1>5. onu \in Onus
  BY DEF Onus
<1>6. dev \in Devs
  BY DEF Devs, NoStates, DlStates, ImgStates, Reasons
<1> QED BY <1>1, <1>2, <1>3, <1>4, <1>5, <1>6 DEF Shape

\* Every step keeps the shape.
LEMMA ShapeStep == Shape /\ [Next]_vars => Shape'
<1> SUFFICES ASSUME Shape, [Next]_vars PROVE Shape' OBVIOUS
<1>1. CASE Next
  BY <1>1, EventShape, RoutineShape, RxShape, CancelShape, HandlerShape, AnswerShape DEF Next
<1>2. CASE UNCHANGED vars
  BY <1>2 DEF vars, Shape
<1> QED BY <1>1, <1>2

\* The records, the events, the requests and the answers are what they are
\* meant to be, in every reachable state.
THEOREM ShapeHolds == Spec => []Shape
<1>1. Init => Shape
  BY InitShape
<1>2. Shape /\ [Next]_vars => Shape'
  BY ShapeStep
<1> QED BY <1>1, <1>2, PTL DEF Spec

-----------------------------------------------------------------------------
(***************************************************************************)
(* What the steps outside of the FSM change.                               *)
(***************************************************************************)
\* The events a step adds are among evs.
Adds(evs) == \A e \in pending' : e \in pending \/ e.ev \in evs

\* What Adds says of events made by Ev and Async.
LEMMA EvOf == \A ev, by : Ev(ev, by).ev = ev /\ Async(ev).ev = ev
BY DEF Ev, Async

\* The goroutines of the FSM other than those that wait for the answer to
\* the abort.
LEMMA RoutineEffect ==
  ASSUME Shape, (Routine /\ ~AbortTimeout /\ ~RxHandOver) \/ DownloadTimeout
  PROVE  /\ fsm' = fsm /\ dev' = dev /\ pending \subseteq pending'
         /\ Adds({"PrepareSwDownload", "Abort", "WaitWindowAck", "ContinueFinalize", "Disable",
                  "WaitEndDownload"})
         /\ ~EndSent => Adds({"PrepareSwDownload", "Abort", "WaitWindowAck", "ContinueFinalize",
                              "Disable"})
         /\ reqs' \subseteq reqs \cup {"end"} /\ (~onu.up => reqs' = reqs)
         /\ rxq' = rxq \/ rxq' = Append(rxq, [kind |-> "stop", res |-> "none"])
         /\ p'.dl = p.dl /\ p'.img \in {p.img, "downloading"}
         /\ p'.verified = p.verified
         /\ ~EndSent => p'.endOpen = p.endOpen
         /\ g'.abw = g.abw /\ g'.waitEnd \in {g.waitEnd, "off"}
         /\ g'.ender \in {g.ender, "off"} \/ (g.ender # "off" /\ onu'.end = "sent")
         /\ onu'.end \in {onu.end, "sent"} /\ onu'.img = onu.img
         /\ onu'.committed = onu.committed /\ onu'.up = onu.up /\ onu'.active = onu.active
<1>1. fsm' = fsm /\ dev' = dev /\ pending \subseteq pending' /\ reqs' \subseteq reqs \cup {"end"}
      /\ (~onu.up => reqs' = reqs)
      /\ (rxq' = rxq \/ rxq' = Append(rxq, [kind |-> "stop", res |-> "none"]))
  BY DEF Routine, AdapterReady, AdapterTimeout, SectionLoopAborted, SectionLoopWindow,
     EndSend, EndSent, WaitEndTimeout, RxOnuDlReady, RestartingSend, DownloadTimeout, Sent
<1>2. Adds({"PrepareSwDownload", "Abort", "WaitWindowAck", "ContinueFinalize", "Disable"})
      \/ (EndSent /\ Adds({"WaitEndDownload"}))
  BY EvOf DEF Routine, AdapterReady, AdapterTimeout, SectionLoopAborted, SectionLoopWindow,
     EndSend, EndSent, WaitEndTimeout, RxOnuDlReady, RestartingSend, DownloadTimeout, Adds
<1>3. /\ p'.dl = p.dl /\ p'.img \in {p.img, "downloading"} /\ p'.verified = p.verified
      /\ ~EndSent => p'.endOpen = p.endOpen
  <2>1. CASE p' = OmciError(p)
    BY <2>1, OmciErrorEffect DEF Shape
  <2>2. \/ p' = p \/ p' = [p EXCEPT !.cond = FALSE, !.reason = "unknown"] \/ p' = OmciError(p)
        \/ p' = [p EXCEPT !.reason = p.abortReq, !.phase = "downloading",
                          !.img = IF p.win = 0 THEN "downloading" ELSE @]
        \/ p' = [p EXCEPT !.phase = "downloading", !.img = IF p.win = 0 THEN "downloading" ELSE @]
        \/ (EndSent /\ p' = [p EXCEPT !.endOpen = FALSE])
    BY DEF Routine, AdapterReady, AdapterTimeout, SectionLoopAborted, SectionLoopWindow,
       EndSend, EndSent, WaitEndTimeout, RxOnuDlReady, RestartingSend, DownloadTimeout
  <2> QED BY <2>1, <2>2 DEF Shape, Members
<1>4. onu'.end \in {onu.end, "sent"} /\ onu'.img = onu.img
      /\ onu'.committed = onu.committed /\ onu'.up = onu.up /\ onu'.active = onu.active
  <2>1. onu' = onu \/ onu' = [onu EXCEPT !.end = "sent"]
    BY DEF Routine, AdapterReady, AdapterTimeout, SectionLoopAborted, SectionLoopWindow,
       EndSend, EndSent, WaitEndTimeout, RxOnuDlReady, RestartingSend, DownloadTimeout
  <2> QED BY <2>1 DEF Shape, Onus
<1>5. /\ g'.abw = g.abw /\ g'.waitEnd \in {g.waitEnd, "off"}
      /\ g'.ender \in {g.ender, "off"} \/ (g.ender # "off" /\ onu'.end = "sent")
  <2>1. CASE RxOnuDlReady
    <3>1. /\ [g EXCEPT !.rx = "idle"] \in Routines /\ [g EXCEPT !.rx = "idle"].abw = g.abw
          /\ [g EXCEPT !.rx = "idle"].waitEnd = g.waitEnd /\ [g EXCEPT !.rx = "idle"].ender = g.ender
      BY DEF Shape, Routines
    <3> QED BY <2>1, <3>1, OnuDlReadyEffect DEF RxOnuDlReady
  <2>2. CASE EndSend
    BY <2>2 DEF EndSend, Shape, Routines, Onus
  <2> QED BY <2>1, <2>2 DEF Routine, AdapterReady, AdapterTimeout, SectionLoopAborted,
       SectionLoopWindow, EndSent, WaitEndTimeout, RestartingSend, DownloadTimeout, Shape, Routines
<1>6. Adds({"PrepareSwDownload", "Abort", "WaitWindowAck", "ContinueFinalize", "Disable",
            "WaitEndDownload"})
  BY <1>2 DEF Adds
<1>7. ~EndSent => Adds({"PrepareSwDownload", "Abort", "WaitWindowAck", "ContinueFinalize", "Disable"})
  BY <1>2
<1> QED BY <1>1, <1>3, <1>4, <1>5, <1>6, <1>7

\* The routines that wait for the answer to the abort.
LEMMA AbortEffect ==
  ASSUME Shape, \/ AbortTimeout \/ RxHandOver \/ \E c \in cancel : CancelSendAbort(c)
  PROVE  /\ fsm' = fsm /\ dev' = dev /\ onu' = onu /\ reqs' = reqs /\ rxq' = rxq
         /\ g.abw > 0 /\ g'.ender = g.ender /\ g'.waitEnd = g.waitEnd
         /\ \/ pending' = pending \cup {Async("Restart")}
            \/ pending' = pending \cup {Async("Reset")}
         /\ p'.endOpen = p.endOpen /\ p'.dl = p.dl /\ p'.img = p.img /\ p'.verified = p.verified
<1>1. /\ fsm' = fsm /\ dev' = dev /\ onu' = onu /\ reqs' = reqs /\ rxq' = rxq /\ g.abw > 0
      /\ \/ pending' = pending \cup {Async("Restart")}
         \/ pending' = pending \cup {Async("Reset")}
  BY DEF AbortTimeout, RxHandOver, CancelSendAbort, AbortAnswered
<1>2. g' = [g EXCEPT !.abw = @ - 1] \/ g' = [g EXCEPT !.rx = "idle", !.abw = @ - 1]
  BY DEF AbortTimeout, RxHandOver, CancelSendAbort
<1>3. g'.ender = g.ender /\ g'.waitEnd = g.waitEnd
  BY <1>2 DEF Shape, Routines
<1>4. p' = p \/ p' = [p EXCEPT !.waitCount = @ - 1, !.repeat = TRUE]
  BY DEF AbortTimeout, RxHandOver, CancelSendAbort, AbortAnswered
<1>5. p'.endOpen = p.endOpen /\ p'.dl = p.dl /\ p'.img = p.img /\ p'.verified = p.verified
  BY <1>4 DEF Shape, Members
<1> QED BY <1>1, <1>3, <1>5

\* The message loop.
LEMMA RxEffect ==
  ASSUME Shape, Rx
  PROVE  /\ fsm' = fsm /\ dev' = dev /\ onu' = onu /\ reqs' = reqs /\ pending \subseteq pending'
         /\ rxq # <<>> /\ rxq' = Tail(rxq)
         /\ \E evs \in SUBSET Events :
              /\ Adds(evs) /\ evs \cap {"Restart", "WaitEndDownload"} = {}
              /\ "RxStartSwDownload" \in evs => Head(rxq).kind = "start"
              /\ evs \cap {"RequestActivate", "WaitForActivate"} # {} =>
                   Head(rxq).kind = "get" /\ Head(rxq).res = "inactive" /\ p'.verified
         /\ p.verified => p'.verified
         /\ p'.dl # p.dl => Head(rxq).kind = "get" /\ Head(rxq).res = "inactive"
         /\ p'.img = "committed" /\ p.img # "committed" =>
              Head(rxq).kind = "get" /\ Head(rxq).res = "committed"
         /\ p'.endOpen = p.endOpen \/ g.waitEnd = "on"
         /\ g'.abw = g.abw /\ g'.ender = g.ender /\ g'.waitEnd \in {g.waitEnd, "off"}
<1>1. /\ fsm' = fsm /\ dev' = dev /\ onu' = onu /\ reqs' = reqs /\ pending \subseteq pending'
      /\ rxq # <<>> /\ rxq' = Tail(rxq)
  BY DEF Rx, RxStartSwDownloadResponse, RxSwSectionResponse, RxEndSwDownloadResponse,
     RxSwGetResponse, RxActivateSoftwareResponse, RxCommitSoftwareResponse, RxStop,
     AbortFromRx, EventFromRx, VerifyOnuSwStatusAfterDownload, VerifyCommitted, Received
<1>2. g' = g \/ g' \in OnuDlReady(g) \/ g' = [g EXCEPT !.waitEnd = "off"]
      \/ \E x : g' = [g EXCEPT !.rx = x]
  BY DEF Rx, RxStartSwDownloadResponse, RxSwSectionResponse, RxEndSwDownloadResponse,
     RxSwGetResponse, RxActivateSoftwareResponse, RxCommitSoftwareResponse, RxStop,
     AbortFromRx, EventFromRx, VerifyOnuSwStatusAfterDownload, VerifyCommitted
<1>3. g'.abw = g.abw /\ g'.ender = g.ender /\ g'.waitEnd \in {g.waitEnd, "off"}
  <2>1. CASE g' \in OnuDlReady(g)
    BY <2>1, OnuDlReadyEffect DEF Shape
  <2> QED BY <1>2, <2>1 DEF Shape, Routines
<1>4. CASE RxStartSwDownloadResponse
  <2>1. Adds({"RxStartSwDownload", "Abort"}) /\ Head(rxq).kind = "start"
    BY <1>4, EvOf DEF RxStartSwDownloadResponse, Received, EventFromRx, AbortFromRx, Adds
  <2>2. p' = OmciError(p) \/ p' = [p EXCEPT !.win = 0]
    BY <1>4 DEF RxStartSwDownloadResponse, AbortFromRx
  <2>3. p'.dl = p.dl /\ p'.verified = p.verified /\ p'.img = p.img /\ p'.endOpen = p.endOpen
    <3>1. CASE p' = OmciError(p)
      BY <3>1, OmciErrorEffect DEF Shape
    <3>2. CASE p' = [p EXCEPT !.win = 0]
      BY <3>2 DEF Shape, Members
    <3> QED BY <2>2, <3>1, <3>2
  <2> QED BY <1>1, <1>3, <2>1, <2>3, EventsAre
<1>5. CASE RxSwSectionResponse
  <2>1. Adds({"EndSwDownload", "ContinueNextWindow", "Abort"})
    BY <1>5, EvOf DEF RxSwSectionResponse, EventFromRx, AbortFromRx, Adds
  <2>2. p' = OmciError(p) \/ p' = p \/ p' = [p EXCEPT !.win = @ + 1]
    BY <1>5 DEF RxSwSectionResponse, AbortFromRx
  <2>3. p'.dl = p.dl /\ p'.verified = p.verified /\ p'.img = p.img /\ p'.endOpen = p.endOpen
    BY <2>2 DEF Shape, Members, OmciError
  <2> QED BY <1>1, <1>3, <2>1, <2>3, EventsAre
<1>6. CASE RxEndSwDownloadResponse
  <2>1. Adds({"CheckImageName", "Abort"})
    BY <1>6, EvOf DEF RxEndSwDownloadResponse, Adds
  <2>2. \/ p' = p \/ p' = [p EXCEPT !.cond = FALSE, !.reason = "onuState"]
        \/ (g.waitEnd = "on" /\ p' = [p EXCEPT !.endOpen = FALSE])
    BY <1>6 DEF RxEndSwDownloadResponse
  <2>3. p'.dl = p.dl /\ p'.verified = p.verified /\ p'.img = p.img /\ (p'.endOpen = p.endOpen \/ g.waitEnd = "on")
    BY <2>2 DEF Shape, Members
  <2> QED BY <1>1, <1>3, <2>1, <2>3, EventsAre
<1>7. CASE RxSwGetResponse
  <2>0. Head(rxq).kind = "get"
    BY <1>7 DEF RxSwGetResponse, Received
  <2>1. CASE AbortFromRx
    <3>1. Adds({"Abort"})
      BY <2>1, EvOf DEF AbortFromRx, Adds
    <3>2. p'.dl = p.dl /\ p'.verified = p.verified /\ p'.img = p.img /\ p'.endOpen = p.endOpen
      BY <2>1, OmciErrorEffect DEF AbortFromRx, Shape
    <3> QED BY <1>1, <1>3, <3>1, <3>2, EventsAre
  <2>2. CASE VerifyOnuSwStatusAfterDownload(Result)
    <3>1. CASE Result = "inactive"
      <4>1. Adds({"RequestActivate", "WaitForActivate"})
        BY <2>2, <3>1, EvOf DEF VerifyOnuSwStatusAfterDownload, Adds
      <4>2. p'.verified /\ p'.img # "committed" /\ p'.endOpen = p.endOpen
        BY <2>2, <3>1 DEF VerifyOnuSwStatusAfterDownload, Shape, Members
      <4> QED BY <1>1, <1>3, <2>0, <3>1, <4>1, <4>2, EventsAre DEF Result
    <3>2. CASE Result # "inactive"
      <4>1. Adds({"Abort"})
        BY <2>2, <3>2, EvOf DEF VerifyOnuSwStatusAfterDownload, EventFromRx, Adds
      <4>2. p'.dl = p.dl /\ p'.verified = p.verified /\ p'.img = p.img /\ p'.endOpen = p.endOpen
        BY <2>2, <3>2 DEF VerifyOnuSwStatusAfterDownload, Shape, Members
      <4> QED BY <1>1, <1>3, <4>1, <4>2, EventsAre
    <3> QED BY <3>1, <3>2
  <2>3. CASE VerifyCommitted(Result)
    <3>1. Adds({"Abort"})
      BY <2>3, EvOf DEF VerifyCommitted, EventFromRx, Adds
    <3>2. p'.dl = p.dl /\ p'.verified = p.verified /\ p'.endOpen = p.endOpen /\ (p'.img = p.img \/ Result = "committed")
      BY <2>3 DEF VerifyCommitted, Shape, Members
    <3> QED BY <1>1, <1>3, <2>0, <3>1, <3>2, EventsAre DEF Result
  <2> QED BY <1>7, <2>1, <2>2, <2>3 DEF RxSwGetResponse
<1>8. CASE RxActivateSoftwareResponse \/ RxCommitSoftwareResponse \/ RxStop
  <2>1. Adds({"WaitForCommit", "ActivationDone", "CheckCommitted", "Abort"})
    BY <1>8, EvOf DEF RxActivateSoftwareResponse, RxCommitSoftwareResponse, RxStop, EventFromRx,
       AbortFromRx, Adds
  <2>2. p' = OmciError(p) \/ p' = p
    BY <1>8 DEF RxActivateSoftwareResponse, RxCommitSoftwareResponse, RxStop, AbortFromRx
  <2>3. p'.dl = p.dl /\ p'.verified = p.verified /\ p'.img = p.img /\ p'.endOpen = p.endOpen
    BY <2>2, OmciErrorEffect DEF Shape
  <2> QED BY <1>1, <1>3, <2>1, <2>3, EventsAre
<1> QED BY <1>4, <1>5, <1>6, <1>7, <1>8 DEF Rx

\* The goroutines of CancelProcessing.
LEMMA CancelEffect ==
  ASSUME Shape, Canceller, \A c \in cancel : ~CancelSendAbort(c)
  PROVE  /\ fsm' = fsm /\ dev' = dev /\ onu' = onu /\ reqs' = reqs /\ rxq' = rxq
         /\ pending \subseteq pending' /\ Adds({"Abort", "Reset"})
         /\ p'.dl = p.dl /\ p'.verified = p.verified /\ p'.img = p.img /\ (p'.endOpen = p.endOpen \/ g.waitEnd = "on")
         /\ g'.abw = g.abw /\ g'.ender = g.ender /\ g'.waitEnd \in {g.waitEnd, "off"}
<1>1. /\ fsm' = fsm /\ dev' = dev /\ onu' = onu /\ reqs' = reqs /\ rxq' = rxq
      /\ pending \subseteq pending' /\ (g' = g \/ g' = [g EXCEPT !.waitEnd = "off"])
  BY DEF Canceller, CancelCheck, CancelEvent, CancelSendExpected
<1>2. Adds({"Abort", "Reset"})
  BY EvOf DEF Canceller, CancelCheck, CancelEvent, CancelSendExpected, Adds
<1>3. \/ p' = p \/ (\E r : p' = [p EXCEPT !.cond = FALSE, !.reason = r])
      \/ p' = [p EXCEPT !.cond = TRUE]
      \/ (g.waitEnd = "on" /\ p' = [OmciError(p) EXCEPT !.endOpen = FALSE])
  BY DEF Canceller, CancelCheck, CancelEvent, CancelSendExpected
<1>4. p'.dl = p.dl /\ p'.verified = p.verified /\ p'.img = p.img /\ (p'.endOpen = p.endOpen \/ g.waitEnd = "on")
  <2>1. CASE p' = [OmciError(p) EXCEPT !.endOpen = FALSE]
    <3>1. /\ OmciError(p) \in Members /\ OmciError(p).dl = p.dl /\ OmciError(p).img = p.img
          /\ OmciError(p).verified = p.verified
      BY OmciErrorEffect DEF Shape
    <3>2. p'.dl = OmciError(p).dl /\ p'.verified = OmciError(p).verified /\ p'.img = OmciError(p).img /\ p'.endOpen = FALSE
      BY <2>1, <3>1 DEF Members
    <3>3. p.endOpen \in BOOLEAN
      BY DEF Shape, Members
    <3> QED BY <1>3, <3>1, <3>2, <3>3 DEF Shape, Members
  <2> QED BY <1>3, <2>1 DEF Shape, Members
<1>5. g'.abw = g.abw /\ g'.ender = g.ender /\ g'.waitEnd \in {g.waitEnd, "off"}
  BY <1>1 DEF Shape, Routines
<1> QED BY <1>1, <1>2, <1>4, <1>5

\* The requests and indications at the device handler.
LEMMA HandlerEffect ==
  ASSUME Shape, Handler
  PROVE  /\ fsm' = fsm /\ rxq' = rxq /\ reqs' \in {reqs, {}}
         /\ pending \subseteq pending'
         /\ Adds({"CommitSw", "ActivationDone", "RequestActivate"})
         /\ fsm # "WaitForActivate" => Adds({"CommitSw", "ActivationDone"})
         /\ p'.dl = p.dl /\ p'.img \in {p.img, "active"} /\ p'.endOpen = p.endOpen
         /\ p'.verified = p.verified
         /\ g'.abw = g.abw /\ g'.ender \in {g.ender, "off"} /\ g'.waitEnd = g.waitEnd
         /\ onu'.end \in {onu.end, "none"} /\ onu'.img = onu.img /\ onu'.committed = onu.committed
         /\ dev'.last = dev.last
<1>1. fsm' = fsm /\ rxq' = rxq /\ reqs' \in {reqs, {}} /\ pending \subseteq pending'
  BY DEF Handler, CancelOnuSwUpgrade, OnuSwCommitRequest, OnuSwActivateRequest, OnuDown, OnuUp,
     FirstSwImageIndication, SecondSwImageIndication, CheckOnOnuImageCommit
<1>2. Adds({"CommitSw", "ActivationDone"})
      \/ (fsm = "WaitForActivate" /\ Adds({"RequestActivate"}))
  <2>1. CASE OnuSwCommitRequest
    BY <2>1, EvOf DEF OnuSwCommitRequest, Adds
  <2>2. CASE \E com \in BOOLEAN : OnuSwActivateRequest(com)
    BY <2>2, EvOf DEF OnuSwActivateRequest, Adds
  <2>3. CASE CheckOnOnuImageCommit
    <3>1. \/ pending' = pending \/ pending' = pending \cup {Ev("ActivationDone", "sync")}
          \/ pending' = pending \cup {Ev("CommitSw", "sync")}
      BY <2>3 DEF CheckOnOnuImageCommit
    <3> QED BY <3>1, EvOf DEF Adds
  <2>4. CASE CancelOnuSwUpgrade \/ OnuDown \/ OnuUp \/ FirstSwImageIndication \/ SecondSwImageIndication
    BY <2>4 DEF CancelOnuSwUpgrade, OnuDown, OnuUp, FirstSwImageIndication, SecondSwImageIndication, Adds
  <2> QED BY <2>1, <2>2, <2>3, <2>4 DEF Handler
<1>3. g' = g \/ g' = [g EXCEPT !.adapter = "off", !.ender = IF @ = "delay" THEN "off" ELSE @]
  BY DEF Handler, CancelOnuSwUpgrade, OnuSwCommitRequest, OnuSwActivateRequest, OnuDown, OnuUp,
     FirstSwImageIndication, SecondSwImageIndication, CheckOnOnuImageCommit, CancelProcessing
<1>4. g'.abw = g.abw /\ g'.ender \in {g.ender, "off"} /\ g'.waitEnd = g.waitEnd
  BY <1>3 DEF Shape, Routines
<1>5. \/ p' = p \/ (\E x : p' = [p EXCEPT !.abortReq = x])
      \/ (\E x : p' = [p EXCEPT !.activate = TRUE, !.commit = x])
      \/ p' = [p EXCEPT !.commit = TRUE] \/ p' = [p EXCEPT !.phase = "activated", !.img = "active"]
  BY DEF Handler, CancelOnuSwUpgrade, OnuSwCommitRequest, OnuSwActivateRequest, OnuDown, OnuUp,
     FirstSwImageIndication, SecondSwImageIndication, CheckOnOnuImageCommit, CancelProcessing
<1>6. /\ p'.dl = p.dl /\ p'.img \in {p.img, "active"} /\ p'.endOpen = p.endOpen
      /\ p'.verified = p.verified
  BY <1>5 DEF Shape, Members
<1>7. \/ onu' = onu \/ onu' = [onu EXCEPT !.up = FALSE, !.dl = "closed", !.end = "none"]
      \/ (\E x : onu' = [onu EXCEPT !.up = TRUE, !.active = x, !.booting = FALSE])
  BY DEF Handler, CancelOnuSwUpgrade, OnuSwCommitRequest, OnuSwActivateRequest, OnuDown, OnuUp,
     FirstSwImageIndication, SecondSwImageIndication, CheckOnOnuImageCommit
<1>8. onu'.end \in {onu.end, "none"} /\ onu'.img = onu.img /\ onu'.committed = onu.committed
  BY <1>7 DEF Shape, Onus
<1>9. \/ dev' = dev \/ dev' = [dev EXCEPT !.canceled = TRUE] \/ dev' = [dev EXCEPT !.sync = FALSE]
      \/ dev' = [[dev EXCEPT !.sync = FALSE] EXCEPT !.canceled = TRUE]
      \/ dev' = [dev EXCEPT !.shown = "none"]
      \/ (\E x : dev' = [dev EXCEPT !.view = x, !.shown = "first"])
      \/ (\E x, y : dev' = [dev EXCEPT !.view = x, !.shown = "both", !.sync = TRUE, !.toCommit = y])
  <2>1. CASE FirstSwImageIndication
    <3>1. PICK v : dev' = [dev EXCEPT !.view = v, !.shown = "first"]
      BY <2>1 DEF FirstSwImageIndication
    <3> QED BY <3>1
  <2>2. CASE SecondSwImageIndication
    <3>1. PICK v, b : dev' = [dev EXCEPT !.view = v, !.shown = "both", !.sync = TRUE, !.toCommit = b]
      BY <2>2 DEF SecondSwImageIndication
    <3> QED BY <3>1
  <2>3. CASE CheckOnOnuImageCommit
    BY <2>3 DEF CheckOnOnuImageCommit
  <2> QED BY <2>1, <2>2, <2>3 DEF Handler, CancelOnuSwUpgrade, OnuSwCommitRequest,
       OnuSwActivateRequest, OnuDown, OnuUp
<1>10. dev'.last = dev.last
  <2>1. CASE \/ \E x, y : dev' = [dev EXCEPT !.view = x, !.shown = "both", !.sync = TRUE, !.toCommit = y]
             \/ \E x : dev' = [dev EXCEPT !.view = x, !.shown = "first"]
    BY <2>1 DEF Shape, Devs
  <2>2. CASE dev' = [[dev EXCEPT !.sync = FALSE] EXCEPT !.canceled = TRUE]
    BY <2>2 DEF Shape, Devs
  <2> QED BY <1>9, <2>1, <2>2 DEF Shape, Devs
<1>11. Adds({"CommitSw", "ActivationDone", "RequestActivate"})
  BY <1>2 DEF Adds
<1>12. fsm # "WaitForActivate" => Adds({"CommitSw", "ActivationDone"})
  BY <1>2
<1> QED BY <1>1, <1>4, <1>6, <1>8, <1>10, <1>11, <1>12

-----------------------------------------------------------------------------
(***************************************************************************)
(* A reset goes on.  ResetGoesOn is inductive.  An event that is enabled   *)
(* is never rejected, so a step takes away what keeps the reset alive only *)
(* by entering a state or by ending a routine, and then leaves a new event *)
(* behind.                                                                 *)
(***************************************************************************)
\* A step that leaves the state of the FSM, the events and the routines that
\* wait for the abort's answer alone, or adds events, keeps a reset going.
LEMMA GoesOnKept ==
  ASSUME ResetGoesOn, fsm' = fsm, pending \subseteq pending', g'.abw = g.abw
  PROVE  ResetGoesOn'
BY DEF ResetGoesOn

\* An event that is taken or rejected keeps a reset going.
LEMMA GoesOnEvent ==
  ASSUME Shape, ResetGoesOn, NEW e \in pending, Event(e) PROVE ResetGoesOn'
<1>0. e.ev \in Events
  BY DEF Shape, Pendings
<1>1. CASE Rejected(e)
  <2>1. fsm' = fsm /\ g' = g /\ pending' = pending \ {e} /\ fsm \notin Src[e.ev]
    BY <1>1 DEF Rejected
  <2> QED BY <2>1 DEF ResetGoesOn
<1>2. CASE EvResetting(e)
  <2>1. fsm' = "Resetting" /\ Async(IF p.endOpen THEN "AbortSwDownload" ELSE "Restart") \in pending'
    BY <1>2 DEF EvResetting, Taken
  <2>2. \A ev : Async(ev).ev = ev
    BY DEF Async, Ev
  <2>3. "Resetting" \in Src["AbortSwDownload"] /\ "Resetting" \in Src["Restart"]
    BY SrcOf
  <2> QED BY <2>1, <2>2, <2>3 DEF ResetGoesOn
<1>3. CASE EvAbortSwDownload(e)
  <2>1. fsm' = "AbortingDL" /\ (g'.abw > 0 \/ Async("Restart") \in pending')
    BY <1>3 DEF EvAbortSwDownload, Taken, Shape, Routines
  <2>2. Async("Restart").ev = "Restart"
    BY DEF Async, Ev
  <2>3. "AbortingDL" \in Src["Restart"]
    BY SrcOf
  <2> QED BY <2>1, <2>2, <2>3 DEF ResetGoesOn
<1>4. ASSUME ~Rejected(e), ~EvResetting(e), ~EvAbortSwDownload(e)
      PROVE  fsm' \notin {"Resetting", "AbortingDL"}
  BY <1>4 DEF Event, EvPrepareSwDownload, EvDownloadSection, EvWaitWindowAck, EvFinalizeDL,
     EvWaitEndDownload, EvGetImage, EvWaitForActivate, EvRequestActivate, EvActivationDone,
     EvCommitSw, EvRestart, EvDisable, Taken
<1> QED BY <1>1, <1>2, <1>3, <1>4 DEF ResetGoesOn

\* A routine that received the answer to the abort, or waited for it in vain,
\* leaves an event behind.
LEMMA GoesOnAnswered ==
  ASSUME ResetGoesOn, fsm' = fsm,
         pending' = pending \cup {Async("Restart")} \/ pending' = pending \cup {Async("Reset")}
  PROVE  ResetGoesOn'
<1>1. Async("Restart").ev = "Restart" /\ Async("Reset").ev = "Reset"
  BY DEF Async, Ev
<1>2. "AbortingDL" \in Src["Restart"] /\ "AbortingDL" \in Src["Reset"]
  BY DEF Src
<1> QED BY <1>1, <1>2 DEF ResetGoesOn

\* An upgrade that is being reset is never left alone: some event that its
\* state takes is on its way, or some routine ends with one, for every number
\* of repetitions and disturbances.
THEOREM ResetNeverStops == Spec => []ResetGoesOn
<1>1. Init => ResetGoesOn
  BY DEF Init, ResetGoesOn
<1>2. Shape /\ ResetGoesOn /\ [Next]_vars => ResetGoesOn'
  <2> SUFFICES ASSUME Shape, ResetGoesOn, [Next]_vars PROVE ResetGoesOn' OBVIOUS
  <2>1. CASE \E e \in pending : Event(e)
    BY <2>1, GoesOnEvent
  <2>2. CASE AbortTimeout \/ RxHandOver \/ \E c \in cancel : CancelSendAbort(c)
    BY <2>2, AbortEffect, GoesOnAnswered
  <2>3. CASE (Routine /\ ~AbortTimeout /\ ~RxHandOver) \/ DownloadTimeout
    BY <2>3, RoutineEffect, GoesOnKept
  <2>4. CASE Rx
    BY <2>4, RxEffect, GoesOnKept
  <2>5. ASSUME Canceller, \A c \in cancel : ~CancelSendAbort(c) PROVE ResetGoesOn'
    BY <2>5, CancelEffect, GoesOnKept
  <2>6. CASE Handler
    BY <2>6, HandlerEffect, GoesOnKept
  <2>7. ASSUME NEW r \in reqs, OnuAnswer(r) PROVE ResetGoesOn'
    BY <2>7, GoesOnKept DEF OnuAnswer
  <2>8. CASE UNCHANGED vars
    BY <2>8 DEF vars, ResetGoesOn
  <2> QED BY <2>1, <2>2, <2>3, <2>4, <2>5, <2>6, <2>7, <2>8 DEF Next, Routine
<1> QED BY <1>1, <1>2, ShapeHolds, PTL DEF Spec

-----------------------------------------------------------------------------
(***************************************************************************)
(* An open download is ended.  EndIsTried is not inductive: Restart leads   *)
(* from Resetting to Restarting as well, and what sends it are            *)
(* enterResetting without an open download and the routines that wait for  *)
(* the answer to the abort.  While StartSwDl was sent and no EndSwDl yet,  *)
(* isEndSwDlOpen is set, and neither these routines nor their events nor   *)
(* those that end the download (which clear isEndSwDlOpen) exist.  Before  *)
(* StartSwDl they do not exist either.                                     *)
(***************************************************************************)
NoEnd ==
  /\ g.ender # "sent" /\ g.waitEnd = "off" /\ g.abw = 0
  /\ \A e \in pending : e.ev \notin {"Restart", "WaitEndDownload"}

EndInv ==
  /\ fsm = "WaitingAdapterDL" => NoEnd /\ g.ender = "off"
  /\ onu.end = "due" => /\ NoEnd /\ p.endOpen
                        /\ fsm \notin {"WaitingAdapterDL", "AbortingDL", "Restarting", "Disabled"}

\* Once the end of the download has been tried and the file was waited for,
\* nothing is left to show.
LEMMA EndPast ==
  ASSUME onu'.end # "due", fsm' # "WaitingAdapterDL" PROVE EndInv'
BY DEF EndInv

\* A step that adds no event that restarts or waits for the end, and starts
\* no routine that does, keeps EndInv.
LEMMA EndKept ==
  ASSUME EndInv, fsm' = fsm \/ fsm' \notin {"WaitingAdapterDL", "AbortingDL", "Restarting", "Disabled"},
         Adds(Events \ {"Restart", "WaitEndDownload"}), p'.endOpen = p.endOpen,
         g'.ender \in {g.ender, "off"}, g'.waitEnd \in {g.waitEnd, "off"}, g'.abw = g.abw,
         onu'.end \in {onu.end, "none", "sent"}
  PROVE  EndInv'
BY DEF EndInv, NoEnd, Adds

\* The events of the FSM keep EndInv.
LEMMA EndEvent ==
  ASSUME Shape, EndInv, NEW e \in pending, Event(e) PROVE EndInv'
<1>0. \A evs : evs \subseteq Events \ {"Restart", "WaitEndDownload"} /\ Adds(evs) =>
        Adds(Events \ {"Restart", "WaitEndDownload"})
  BY DEF Adds
<1>1. CASE Rejected(e)
  <2>1. Adds({}) /\ fsm' = fsm /\ p' = p /\ g' = g /\ onu' = onu
    BY <1>1 DEF Rejected, Adds
  <2> QED BY <2>1, <1>0, EndKept
<1>2. CASE EvPrepareSwDownload(e)
  <2>1. fsm = "WaitingAdapterDL" /\ fsm' = "PreparingDL"
    BY <1>2, SrcOf DEF EvPrepareSwDownload, Taken
  <2>2. NoEnd /\ onu.end # "due"
    BY <2>1 DEF EndInv
  <2>3. onu' = onu \/ (onu' = [onu EXCEPT !.end = "due"] /\ p' = [p EXCEPT !.endOpen = TRUE])
    BY <1>2 DEF EvPrepareSwDownload
  <2>4. onu'.end = "due" => p'.endOpen
    BY <2>2, <2>3 DEF Shape, Members
  <2>5. g' = g \/ g' = [g EXCEPT !.dlTimer = "on"]
    BY <1>2 DEF EvPrepareSwDownload
  <2>6. g'.ender = g.ender /\ g'.waitEnd = g.waitEnd /\ g'.abw = g.abw
    BY <2>5 DEF Shape, Routines
  <2>7. Adds({"Abort"})
    BY <1>2, EvOf DEF EvPrepareSwDownload, Adds
  <2>8. NoEnd'
    BY <2>2, <2>6, <2>7 DEF NoEnd, Adds
  <2> QED BY <2>1, <2>4, <2>8 DEF EndInv
<1>3. CASE EvFinalizeDL(e)
  <2>1. fsm' = "FinalizeDL" /\ p' = p /\ onu' = onu /\ Adds({})
    BY <1>3 DEF EvFinalizeDL, Taken, Adds
  <2>2. g'.ender # "sent" /\ g'.waitEnd = g.waitEnd /\ g'.abw = g.abw
    BY <1>3 DEF EvFinalizeDL, Shape, Routines
  <2> QED BY <2>1, <2>2 DEF EndInv, NoEnd, Adds
<1>4. CASE EvWaitEndDownload(e)
  <2>1. e.ev = "WaitEndDownload" /\ fsm' = "WaitEndDL" /\ onu' = onu
    BY <1>4 DEF EvWaitEndDownload, Taken
  <2> QED BY <2>1, EndPast DEF EndInv, NoEnd
<1>5. CASE EvResetting(e)
  <2>1. fsm' = "Resetting" /\ onu' = onu /\ g' \in OnuDlReady(g)
    BY <1>5 DEF EvResetting, Taken
  <2>2. CASE ~p.endOpen
    BY <2>1, <2>2, EndPast DEF EndInv
  <2>3. CASE p.endOpen
    <3>1. Adds({"AbortSwDownload"})
      BY <1>5, <2>3, EvOf DEF EvResetting, Adds
    <3>2. p'.endOpen = p.endOpen
      <4> DEFINE q == StateUpdateOnReset(p)
                 r == [q EXCEPT !.abortReq = q.reason]
      <4>1. q \in Members /\ q.endOpen = p.endOpen
        BY StateUpdateEffect DEF Shape
      <4>2. r \in Members /\ r.endOpen = p.endOpen
        <5> HIDE DEF q
        <5> QED BY <4>1 DEF Members
      <4>3. p' = IF r.endOpen /\ ~r.repeat THEN [r EXCEPT !.waitCount = MaxWaitEnd] ELSE r
        BY <1>5 DEF EvResetting
      <4> HIDE DEF r
      <4> QED BY <4>2, <4>3 DEF Members
    <3>3. g'.ender = g.ender /\ g'.waitEnd = g.waitEnd /\ g'.abw = g.abw
      BY <2>1, OnuDlReadyEffect DEF Shape
    <3> QED BY <2>1, <3>1, <3>2, <3>3, <1>0, EventsAre, EndKept
  <2> QED BY <2>2, <2>3
<1>6. CASE EvAbortSwDownload(e)
  <2>1. fsm' = "AbortingDL" /\ onu'.end # "due"
    BY <1>6 DEF EvAbortSwDownload, Taken, Shape, Onus
  <2> QED BY <2>1, EndPast
<1>7. CASE EvRestart(e)
  <2>1. e.ev = "Restart" /\ fsm' = "Restarting" /\ onu' = onu
    BY <1>7 DEF EvRestart, Taken
  <2> QED BY <2>1, EndPast DEF EndInv, NoEnd
<1>8. CASE EvDisable(e)
  <2>1. fsm = "Restarting" /\ fsm' = "Disabled" /\ onu' = onu
    BY <1>8 DEF EvDisable, Taken, Src
  <2> QED BY <2>1, EndPast DEF EndInv
<1>9. CASE EvDownloadSection(e) \/ EvWaitWindowAck(e) \/ EvGetImage(e) \/ EvWaitForActivate(e)
           \/ EvRequestActivate(e) \/ EvActivationDone(e) \/ EvCommitSw(e)
  <2>1. fsm' \notin {"WaitingAdapterDL", "AbortingDL", "Restarting", "Disabled"} /\ onu' = onu
    BY <1>9 DEF EvDownloadSection, EvWaitWindowAck, EvGetImage, EvWaitForActivate,
       EvRequestActivate, EvActivationDone, EvCommitSw, Taken
  <2>2. Adds({"Abort"})
    BY <1>9, EvOf DEF EvDownloadSection, EvWaitWindowAck, EvGetImage, EvWaitForActivate,
       EvRequestActivate, EvActivationDone, EvCommitSw, Adds
  <2>3. g' = g \/ g' = [g EXCEPT !.loop = "run"]
    BY <1>9 DEF EvDownloadSection, EvWaitWindowAck, EvGetImage, EvWaitForActivate,
       EvRequestActivate, EvActivationDone, EvCommitSw
  <2>4. g'.ender = g.ender /\ g'.waitEnd = g.waitEnd /\ g'.abw = g.abw
    BY <2>3 DEF Shape, Routines
  <2>5. \/ p' = p \/ p' = OmciError(p) \/ p' = [p EXCEPT !.phase = "activating", !.img = "activating"]
        \/ p' = OmciError([p EXCEPT !.phase = "committing", !.img = "committing"])
        \/ p' = [p EXCEPT !.phase = "committing", !.img = "committing"]
        \/ p' = [p EXCEPT !.cond = FALSE, !.reason = "onuState"]
    BY <1>9 DEF EvDownloadSection, EvWaitWindowAck, EvGetImage, EvWaitForActivate,
       EvRequestActivate, EvActivationDone, EvCommitSw
  <2>6. p'.endOpen = p.endOpen
    BY <2>5 DEF Shape, Members, OmciError
  <2> QED BY <2>1, <2>2, <2>4, <2>6, <1>0, EventsAre, EndKept
<1> QED BY <1>1, <1>2, <1>3, <1>4, <1>5, <1>6, <1>7, <1>8, <1>9 DEF Event

\* Every step keeps EndInv.
LEMMA EndStep == Shape /\ EndInv /\ [Next]_vars => EndInv'
<1> SUFFICES ASSUME Shape, EndInv, [Next]_vars PROVE EndInv' OBVIOUS
<1>0. \A evs : evs \subseteq Events \ {"Restart", "WaitEndDownload"} /\ Adds(evs) =>
        Adds(Events \ {"Restart", "WaitEndDownload"})
  BY DEF Adds
<1>a. ASSUME g.waitEnd = "on" \/ g.abw > 0 \/ g.ender = "sent", fsm' = fsm, onu'.end \in {onu.end, "sent"}
      PROVE  EndInv'
  <2>1. onu.end # "due" /\ fsm # "WaitingAdapterDL"
    BY <1>a DEF EndInv, NoEnd
  <2> QED BY <1>a, <2>1, EndPast
<1>1. CASE \E e \in pending : Event(e)
  BY <1>1, EndEvent
<1>2. CASE AbortTimeout \/ RxHandOver \/ \E c \in cancel : CancelSendAbort(c)
  BY <1>2, <1>a, AbortEffect
<1>3. CASE (Routine /\ ~AbortTimeout /\ ~RxHandOver) \/ DownloadTimeout
  <2>1. CASE EndSent
    <3>1. g.ender = "sent"
      BY <2>1 DEF EndSent
    <3>2. fsm' = fsm /\ onu'.end \in {onu.end, "sent"}
      BY <1>3, RoutineEffect
    <3> QED BY <3>1, <3>2, <1>a
  <2>2. CASE ~EndSent /\ g'.ender \in {g.ender, "off"}
    <3>1. Adds({"PrepareSwDownload", "Abort", "WaitWindowAck", "ContinueFinalize", "Disable"})
      BY <1>3, <2>2, RoutineEffect
    <3>2. Adds(Events \ {"Restart", "WaitEndDownload"})
      BY <3>1, <1>0, EventsAre
    <3>3. /\ fsm' = fsm /\ p'.endOpen = p.endOpen /\ g'.abw = g.abw
          /\ g'.waitEnd \in {g.waitEnd, "off"} /\ onu'.end \in {onu.end, "none", "sent"}
      BY <1>3, <2>2, RoutineEffect
    <3> QED BY <2>2, <3>2, <3>3, EndKept
  <2>3. CASE g.ender # "off" /\ onu'.end = "sent"
    <3>1. fsm' = fsm
      BY <1>3, RoutineEffect
    <3> QED BY <2>3, <3>1, EndPast DEF EndInv
  <2> QED BY <1>3, <2>1, <2>2, <2>3, RoutineEffect
<1>4. CASE Rx
  <2>1. CASE g.waitEnd = "on"
    BY <1>4, <2>1, <1>a, RxEffect
  <2>2. CASE g.waitEnd # "on"
    <3>1. PICK evs \in SUBSET Events : Adds(evs) /\ evs \cap {"Restart", "WaitEndDownload"} = {}
      BY <1>4, RxEffect
    <3>2. Adds(Events \ {"Restart", "WaitEndDownload"})
      BY <3>1 DEF Adds
    <3>3. /\ fsm' = fsm /\ onu' = onu /\ p'.endOpen = p.endOpen /\ g'.abw = g.abw /\ g'.ender = g.ender
          /\ g'.waitEnd \in {g.waitEnd, "off"}
      BY <1>4, <2>2, RxEffect
    <3> QED BY <3>2, <3>3, EndKept
  <2> QED BY <2>1, <2>2
<1>5. ASSUME Canceller, \A c \in cancel : ~CancelSendAbort(c) PROVE EndInv'
  <2>1. CASE g.waitEnd = "on"
    BY <1>5, <2>1, <1>a, CancelEffect
  <2>2. CASE g.waitEnd # "on"
    <3>1. Adds({"Abort", "Reset"})
      BY <1>5, CancelEffect
    <3>2. Adds(Events \ {"Restart", "WaitEndDownload"})
      BY <3>1, <1>0, EventsAre
    <3>3. /\ fsm' = fsm /\ onu' = onu /\ p'.endOpen = p.endOpen /\ g'.abw = g.abw /\ g'.ender = g.ender
          /\ g'.waitEnd \in {g.waitEnd, "off"}
      BY <1>5, <2>2, CancelEffect
    <3> QED BY <3>2, <3>3, EndKept
  <2> QED BY <2>1, <2>2
<1>6. CASE Handler
  <2>1. Adds({"CommitSw", "ActivationDone", "RequestActivate"})
    BY <1>6, HandlerEffect
  <2>2. Adds(Events \ {"Restart", "WaitEndDownload"})
    BY <2>1, <1>0, EventsAre
  <2>3. /\ fsm' = fsm /\ p'.endOpen = p.endOpen /\ g'.abw = g.abw /\ g'.ender \in {g.ender, "off"}
        /\ g'.waitEnd = g.waitEnd /\ onu'.end \in {onu.end, "none"}
    BY <1>6, HandlerEffect
  <2> QED BY <2>2, <2>3, EndKept
<1>7. ASSUME NEW r \in reqs, OnuAnswer(r) PROVE EndInv'
  <2>1. PICK a \in Answers(r) : onu' = a.onu
    BY <1>7 DEF OnuAnswer
  <2>2. onu'.end = onu.end
    BY <2>1, AnswerEffect DEF TrueAnswer, Shape
  <2>3. fsm' = fsm /\ pending' = pending /\ p' = p /\ g' = g
    BY <1>7 DEF OnuAnswer
  <2> QED BY <2>2, <2>3 DEF EndInv, NoEnd
<1>8. CASE UNCHANGED vars
  BY <1>8 DEF vars, EndInv, NoEnd
<1> QED BY <1>1, <1>2, <1>3, <1>4, <1>5, <1>6, <1>7, <1>8 DEF Next, Routine

\* An upgrade whose StartSwDl was sent does not reach Restarting before
\* EndSwDl was sent, the sending of the abort failed or the ONU rebooted,
\* however often it is cancelled, delayed or refused.
THEOREM OpenDownloadIsEnded == Spec => []EndIsTried
<1>1. Init => EndInv
  BY DEF Init, EndInv, NoEnd, Ev
<1>2. Shape /\ EndInv /\ [Next]_vars => EndInv'
  BY EndStep
<1>3. EndInv => EndIsTried
  BY DEF EndInv, EndIsTried
<1> QED BY <1>1, <1>2, <1>3, ShapeHolds, PTL DEF Spec

-----------------------------------------------------------------------------
(***************************************************************************)
(* What the ONU is told and what is remembered of it.                      *)
(***************************************************************************)
\* The states of the FSM while StartSwDl is on its way.
StartStates == {"PreparingDL", "Resetting", "AbortingDL", "Restarting", "Disabled"}

\* What an event of the FSM asks the ONU for, and on which condition.
Asks(e, rs) ==
  /\ reqs' = IF onu.up THEN reqs \cup rs ELSE reqs
  /\ "commit" \in rs => dev.view = "new"
  /\ "start" \in rs => fsm = "WaitingAdapterDL" /\ fsm' = "PreparingDL"
  /\ "get" \in rs => fsm \in {"WaitEndDL", "CommitSw"} /\ fsm' # "WaitingAdapterDL"
  /\ "activate" \in rs => e.ev = "RequestActivate"

\* The events of the FSM do not touch the answers, and change of the ONU and
\* of the device handler only what a request needs and the last states.
LEMMA EventEffect ==
  ASSUME Shape, NEW e \in pending, Event(e)
  PROVE  /\ rxq' = rxq /\ Adds({"Abort", "AbortSwDownload", "Restart"})
         /\ \E rs \in SUBSET Kinds0 : Asks(e, rs)
         /\ onu'.up = onu.up /\ onu'.active = onu.active /\ onu'.img = onu.img
         /\ onu'.committed = onu.committed
         /\ dev'.view = dev.view /\ dev'.shown = dev.shown /\ p'.verified = p.verified
         /\ dev'.last = dev.last \/ (dev'.last.dl = p.dl /\ dev'.last.img = p.img)
         /\ p'.dl = "succeeded" => p.dl = "succeeded"
         /\ p'.img = "committed" => p.img = "committed"
         /\ fsm' = fsm \/ fsm' # "WaitingAdapterDL"
         /\ fsm \in StartStates => fsm' \in StartStates \/ e.ev = "RxStartSwDownload"
         /\ fsm' = "WaitForActivate" => fsm = "WaitForActivate" \/ e.ev = "WaitForActivate"
<1>1. rxq' = rxq
  BY DEF Event, Rejected, EvPrepareSwDownload, EvDownloadSection, EvWaitWindowAck, EvFinalizeDL,
     EvWaitEndDownload, EvGetImage, EvWaitForActivate, EvRequestActivate, EvActivationDone,
     EvCommitSw, EvResetting, EvAbortSwDownload, EvRestart, EvDisable
<1>2. pending' \subseteq pending \cup {Async("Abort"), Async("AbortSwDownload"), Async("Restart")}
  BY DEF Event, Rejected, EvPrepareSwDownload, EvDownloadSection, EvWaitWindowAck, EvFinalizeDL,
     EvWaitEndDownload, EvGetImage, EvWaitForActivate, EvRequestActivate, EvActivationDone,
     EvCommitSw, EvResetting, EvAbortSwDownload, EvRestart, EvDisable
<1>3. Adds({"Abort", "AbortSwDownload", "Restart"})
  BY <1>2, EvOf DEF Adds
<1>4. \E rs \in SUBSET Kinds0 : Asks(e, rs)
  <2>1. CASE reqs' = reqs
    <3>1. Asks(e, {})
      BY <2>1 DEF Asks
    <3> QED BY <3>1
  <2>2. CASE Rejected(e) \/ EvWaitWindowAck(e)
    <3>1. reqs' = reqs \/ Asks(e, {"window"})
      BY <2>2 DEF Rejected, EvWaitWindowAck, Sent, Asks
    <3> QED BY <2>1, <3>1 DEF Kinds0
  <2>3. CASE EvPrepareSwDownload(e)
    <3>1. reqs' = reqs \/ Asks(e, {"start"})
      BY <2>3, SrcOf DEF EvPrepareSwDownload, Taken, Sent, Asks
    <3> QED BY <2>1, <3>1 DEF Kinds0
  <2>4. CASE EvGetImage(e)
    <3>1. fsm \in {"WaitEndDL", "CommitSw"} /\ fsm' # "WaitingAdapterDL"
      BY <2>4 DEF EvGetImage, Taken, Src
    <3>2. reqs' = reqs \/ Asks(e, {"get"})
      BY <2>4, <3>1 DEF EvGetImage, Sent, Asks
    <3> QED BY <2>1, <3>2 DEF Kinds0
  <2>5. CASE EvRequestActivate(e)
    <3>1. reqs' = reqs \/ Asks(e, {"activate"})
      BY <2>5 DEF EvRequestActivate, Taken, Sent, Asks
    <3> QED BY <2>1, <3>1 DEF Kinds0
  <2>6. CASE EvCommitSw(e)
    <3>1. reqs' = reqs \/ Asks(e, {"commit"})
      BY <2>6 DEF EvCommitSw, Sent, Asks
    <3> QED BY <2>1, <3>1 DEF Kinds0
  <2>7. CASE EvAbortSwDownload(e)
    <3>1. reqs' = reqs \/ Asks(e, {"abort"})
      BY <2>7 DEF EvAbortSwDownload, Sent, Asks
    <3> QED BY <2>1, <3>1 DEF Kinds0
  <2>8. CASE EvDownloadSection(e) \/ EvFinalizeDL(e) \/ EvWaitEndDownload(e)
             \/ EvWaitForActivate(e) \/ EvActivationDone(e) \/ EvResetting(e) \/ EvRestart(e)
             \/ EvDisable(e)
    BY <2>1, <2>8 DEF EvDownloadSection, EvFinalizeDL, EvWaitEndDownload, EvWaitForActivate,
       EvActivationDone, EvResetting, EvRestart, EvDisable
  <2> QED BY <2>2, <2>3, <2>4, <2>5, <2>6, <2>7, <2>8 DEF Event
<1>5. /\ onu'.up = onu.up /\ onu'.active = onu.active /\ onu'.img = onu.img
      /\ onu'.committed = onu.committed
  <2>1. onu' = onu \/ \E x : onu' = [onu EXCEPT !.end = x]
    BY DEF Event, Rejected, EvPrepareSwDownload, EvDownloadSection, EvWaitWindowAck, EvFinalizeDL,
       EvWaitEndDownload, EvGetImage, EvWaitForActivate, EvRequestActivate, EvActivationDone,
       EvCommitSw, EvResetting, EvAbortSwDownload, EvRestart, EvDisable
  <2> QED BY <2>1 DEF Shape, Onus
<1>6. /\ dev'.view = dev.view /\ dev'.shown = dev.shown
      /\ dev'.last = dev.last \/ (dev'.last.dl = p.dl /\ dev'.last.img = p.img)
  <2>1. CASE EvDisable(e)
    BY <2>1 DEF EvDisable, Shape, Devs
  <2>2. CASE ~EvDisable(e)
    <3>1. dev' = dev
      BY <2>2 DEF Event, Rejected, EvPrepareSwDownload, EvDownloadSection, EvWaitWindowAck,
         EvFinalizeDL, EvWaitEndDownload, EvGetImage, EvWaitForActivate, EvRequestActivate,
         EvActivationDone, EvCommitSw, EvResetting, EvAbortSwDownload, EvRestart
    <3> QED BY <3>1
  <2> QED BY <2>1, <2>2
<1>7. /\ (p'.dl = "succeeded" => p.dl = "succeeded") /\ (p'.img = "committed" => p.img = "committed")
      /\ p'.verified = p.verified
  <2>1. CASE EvResetting(e)
    <3> DEFINE q == StateUpdateOnReset(p)
               r == [q EXCEPT !.abortReq = q.reason]
    <3>1. /\ q \in Members /\ (q.img = "committed" => p.img = "committed")
          /\ (q.dl = "succeeded" => p.dl = "succeeded") /\ q.verified = p.verified
      BY StateUpdateEffect DEF Shape
    <3>2. r \in Members /\ r.img = q.img /\ r.dl = q.dl /\ r.verified = q.verified
      <4> HIDE DEF q
      <4> QED BY <3>1 DEF Members
    <3>3. p' = IF r.endOpen /\ ~r.repeat THEN [r EXCEPT !.waitCount = MaxWaitEnd] ELSE r
      BY <2>1 DEF EvResetting
    <3>4. p'.img = r.img /\ p'.dl = r.dl /\ p'.verified = r.verified
      <4> HIDE DEF r
      <4> QED BY <3>2, <3>3 DEF Members
    <3> QED BY <3>1, <3>2, <3>4
  <2>2. CASE EvCommitSw(e)
    <3>1. [p EXCEPT !.phase = "committing", !.img = "committing"] \in Members
      BY DEF Shape, Members, Phases, ImgStates
    <3>2. \/ p' = OmciError([p EXCEPT !.phase = "committing", !.img = "committing"])
          \/ p' = [p EXCEPT !.phase = "committing", !.img = "committing"]
          \/ p' = [p EXCEPT !.cond = FALSE, !.reason = "onuState"]
      BY <2>2 DEF EvCommitSw
    <3> QED BY <3>2 DEF OmciError, Shape, Members
  <2>3. CASE ~EvResetting(e) /\ ~EvCommitSw(e)
    <3>1. \/ p' = p \/ p' = OmciError(p) \/ (\E x : p' = [p EXCEPT !.reason = x])
          \/ p' = [p EXCEPT !.endOpen = TRUE] \/ p' = [p EXCEPT !.waitCount = @ - 1]
          \/ p' = [p EXCEPT !.phase = "activating", !.img = "activating"]
      BY <2>3 DEF Event, Rejected, EvPrepareSwDownload, EvDownloadSection, EvWaitWindowAck,
         EvFinalizeDL, EvWaitEndDownload, EvGetImage, EvWaitForActivate, EvRequestActivate,
         EvActivationDone, EvAbortSwDownload, EvRestart, EvDisable
    <3> QED BY <3>1 DEF OmciError, Shape, Members
  <2> QED BY <2>1, <2>2, <2>3
<1>8. /\ fsm' = fsm \/ fsm' # "WaitingAdapterDL"
      /\ fsm \in StartStates => fsm' \in StartStates \/ e.ev = "RxStartSwDownload"
      /\ fsm' = "WaitForActivate" => fsm = "WaitForActivate" \/ e.ev = "WaitForActivate"
  <2>1. CASE Rejected(e)
    BY <2>1 DEF Rejected
  <2>2. CASE ~Rejected(e)
    <3>1. fsm \in Src[e.ev] /\ fsm' # "WaitingAdapterDL"
      BY <2>2 DEF Event, EvPrepareSwDownload, EvDownloadSection, EvWaitWindowAck, EvFinalizeDL,
         EvWaitEndDownload, EvGetImage, EvWaitForActivate, EvRequestActivate, EvActivationDone,
         EvCommitSw, EvResetting, EvAbortSwDownload, EvRestart, EvDisable, Taken
    <3>2. fsm' = "WaitForActivate" => e.ev = "WaitForActivate"
      BY <2>2 DEF Event, EvPrepareSwDownload, EvDownloadSection, EvWaitWindowAck, EvFinalizeDL,
         EvWaitEndDownload, EvGetImage, EvWaitForActivate, EvRequestActivate, EvActivationDone,
         EvCommitSw, EvResetting, EvAbortSwDownload, EvRestart, EvDisable, Taken
    <3>3. \A ev \in Events : StartStates \cap Src[ev] # {} =>
            ev \in {"RxStartSwDownload", "Reset", "Abort", "AbortSwDownload", "Restart", "Disable"}
      BY EventsAre DEF Src, StartStates, DownloadStates
    <3>4. e.ev \in {"Reset", "Abort", "AbortSwDownload", "Restart", "Disable"} => fsm' \in StartStates
      BY <2>2 DEF Event, EvPrepareSwDownload, EvDownloadSection, EvWaitWindowAck, EvFinalizeDL,
         EvWaitEndDownload, EvGetImage, EvWaitForActivate, EvRequestActivate, EvActivationDone,
         EvCommitSw, EvResetting, EvAbortSwDownload, EvRestart, EvDisable, Taken, StartStates
    <3>5. e.ev \in Events
      BY DEF Shape, Pendings
    <3> QED BY <3>1, <3>2, <3>3, <3>4, <3>5
  <2> QED BY <2>1, <2>2
<1> QED BY <1>1, <1>3, <1>4, <1>5, <1>6, <1>7, <1>8

(***************************************************************************)
(* The ONU is told to commit only what it runs.  From the first indication *)
(* of its images on the adapter's view is the active image, or none, since *)
(* the ONU changes it only by a restart, and a commit request comes only   *)
(* from an event of the FSM that looked at this view.                      *)
(***************************************************************************)
ViewInv == dev.shown # "none" => dev.view \in {onu.active, "none"}

\* Every step keeps ViewInv.
LEMMA ViewStep == Shape /\ ViewInv /\ [Next]_vars => ViewInv'
<1> SUFFICES ASSUME Shape, ViewInv, [Next]_vars PROVE ViewInv' OBVIOUS
<1>1. ASSUME NEW e \in pending, Event(e) PROVE ViewInv'
  <2>1. onu'.active = onu.active /\ dev'.view = dev.view /\ dev'.shown = dev.shown
    BY <1>1, EventEffect
  <2> QED BY <2>1 DEF ViewInv
<1>2. CASE AbortTimeout \/ RxHandOver \/ \E c \in cancel : CancelSendAbort(c)
  BY <1>2, AbortEffect DEF ViewInv
<1>3. CASE (Routine /\ ~AbortTimeout /\ ~RxHandOver) \/ DownloadTimeout
  BY <1>3, RoutineEffect DEF ViewInv
<1>4. CASE Rx
  BY <1>4, RxEffect DEF ViewInv
<1>5. ASSUME Canceller, \A c \in cancel : ~CancelSendAbort(c) PROVE ViewInv'
  BY <1>5, CancelEffect DEF ViewInv
<1>6. CASE OnuDown
  <2>1. dev' = dev /\ onu'.active = onu.active
    BY <1>6 DEF OnuDown, Shape, Onus
  <2> QED BY <2>1 DEF ViewInv
<1>7. CASE OnuUp
  <2>1. dev'.shown = "none"
    BY <1>7 DEF OnuUp, Shape, Devs
  <2> QED BY <2>1 DEF ViewInv
<1>8. CASE FirstSwImageIndication \/ SecondSwImageIndication
  <2>1. onu' = onu
    BY <1>8 DEF FirstSwImageIndication, SecondSwImageIndication
  <2>2. dev'.view \in {onu.active, "none"}
    BY <1>8 DEF FirstSwImageIndication, SecondSwImageIndication, Shape, Devs
  <2> QED BY <2>1, <2>2 DEF ViewInv
<1>9. CASE CancelOnuSwUpgrade \/ OnuSwCommitRequest \/ (\E com \in BOOLEAN : OnuSwActivateRequest(com))
           \/ CheckOnOnuImageCommit
  <2>1. onu' = onu
    BY <1>9 DEF CancelOnuSwUpgrade, OnuSwCommitRequest, OnuSwActivateRequest, CheckOnOnuImageCommit
  <2>2. \/ dev' = dev \/ dev' = [dev EXCEPT !.canceled = TRUE] \/ dev' = [dev EXCEPT !.sync = FALSE]
        \/ dev' = [[dev EXCEPT !.sync = FALSE] EXCEPT !.canceled = TRUE]
    BY <1>9 DEF CancelOnuSwUpgrade, OnuSwCommitRequest, OnuSwActivateRequest, CheckOnOnuImageCommit
  <2>3. dev'.view = dev.view /\ dev'.shown = dev.shown
    BY <2>2 DEF Shape, Devs
  <2> QED BY <2>1, <2>3 DEF ViewInv
<1>10. ASSUME NEW r \in reqs, OnuAnswer(r) PROVE ViewInv'
  <2>1. PICK a \in Answers(r) : onu' = a.onu
    BY <1>10 DEF OnuAnswer
  <2>2. onu'.active = onu.active
    BY <2>1, AnswerEffect DEF TrueAnswer, Shape
  <2>3. dev' = dev
    BY <1>10 DEF OnuAnswer
  <2> QED BY <2>2, <2>3 DEF ViewInv
<1>11. CASE UNCHANGED vars
  BY <1>11 DEF vars, ViewInv
<1> QED BY <1>1, <1>2, <1>3, <1>4, <1>5, <1>6, <1>7, <1>8, <1>9, <1>10, <1>11 DEF Next, Routine, Handler

\* A step that adds a commit request is an event of the FSM, which saw the new
\* image as the active one.
LEMMA CommitStep ==
  ASSUME Shape, [Next]_vars, "commit" \in reqs', "commit" \notin reqs
  PROVE  dev.view = "new"
<1>1. ASSUME NEW e \in pending, Event(e) PROVE dev.view = "new"
  <2>1. PICK rs \in SUBSET Kinds0 : Asks(e, rs)
    BY <1>1, EventEffect
  <2> QED BY <2>1 DEF Asks
<1>2. CASE AbortTimeout \/ RxHandOver \/ \E c \in cancel : CancelSendAbort(c)
  BY <1>2, AbortEffect
<1>3. CASE (Routine /\ ~AbortTimeout /\ ~RxHandOver) \/ DownloadTimeout
  <2>1. reqs' \subseteq reqs \cup {"end"}
    BY <1>3, RoutineEffect
  <2> QED BY <2>1
<1>4. CASE Rx
  BY <1>4, RxEffect
<1>5. ASSUME Canceller, \A c \in cancel : ~CancelSendAbort(c) PROVE dev.view = "new"
  BY <1>5, CancelEffect
<1>6. CASE Handler
  BY <1>6, HandlerEffect
<1>7. ASSUME NEW r \in reqs, OnuAnswer(r) PROVE dev.view = "new"
  BY <1>7 DEF OnuAnswer
<1>8. CASE UNCHANGED vars
  BY <1>8 DEF vars
<1> QED BY <1>1, <1>2, <1>3, <1>4, <1>5, <1>6, <1>7, <1>8 DEF Next, Routine

\* A commit request is sent only to an ONU that runs the new image, whenever
\* and how often it restarts and falls back, unless it has not shown any of
\* its images since the restart.
THEOREM OnlyRunningIsCommitted == Spec => CommitRunning
<1>1. Init => ViewInv
  BY DEF Init, ViewInv
<1>2. Shape /\ ViewInv /\ [Next]_vars => ViewInv'
  BY ViewStep
<1>3. Shape /\ ViewInv /\ [Next]_vars =>
        [("commit" \in reqs' /\ "commit" \notin reqs) =>
           onu.active = "new" \/ dev.shown = "none"]_vars
  BY CommitStep DEF ViewInv
<1> QED BY <1>1, <1>2, <1>3, ShapeHolds, PTL DEF Spec, CommitRunning

(***************************************************************************)
(* The ONU is told to activate only a valid image.  Once an image is valid *)
(* and no StartSwDl is on its way, it stays valid (HasImage), since        *)
(* StartSwDl is sent only from the first state and never again.  An answer *)
(* that shows the image, the events that follow from it, the state that    *)
(* waits for the activation and the request itself all come after that.    *)
(* For this no answer to StartSwDl may be left when it is sent, and none   *)
(* may have come while it is on its way.                                   *)
(***************************************************************************)
Queue == {rxq[i] : i \in 1 .. Len(rxq)}

HasImage == fsm # "WaitingAdapterDL" /\ "start" \notin reqs /\ onu.img = "valid"

StartUnheard ==
  /\ \A m \in Queue : m.kind # "start"
  /\ \A e \in pending : e.ev # "RxStartSwDownload"

\* An answer shows the image that was loaded.
ImageShown == \E m \in Queue : m.kind = "get" /\ m.res = "inactive"

\* An answer shows the image as committed.
CommitShown == \E m \in Queue : m.kind = "get" /\ m.res = "committed"

Activating == \E e \in pending : e.ev \in {"RequestActivate", "WaitForActivate"}

ImageInv ==
  /\ fsm = "WaitingAdapterDL" => "start" \notin reqs /\ StartUnheard
  /\ "start" \in reqs => fsm \in StartStates /\ StartUnheard
  /\ "get" \in reqs => fsm # "WaitingAdapterDL" /\ "start" \notin reqs
  /\ ImageShown \/ Activating => HasImage
  /\ fsm = "WaitForActivate" \/ "activate" \in reqs => HasImage
  /\ p.dl = "succeeded" \/ dev.last.dl = "succeeded" => HasImage

CommitInv ==
  CommitShown \/ p.img = "committed" \/ dev.last.img = "committed" => onu.committed = "new"

\* The queue of answers at its two ends.
LEMMA QueueEnds ==
  ASSUME rxq \in Seq(Messages)
  PROVE  /\ rxq # <<>> => Head(rxq) \in Queue
         /\ rxq # <<>> /\ rxq' = Tail(rxq) => Queue' \subseteq Queue
         /\ \A m \in Messages : rxq' = Append(rxq, m) => Queue' \subseteq Queue \cup {m}
<1>1. rxq # <<>> => Head(rxq) \in Queue
  BY DEF Queue
<1>2. ASSUME rxq # <<>>, rxq' = Tail(rxq) PROVE Queue' \subseteq Queue
  <2>1. Len(rxq') = Len(rxq) - 1 /\ \A i \in 1 .. Len(rxq') : rxq'[i] = rxq[i + 1]
    BY <1>2
  <2>2. \A i \in 1 .. Len(rxq') : i + 1 \in 1 .. Len(rxq)
    BY <2>1
  <2> QED BY <2>1, <2>2 DEF Queue
<1>3. ASSUME NEW m \in Messages, rxq' = Append(rxq, m) PROVE Queue' \subseteq Queue \cup {m}
  <2>1. /\ Len(rxq') = Len(rxq) + 1 /\ rxq'[Len(rxq) + 1] = m
        /\ \A i \in 1 .. Len(rxq) : rxq'[i] = rxq[i]
    BY <1>3
  <2>2. \A i \in 1 .. Len(rxq') : i = Len(rxq) + 1 \/ i \in 1 .. Len(rxq)
    BY <2>1
  <2> QED BY <2>1, <2>2 DEF Queue
<1> QED BY <1>1, <1>2, <1>3

\* A step that keeps the state of the FSM, invalidates nothing and adds
\* neither requests, answers nor events of these kinds keeps both.
LEMMA ImageKept ==
  ASSUME ImageInv, CommitInv, fsm' = fsm, reqs' \subseteq reqs \cup {"end"},
         \A m \in Queue' : m \in Queue \/ m.kind \notin {"start", "get"},
         Adds(Events \ {"RxStartSwDownload", "RequestActivate", "WaitForActivate"}),
         onu'.img = onu.img, onu'.committed = onu.committed, dev'.last = dev.last,
         p'.dl = p.dl, p'.img = "committed" => p.img = "committed"
  PROVE  ImageInv' /\ CommitInv'
<1>1. (StartUnheard => StartUnheard') /\ (ImageShown' => ImageShown) /\ (Activating' => Activating)
      /\ (CommitShown' => CommitShown)
  BY DEF StartUnheard, ImageShown, Activating, CommitShown, Adds
<1>2. HasImage => HasImage'
  BY DEF HasImage
<1>3. ImageInv'
  BY <1>1, <1>2 DEF ImageInv
<1>4. CommitInv'
  BY <1>1 DEF CommitInv
<1> QED BY <1>3, <1>4

\* The events of the FSM keep both.
LEMMA ImageEvent ==
  ASSUME Shape, ImageInv, CommitInv, NEW e \in pending, Event(e)
  PROVE  ImageInv' /\ CommitInv'
<1>1. PICK rs \in SUBSET Kinds0 : Asks(e, rs)
  BY EventEffect
<1>2. /\ rxq' = rxq /\ Adds({"Abort", "AbortSwDownload", "Restart"})
      /\ onu'.img = onu.img /\ onu'.committed = onu.committed
      /\ dev'.last = dev.last \/ (dev'.last.dl = p.dl /\ dev'.last.img = p.img)
      /\ p'.dl = "succeeded" => p.dl = "succeeded"
      /\ p'.img = "committed" => p.img = "committed"
      /\ fsm' = fsm \/ fsm' # "WaitingAdapterDL"
      /\ fsm \in StartStates => fsm' \in StartStates \/ e.ev = "RxStartSwDownload"
      /\ fsm' = "WaitForActivate" => fsm = "WaitForActivate" \/ e.ev = "WaitForActivate"
  BY EventEffect
<1>3. Queue' = Queue
  BY <1>2 DEF Queue
<1>4. (StartUnheard => StartUnheard') /\ (ImageShown' => ImageShown) /\ (Activating' => Activating)
      /\ (CommitShown' => CommitShown)
  BY <1>2, <1>3 DEF StartUnheard, ImageShown, Activating, CommitShown, Adds
<1>5. "start" \in reqs' =>
        \/ "start" \in reqs
        \/ fsm = "WaitingAdapterDL" /\ fsm' = "PreparingDL"
  BY <1>1 DEF Asks
<1>6. HasImage => HasImage'
  BY <1>2, <1>5 DEF HasImage
<1>7. "start" \in reqs' => fsm' \in StartStates /\ StartUnheard'
  <2>1. CASE "start" \in reqs
    BY <2>1, <1>2, <1>4 DEF ImageInv, StartUnheard
  <2>2. CASE "start" \notin reqs
    BY <2>2, <1>4, <1>5 DEF ImageInv, StartStates
  <2> QED BY <2>1, <2>2
<1>8. fsm' = "WaitingAdapterDL" => "start" \notin reqs' /\ StartUnheard'
  BY <1>2, <1>4, <1>5 DEF ImageInv
<1>9. "get" \in reqs' => fsm' # "WaitingAdapterDL" /\ "start" \notin reqs'
  <2>1. CASE "get" \in reqs
    BY <2>1, <1>2, <1>5 DEF ImageInv
  <2>2. CASE "get" \in reqs' /\ "get" \notin reqs
    <3>1. fsm \in {"WaitEndDL", "CommitSw"} /\ fsm' # "WaitingAdapterDL"
      BY <2>2, <1>1 DEF Asks
    <3> QED BY <3>1, <1>5 DEF ImageInv, StartStates
  <2> QED BY <2>1, <2>2
<1>10. fsm' = "WaitForActivate" \/ "activate" \in reqs' => HasImage
  <2>1. "activate" \in reqs' => "activate" \in reqs \/ e.ev = "RequestActivate"
    BY <1>1 DEF Asks
  <2> QED BY <1>2, <2>1 DEF ImageInv, Activating
<1>11. p'.dl = "succeeded" \/ dev'.last.dl = "succeeded" => HasImage
  BY <1>2 DEF ImageInv
<1>12. ImageInv'
  BY <1>4, <1>6, <1>7, <1>8, <1>9, <1>10, <1>11 DEF ImageInv
<1>13. CommitInv'
  BY <1>2, <1>4 DEF CommitInv
<1> QED BY <1>12, <1>13

\* The message loop keeps both.
LEMMA ImageRx ==
  ASSUME Shape, ImageInv, CommitInv, Rx PROVE ImageInv' /\ CommitInv'
<1>1. /\ fsm' = fsm /\ dev' = dev /\ onu' = onu /\ reqs' = reqs /\ rxq # <<>> /\ rxq' = Tail(rxq)
      /\ p'.dl # p.dl => Head(rxq).kind = "get" /\ Head(rxq).res = "inactive"
      /\ p'.img = "committed" /\ p.img # "committed" =>
           Head(rxq).kind = "get" /\ Head(rxq).res = "committed"
  BY RxEffect
<1>2. PICK evs \in SUBSET Events :
        /\ Adds(evs)
        /\ "RxStartSwDownload" \in evs => Head(rxq).kind = "start"
        /\ evs \cap {"RequestActivate", "WaitForActivate"} # {} =>
             Head(rxq).kind = "get" /\ Head(rxq).res = "inactive"
  BY RxEffect
<1>3. Head(rxq) \in Queue /\ Queue' \subseteq Queue
  BY <1>1, QueueEnds DEF Shape
<1>4. StartUnheard => StartUnheard'
  BY <1>2, <1>3 DEF StartUnheard, Adds
<1>5. (ImageShown' => ImageShown) /\ (CommitShown' => CommitShown)
  BY <1>3 DEF ImageShown, CommitShown
<1>6. Activating' => Activating \/ ImageShown
  BY <1>2, <1>3 DEF Activating, ImageShown, Adds
<1>7. p'.dl = "succeeded" => p.dl = "succeeded" \/ ImageShown
  BY <1>1, <1>3 DEF ImageShown
<1>8. p'.img = "committed" => p.img = "committed" \/ CommitShown
  BY <1>1, <1>3 DEF CommitShown
<1>9. HasImage' = HasImage
  BY <1>1 DEF HasImage
<1>10. ImageInv'
  BY <1>1, <1>4, <1>5, <1>6, <1>7, <1>9 DEF ImageInv
<1>11. CommitInv'
  BY <1>1, <1>5, <1>8 DEF CommitInv
<1> QED BY <1>10, <1>11

\* The answers of the ONU keep both.
LEMMA ImageAnswer ==
  ASSUME Shape, ImageInv, CommitInv, NEW r \in reqs, OnuAnswer(r) PROVE ImageInv' /\ CommitInv'
<1>1. PICK a \in Answers(r) : onu' = a.onu /\ rxq' = Append(rxq, [kind |-> r, res |-> a.res])
  BY DEF OnuAnswer
<1>2. r \in Kinds0
  BY DEF Shape
<1>3. TrueAnswer(r, a)
  BY <1>2, AnswerEffect
<1>4. PICK m \in Messages : m = [kind |-> r, res |-> a.res]
  BY <1>2, <1>3 DEF TrueAnswer, Messages, Results
<1>5. Queue' \subseteq Queue \cup {m} /\ m.kind = r /\ m.res = a.res
  BY <1>1, <1>4, QueueEnds DEF Shape
<1>6. fsm' = fsm /\ pending' = pending /\ p' = p /\ dev' = dev /\ reqs' = reqs \ {r}
  BY DEF OnuAnswer
<1>7. Activating' = Activating
  BY <1>6 DEF Activating
<1>8. HasImage => HasImage'
  <2>1. HasImage => r # "start"
    BY DEF HasImage
  <2> QED BY <2>1, <1>1, <1>3, <1>6 DEF HasImage, TrueAnswer
<1>9. r # "start" => (StartUnheard => StartUnheard')
  BY <1>5, <1>6 DEF StartUnheard
<1>10. ImageShown' => ImageShown \/ HasImage
  <2>1. r = "get" /\ a.res = "inactive" => HasImage
    BY <1>3 DEF TrueAnswer, HasImage, ImageInv
  <2> QED BY <2>1, <1>5 DEF ImageShown
<1>11. CommitShown' => CommitShown \/ onu.committed = "new"
  BY <1>3, <1>5 DEF TrueAnswer, CommitShown
<1>12. onu.committed = "new" => onu'.committed = "new"
  BY <1>1, <1>3 DEF TrueAnswer
<1>13. fsm' = "WaitingAdapterDL" => "start" \notin reqs' /\ StartUnheard'
  BY <1>6, <1>9 DEF ImageInv
<1>14. "start" \in reqs' => fsm' \in StartStates /\ StartUnheard'
  BY <1>6, <1>9 DEF ImageInv
<1>15. ImageInv'
  BY <1>6, <1>7, <1>8, <1>10, <1>13, <1>14 DEF ImageInv
<1>16. CommitInv'
  BY <1>6, <1>11, <1>12 DEF CommitInv
<1> QED BY <1>15, <1>16

\* The requests and indications at the device handler keep both.
LEMMA ImageHandler ==
  ASSUME Shape, ImageInv, CommitInv, Handler PROVE ImageInv' /\ CommitInv'
<1>1. /\ fsm' = fsm /\ rxq' = rxq /\ reqs' \subseteq reqs
      /\ Adds({"CommitSw", "ActivationDone", "RequestActivate"})
      /\ fsm # "WaitForActivate" => Adds({"CommitSw", "ActivationDone"})
      /\ p'.dl = p.dl /\ p'.img \in {p.img, "active"}
      /\ onu'.img = onu.img /\ onu'.committed = onu.committed /\ dev'.last = dev.last
  BY HandlerEffect
<1>2. Queue' = Queue
  BY <1>1 DEF Queue
<1>3. StartUnheard => StartUnheard'
  BY <1>1, <1>2 DEF StartUnheard, Adds
<1>4. (ImageShown' => ImageShown) /\ (CommitShown' => CommitShown)
  BY <1>2 DEF ImageShown, CommitShown
<1>5. Activating' => Activating \/ fsm = "WaitForActivate"
  BY <1>1 DEF Activating, Adds
<1>6. HasImage => HasImage'
  BY <1>1 DEF HasImage
<1>7. ImageInv'
  BY <1>1, <1>3, <1>4, <1>5, <1>6 DEF ImageInv
<1>8. CommitInv'
  BY <1>1, <1>4 DEF CommitInv
<1> QED BY <1>7, <1>8

\* Every step keeps both.
LEMMA ImageStep ==
  Shape /\ ImageInv /\ CommitInv /\ [Next]_vars => ImageInv' /\ CommitInv'
<1> SUFFICES ASSUME Shape, ImageInv, CommitInv, [Next]_vars PROVE ImageInv' /\ CommitInv' OBVIOUS
<1>0. \A evs : evs \subseteq Events \ {"RxStartSwDownload", "RequestActivate", "WaitForActivate"}
               /\ Adds(evs) =>
        Adds(Events \ {"RxStartSwDownload", "RequestActivate", "WaitForActivate"})
  BY DEF Adds
<1>1. CASE \E e \in pending : Event(e)
  BY <1>1, ImageEvent
<1>2. CASE AbortTimeout \/ RxHandOver \/ \E c \in cancel : CancelSendAbort(c)
  <2>1. /\ fsm' = fsm /\ dev' = dev /\ onu' = onu /\ reqs' = reqs /\ rxq' = rxq
        /\ p'.dl = p.dl /\ p'.img = p.img
        /\ \/ pending' = pending \cup {Async("Restart")}
           \/ pending' = pending \cup {Async("Reset")}
    BY <1>2, AbortEffect
  <2>2. Adds({"Restart", "Reset"})
    BY <2>1, EvOf DEF Adds
  <2>3. Adds(Events \ {"RxStartSwDownload", "RequestActivate", "WaitForActivate"})
    BY <2>2, <1>0, EventsAre
  <2>4. Queue' = Queue
    BY <2>1 DEF Queue
  <2> QED BY <2>1, <2>3, <2>4, ImageKept
<1>3. CASE (Routine /\ ~AbortTimeout /\ ~RxHandOver) \/ DownloadTimeout
  <2>1. /\ fsm' = fsm /\ dev' = dev /\ reqs' \subseteq reqs \cup {"end"}
        /\ rxq' = rxq \/ rxq' = Append(rxq, [kind |-> "stop", res |-> "none"])
        /\ p'.dl = p.dl /\ p'.img \in {p.img, "downloading"}
        /\ onu'.img = onu.img /\ onu'.committed = onu.committed
        /\ Adds({"PrepareSwDownload", "Abort", "WaitWindowAck", "ContinueFinalize", "Disable",
                 "WaitEndDownload"})
    BY <1>3, RoutineEffect
  <2>2. Adds(Events \ {"RxStartSwDownload", "RequestActivate", "WaitForActivate"})
    BY <2>1, <1>0, EventsAre
  <2>3. [kind |-> "stop", res |-> "none"] \in Messages
    BY DEF Messages
  <2>4. Queue' = Queue \/ Queue' \subseteq Queue \cup {[kind |-> "stop", res |-> "none"]}
    BY <2>1, <2>3, QueueEnds DEF Shape, Queue
  <2>5. \A m \in Queue' : m \in Queue \/ m.kind \notin {"start", "get"}
    BY <2>4
  <2> QED BY <2>1, <2>2, <2>5, ImageKept
<1>4. CASE Rx
  BY <1>4, ImageRx
<1>5. ASSUME Canceller, \A c \in cancel : ~CancelSendAbort(c) PROVE ImageInv' /\ CommitInv'
  <2>1. /\ fsm' = fsm /\ dev' = dev /\ onu' = onu /\ reqs' = reqs /\ rxq' = rxq
        /\ p'.dl = p.dl /\ p'.img = p.img /\ Adds({"Abort", "Reset"})
    BY <1>5, CancelEffect
  <2>2. Adds(Events \ {"RxStartSwDownload", "RequestActivate", "WaitForActivate"})
    BY <2>1, <1>0, EventsAre
  <2>3. Queue' = Queue
    BY <2>1 DEF Queue
  <2> QED BY <2>1, <2>2, <2>3, ImageKept
<1>6. CASE Handler
  BY <1>6, ImageHandler
<1>7. ASSUME NEW r \in reqs, OnuAnswer(r) PROVE ImageInv' /\ CommitInv'
  BY <1>7, ImageAnswer
<1>8. CASE UNCHANGED vars
  BY <1>8 DEF vars, ImageInv, CommitInv, StartUnheard, HasImage, ImageShown, Activating,
     CommitShown, Queue
<1> QED BY <1>1, <1>2, <1>3, <1>4, <1>5, <1>6, <1>7, <1>8 DEF Next, Routine

\* The initial states satisfy both.
LEMMA ImageInit == Init => ImageInv /\ CommitInv
<1> SUFFICES ASSUME Init PROVE ImageInv /\ CommitInv OBVIOUS
<1>1. Queue = {} /\ reqs = {}
  BY DEF Init, Queue
<1>2. \A e \in pending : e.ev \in {"RequestActivate", "CommitSw"}
  BY EvOf DEF Init
<1>3. fsm = "WaitingAdapterDL" => pending = {}
  BY DEF Init
<1>4. fsm \in {"WaitingAdapterDL", "Starting"} /\ (fsm = "Starting" => onu.img = "valid")
  BY DEF Init
<1>5. p.dl # "succeeded" /\ dev.last.dl # "succeeded" /\ p.img # "committed" /\ dev.last.img # "committed"
  BY DEF Init, NoStates
<1>6. ImageInv
  BY <1>1, <1>2, <1>3, <1>4, <1>5 DEF ImageInv, StartUnheard, ImageShown, Activating, HasImage
<1>7. CommitInv
  BY <1>1, <1>5 DEF CommitInv, CommitShown
<1> QED BY <1>6, <1>7

\* What is known of the image of the ONU is true in every reachable state.
LEMMA ImageInvHolds == Spec => [](ImageInv /\ CommitInv)
<1>1. Init => ImageInv /\ CommitInv
  BY ImageInit
<1>2. Shape /\ (ImageInv /\ CommitInv) /\ [Next]_vars => (ImageInv /\ CommitInv)'
  BY ImageStep
<1> QED BY <1>1, <1>2, ShapeHolds, PTL DEF Spec

\* The adapter found the image on the ONU before it asks for its activation:
\* an activation follows from an answer that showed the image, directly or by
\* way of the state that waits for the operator.
VerifiedInv == Activating \/ fsm = "WaitForActivate" \/ "activate" \in reqs => p.verified

\* A step that asks for no activation keeps VerifiedInv.
LEMMA VerifiedKept ==
  ASSUME VerifiedInv, p'.verified = p.verified, Activating' => Activating \/ fsm = "WaitForActivate",
         fsm' = "WaitForActivate" => fsm = "WaitForActivate" \/ Activating,
         "activate" \in reqs' => "activate" \in reqs \/ Activating
  PROVE  VerifiedInv'
BY DEF VerifiedInv

\* Every step keeps VerifiedInv.
LEMMA VerifiedStep == Shape /\ VerifiedInv /\ [Next]_vars => VerifiedInv'
<1> SUFFICES ASSUME Shape, VerifiedInv, [Next]_vars PROVE VerifiedInv' OBVIOUS
<1>0. \A evs : evs \cap {"RequestActivate", "WaitForActivate"} = {} /\ Adds(evs) =>
        (Activating' => Activating)
  BY DEF Activating, Adds
<1>1. ASSUME NEW e \in pending, Event(e) PROVE VerifiedInv'
  <2>1. PICK rs \in SUBSET Kinds0 : Asks(e, rs)
    BY <1>1, EventEffect
  <2>2. /\ Adds({"Abort", "AbortSwDownload", "Restart"}) /\ p'.verified = p.verified
        /\ fsm' = "WaitForActivate" => fsm = "WaitForActivate" \/ e.ev = "WaitForActivate"
    BY <1>1, EventEffect
  <2>3. "activate" \in reqs' => "activate" \in reqs \/ e.ev = "RequestActivate"
    BY <2>1 DEF Asks
  <2>4. e.ev \in {"RequestActivate", "WaitForActivate"} => Activating
    BY DEF Activating
  <2>5. Activating' => Activating
    BY <2>2, <1>0
  <2> QED BY <2>2, <2>3, <2>4, <2>5, VerifiedKept
<1>2. CASE AbortTimeout \/ RxHandOver \/ \E c \in cancel : CancelSendAbort(c)
  <2>1. /\ fsm' = fsm /\ reqs' = reqs /\ p'.verified = p.verified
        /\ \/ pending' = pending \cup {Async("Restart")}
           \/ pending' = pending \cup {Async("Reset")}
    BY <1>2, AbortEffect
  <2>2. Activating' => Activating
    BY <2>1, EvOf DEF Activating
  <2> QED BY <2>1, <2>2, VerifiedKept
<1>3. CASE (Routine /\ ~AbortTimeout /\ ~RxHandOver) \/ DownloadTimeout
  <2>1. /\ fsm' = fsm /\ reqs' \subseteq reqs \cup {"end"} /\ p'.verified = p.verified
        /\ Adds({"PrepareSwDownload", "Abort", "WaitWindowAck", "ContinueFinalize", "Disable",
                 "WaitEndDownload"})
    BY <1>3, RoutineEffect
  <2> QED BY <2>1, <1>0, VerifiedKept
<1>4. CASE Rx
  <2>1. fsm' = fsm /\ reqs' = reqs /\ (p.verified => p'.verified)
    BY <1>4, RxEffect
  <2>2. PICK evs \in SUBSET Events :
          /\ Adds(evs)
          /\ evs \cap {"RequestActivate", "WaitForActivate"} # {} => p'.verified
    BY <1>4, RxEffect
  <2>3. Activating' => Activating \/ p'.verified
    BY <2>2, <1>0
  <2> QED BY <2>1, <2>3 DEF VerifiedInv
<1>5. ASSUME Canceller, \A c \in cancel : ~CancelSendAbort(c) PROVE VerifiedInv'
  <2>1. fsm' = fsm /\ reqs' = reqs /\ p'.verified = p.verified /\ Adds({"Abort", "Reset"})
    BY <1>5, CancelEffect
  <2> QED BY <2>1, <1>0, VerifiedKept
<1>6. CASE Handler
  <2>1. /\ fsm' = fsm /\ reqs' \subseteq reqs /\ p'.verified = p.verified
        /\ fsm # "WaitForActivate" => Adds({"CommitSw", "ActivationDone"})
    BY <1>6, HandlerEffect
  <2>2. Activating' => Activating \/ fsm = "WaitForActivate"
    BY <2>1, <1>0
  <2> QED BY <2>1, <2>2, VerifiedKept
<1>7. ASSUME NEW r \in reqs, OnuAnswer(r) PROVE VerifiedInv'
  <2>1. fsm' = fsm /\ reqs' \subseteq reqs /\ p' = p /\ pending' = pending
    BY <1>7 DEF OnuAnswer
  <2> QED BY <2>1 DEF VerifiedInv, Activating
<1>8. CASE UNCHANGED vars
  BY <1>8 DEF vars, VerifiedInv, Activating
<1> QED BY <1>1, <1>2, <1>3, <1>4, <1>5, <1>6, <1>7, <1>8 DEF Next, Routine

\* An activation request is on its way only to an ONU whose image is valid and
\* was found on it by the adapter, whatever was aborted, repeated or lost
\* before.
THEOREM OnlyValidIsActivated == Spec => []ActivateVerified
<1>1. ImageInv /\ VerifiedInv => ActivateVerified
  BY DEF ImageInv, VerifiedInv, HasImage, ActivateVerified
<1>2. Init => VerifiedInv
  BY EvOf DEF Init, VerifiedInv, Activating
<1>3. Shape /\ VerifiedInv /\ [Next]_vars => VerifiedInv'
  BY VerifiedStep
<1> QED BY <1>1, <1>2, <1>3, ShapeHolds, ImageInvHolds, PTL DEF Spec

\* The states that stay with the device handler when the upgrade is removed
\* are true of the ONU.
THEOREM RememberedIsTrue == Spec => []LastStatesTrue
<1>1. ImageInv /\ CommitInv => LastStatesTrue
  BY DEF ImageInv, CommitInv, HasImage, LastStatesTrue
<1> QED BY <1>1, ImageInvHolds, PTL
=============================================================================
