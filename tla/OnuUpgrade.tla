----------------------------- MODULE OnuUpgrade -----------------------------
(***************************************************************************)
(* The software upgrade of one ONU: the state machine OnuUpgradeFsm of     *)
(* internal/pkg/swupg/omci_onu_upgrade.go with its goroutines, and the     *)
(* requests of the device handler that drive, cancel and remove it         *)
(* (internal/pkg/core/device_handler.go).                                  *)
(*                                                                         *)
(* The FSM library takes events one at a time: a goroutine with an event   *)
(* waits until the enter callback of the previous one is done, then its    *)
(* event is taken or, if the state does not allow it, rejected.  Pending   *)
(* events are in the set "pending" with their sender.  The callback of     *)
(* WaitEndDL waits inside of the event for up to 10 seconds.               *)
(*                                                                         *)
(* The transfer of sections is in SwSectionDownload, waiting for the file  *)
(* in FileDownloadManager; here a window is one exchange with the ONU.     *)
(* The ONU (external) has two images, "old" and "new"; it may refuse or    *)
(* delay every request, lose it, reboot at any time and come up with the   *)
(* old image.                                                              *)
(***************************************************************************)
EXTENDS Integers, Sequences, FiniteSets

CONSTANTS
  NumWindows,   \* windows of the image
  MaxWaitEnd,   \* cWaitCountEndSwDl
  MaxDisturb,   \* bound on what happens to a running upgrade
  Kinds         \* the kinds of it: see Disturbances

\* The ONU goes down; the operator requests or cancels; a request cannot be
\* sent; the file is late or unreadable; the supervision of the download
\* expires; the ONU refuses a request or is busy.
Disturbances == {"down", "request", "cancel", "sendErr", "file", "timeout", "refusal"}

ASSUME UpgradeAssumption ==
  /\ NumWindows \in Nat \ {0} /\ MaxWaitEnd \in Nat \ {0}
  /\ MaxDisturb \in Nat /\ Kinds \subseteq Disturbances

VARIABLES
  fsm,      \* the current state of the FSM
  pending,  \* events on their way to the FSM: [ev, by]
  p,        \* the members of OnuUpgradeFsm
  g,        \* the goroutines of the FSM
  cancel,   \* goroutines of CancelProcessing: [full, reason, pc]
  reqs,     \* OMCI requests the ONU has not answered
  rxq,      \* CommChan: the answers on their way to the FSM
  onu,      \* the ONU
  dev,      \* the device handler
  used      \* what has been used of MaxDisturb

vars == <<fsm, pending, p, g, cancel, reqs, rxq, onu, dev, used>>

-----------------------------------------------------------------------------
DownloadStates == {"WaitingAdapterDL", "PreparingDL", "DLSection", "VerifyWindow",
                   "FinalizeDL", "WaitEndDL", "CheckImageName", "WaitForActivate"}

States == DownloadStates \cup
  {"Starting", "RequestingActivate", "Activated", "WaitForCommit", "CommitSw",
   "CheckCommitted", "Resetting", "AbortingDL", "Restarting", "Disabled"}

\* The states an event is taken in.
Src == [PrepareSwDownload  |-> {"WaitingAdapterDL"},
        RxStartSwDownload  |-> {"PreparingDL"},
        WaitWindowAck      |-> {"DLSection"},
        ContinueNextWindow |-> {"VerifyWindow"},
        EndSwDownload      |-> {"VerifyWindow"},
        WaitEndDownload    |-> {"FinalizeDL"},
        ContinueFinalize   |-> {"WaitEndDL"},
        CheckImageName     |-> {"WaitEndDL"},
        WaitForActivate    |-> {"WaitEndDL", "CheckImageName"},
        RequestActivate    |-> {"Starting", "WaitEndDL", "CheckImageName", "WaitForActivate"},
        ActivationDone     |-> {"RequestingActivate"},
        WaitForCommit      |-> {"RequestingActivate"},
        CommitSw           |-> {"Starting", "RequestingActivate", "WaitForCommit", "Activated"},
        CheckCommitted     |-> {"CommitSw"},
        Reset              |-> DownloadStates \cup
                               {"Starting", "CommitSw", "CheckCommitted", "AbortingDL"},
        Abort              |-> DownloadStates \cup
                               {"Starting", "RequestingActivate", "Activated",
                                "WaitForCommit", "CommitSw", "CheckCommitted"},
        AbortSwDownload    |-> {"Resetting"},
        Restart            |-> {"Resetting", "AbortingDL"},
        Disable            |-> {"Restarting"}]

Events == DOMAIN Src

Phases == {"undefined", "downloading", "downloaded", "activating", "activated",
           "committing", "committed"}
Reasons == {"none", "request", "onuState", "omci", "unknown", "refused"}
DlStates == {"unknown", "started", "succeeded", "failed", "cancelled"}
ImgStates == {"unknown", "downloading", "inactive", "activating", "active",
              "committing", "committed", "downloadingAborted",
              "activationAborted", "commitAborted"}

Ev(ev, by) == [ev |-> ev, by |-> by]
Async(ev) == Ev(ev, "async")

\* The FSM library is not inside of an event.
Free == g.waitEnd = "off" /\ g.restart = "off"

\* The message loop of the FSM is ready for the next answer.
RxReady == g.rx = "idle" /\ ~ \E e \in pending : e.by = "rx"

TypeOK ==
  /\ fsm \in States
  /\ pending \subseteq [ev : Events, by : {"rx", "async", "loop", "oper", "cancel", "sync"}]
  /\ p \in [activate : BOOLEAN, commit : BOOLEAN, phase : Phases, dl : DlStates,
            img : ImgStates, reason : Reasons, cond : BOOLEAN, abortReq : Reasons,
            endOpen : BOOLEAN, repeat : BOOLEAN, verified : BOOLEAN,
            waitCount : 0 .. MaxWaitEnd, win : 0 .. NumWindows]
  /\ g \in [adapter : {"off", "on"}, loop : {"off", "run"},
            ender : {"off", "delay", "send", "sent"}, waitEnd : {"off", "on"},
            dlTimer : {"off", "on"}, monitor : {"off", "on"}, abw : Nat,
            rx : {"idle", "success", "busy", "abort", "ready", "ended"}, restart : {"off", "on"}]
  /\ cancel \subseteq [full : BOOLEAN, reason : Reasons,
                       pc : {"check", "sendExpected", "sendAbort", "event"}]
  /\ onu \in [up : BOOLEAN, dl : {"closed", "open"}, img : {"invalid", "valid"},
              active : {"old", "new"}, committed : {"old", "new"},
              booting : BOOLEAN, end : {"none", "due", "sent", "failed"}]
  /\ dev \in [ref : BOOLEAN, canceled : BOOLEAN, view : {"old", "new", "none"},
              shown : {"none", "first", "both"}, toCommit : BOOLEAN, sync : BOOLEAN,
              last : [dl : DlStates, img : ImgStates, reason : Reasons]]

NoStates == [dl |-> "unknown", img |-> "unknown", reason |-> "none"]

\* createOnuUpgradeFsm and the start of the FSM with one of the requests
\* download, activate and commit.  For activation the ONU has a valid
\* inactive image, for commitment it runs an image that is not committed.
\* Three members are a history: p.verified, the image was found on the ONU;
\* onu.end, what became of the EndSwDl the ONU waits for; dev.shown, the
\* images the ONU has shown since it came up.
Init ==
  \E mode \in {"download", "activate", "commit"}, act, com \in BOOLEAN :
    /\ mode = "activate" => act
    /\ mode = "commit" => com /\ ~act
    /\ fsm = IF mode = "download" THEN "WaitingAdapterDL" ELSE "Starting"
    /\ pending = IF mode = "activate" THEN {Ev("RequestActivate", "oper")}
                 ELSE IF mode = "commit" THEN {Ev("CommitSw", "oper")} ELSE {}
    /\ p = [activate |-> act, commit |-> com, phase |-> "undefined",
            dl |-> IF mode = "download" THEN "started" ELSE "unknown",
            img |-> IF mode = "activate" THEN "activating"
                    ELSE IF mode = "commit" THEN "committing" ELSE "unknown",
            reason |-> "none", cond |-> FALSE, abortReq |-> "none",
            endOpen |-> FALSE, repeat |-> FALSE, verified |-> mode # "download",
            waitCount |-> MaxWaitEnd, win |-> 0]
    /\ g = [adapter |-> IF mode = "download" THEN "on" ELSE "off", loop |-> "off",
            ender |-> "off", waitEnd |-> "off", dlTimer |-> "off",
            monitor |-> IF mode = "download" THEN "on" ELSE "off", abw |-> 0,
            rx |-> "idle", restart |-> "off"]
    /\ cancel = {} /\ reqs = {} /\ rxq = <<>>
    /\ onu = [up |-> TRUE, dl |-> "closed",
              img |-> IF mode = "download" THEN "invalid" ELSE "valid",
              active |-> IF mode = "commit" THEN "new" ELSE "old",
              committed |-> "old", booting |-> FALSE, end |-> "none"]
    /\ dev = [ref |-> TRUE, canceled |-> FALSE,
              view |-> IF mode = "commit" THEN "new" ELSE "old",
              shown |-> "both", toCommit |-> mode = "commit", sync |-> FALSE, last |-> NoStates]
    /\ used = 0

-----------------------------------------------------------------------------
(***************************************************************************)
(* Building blocks                                                         *)
(***************************************************************************)
\* A request goes to the ONU, if it is up; it is lost otherwise.
Sent(r) == reqs' = IF onu.up THEN reqs \cup {r} ELSE reqs

\* The named bound on requests, cancellations, reboots and failures to send.
Disturbed(kind) == kind \in Kinds /\ used < MaxDisturb /\ used' = used + 1

SendErr == Disturbed("sendErr")

\* abortOnOmciError: the event is taken to the FSM by a goroutine of its own
\* (by = "async") or by the caller.
OmciError(q) == [q EXCEPT !.cond = FALSE, !.reason = "omci"]

\* The FSM takes the event e = ev and is in state dst when its enter callback
\* runs.
Taken(e, ev, dst) ==
  /\ Free /\ e.ev = ev /\ fsm \in Src[ev]
  /\ fsm' = dst

\* A non-blocking send on chOnuDlReady: one of the routines that wait on it
\* receives, the supervision of the download or the monitor of the request.
OnuDlReady(h) ==
  IF h.dlTimer = "off" /\ h.monitor = "off" THEN {h}
  ELSE {[h EXCEPT ![r] = "off"] : r \in {x \in {"dlTimer", "monitor"} : h[x] = "on"}}

\* stateUpdateOnReset
StateUpdateOnReset(q) ==
  IF q.cond
  THEN [q EXCEPT !.dl = "failed", !.reason = "onuState", !.img = "downloadingAborted"]
  ELSE CASE q.phase \in {"undefined", "downloading"} ->
              [q EXCEPT !.dl = IF q.reason = "request" THEN "cancelled"
                               ELSE IF q.reason # "none" THEN "failed" ELSE @,
                        !.img = "downloadingAborted"]
         [] q.phase = "activating" -> [q EXCEPT !.img = "activationAborted"]
         [] q.phase = "committing" -> [q EXCEPT !.img = "commitAborted"]
         [] OTHER -> q

-----------------------------------------------------------------------------
(***************************************************************************)
(* Events of the FSM with their enter callbacks                            *)
(***************************************************************************)
\* An event the state does not allow is rejected; the section loop goes on
\* and sends its window all the same.
Rejected(e) ==
  /\ Free /\ fsm \notin Src[e.ev]
  /\ pending' = pending \ {e}
  /\ IF e.ev = "WaitWindowAck" THEN Sent("window") ELSE UNCHANGED reqs
  /\ UNCHANGED <<fsm, p, g, cancel, rxq, onu, dev, used>>

\* enterPreparingDL: the file is read, the supervision started, StartSwDl sent.
EvPrepareSwDownload(e) ==
  /\ Taken(e, "PrepareSwDownload", "PreparingDL")
  /\ \/ /\ Disturbed("file")
        /\ p' = [p EXCEPT !.reason = "unknown"]
        /\ pending' = (pending \ {e}) \cup {Async("Abort")}
        /\ UNCHANGED <<g, reqs, onu>>
     \/ /\ SendErr
        /\ p' = OmciError(p)
        /\ pending' = (pending \ {e}) \cup {Async("Abort")}
        /\ g' = [g EXCEPT !.dlTimer = "on"]
        /\ UNCHANGED <<reqs, onu>>
     \/ /\ p' = [p EXCEPT !.endOpen = TRUE]
        /\ pending' = pending \ {e}
        /\ g' = [g EXCEPT !.dlTimer = "on"]
        /\ Sent("start")
        /\ onu' = [onu EXCEPT !.end = "due"]
        /\ UNCHANGED used
  /\ UNCHANGED <<cancel, rxq, dev>>

\* enterDownloadSection starts runSwDlSectionWindow.
EvDownloadSection(e) ==
  /\ (Taken(e, "RxStartSwDownload", "DLSection") \/ Taken(e, "ContinueNextWindow", "DLSection"))
  /\ pending' = pending \ {e}
  /\ g' = [g EXCEPT !.loop = "run"]
  /\ UNCHANGED <<p, cancel, reqs, rxq, onu, dev, used>>

\* The event of the section loop, which then sends its window.
EvWaitWindowAck(e) ==
  /\ Taken(e, "WaitWindowAck", "VerifyWindow")
  /\ pending' = pending \ {e}
  /\ Sent("window")
  /\ UNCHANGED <<p, g, cancel, rxq, onu, dev, used>>

\* enterFinalizeDL starts delayAndSendEndSwDl, with a delay (delayEndSwDl) at the
\* first time.
EvFinalizeDL(e) ==
  /\ (Taken(e, "EndSwDownload", "FinalizeDL") \/ Taken(e, "ContinueFinalize", "FinalizeDL"))
  /\ pending' = pending \ {e}
  /\ g' = [g EXCEPT !.ender = IF e.ev = "EndSwDownload" THEN "delay" ELSE "send"]
  /\ UNCHANGED <<p, cancel, reqs, rxq, onu, dev, used>>

\* enterWaitEndDL: give up, or wait for the answer inside of the event.
EvWaitEndDownload(e) ==
  /\ Taken(e, "WaitEndDownload", "WaitEndDL")
  /\ IF p.waitCount = 0
     THEN /\ p' = [p EXCEPT !.reason = "refused"]
          /\ pending' = (pending \ {e}) \cup {Async("Abort")}
          /\ UNCHANGED g
     ELSE /\ p' = [p EXCEPT !.waitCount = @ - 1]
          /\ pending' = pending \ {e}
          /\ g' = [g EXCEPT !.waitEnd = "on"]
  /\ UNCHANGED <<cancel, reqs, rxq, onu, dev, used>>

\* enterCheckImageName and enterCheckCommitted: read the ONU's image.
EvGetImage(e) ==
  /\ (Taken(e, "CheckImageName", "CheckImageName") \/ Taken(e, "CheckCommitted", "CheckCommitted"))
  /\ \/ /\ SendErr
        /\ p' = OmciError(p)
        /\ pending' = (pending \ {e}) \cup {Async("Abort")}
        /\ UNCHANGED reqs
     \/ /\ pending' = pending \ {e}
        /\ Sent("get")
        /\ UNCHANGED <<p, used>>
  /\ UNCHANGED <<g, cancel, rxq, onu, dev>>

EvWaitForActivate(e) ==
  /\ Taken(e, "WaitForActivate", "WaitForActivate")
  /\ pending' = pending \ {e}
  /\ UNCHANGED <<p, g, cancel, reqs, rxq, onu, dev, used>>

\* enterActivateSw
EvRequestActivate(e) ==
  /\ Taken(e, "RequestActivate", "RequestingActivate")
  /\ \/ /\ SendErr
        /\ p' = OmciError(p)
        /\ pending' = (pending \ {e}) \cup {Async("Abort")}
        /\ UNCHANGED reqs
     \/ /\ Sent("activate")
        /\ p' = [p EXCEPT !.phase = "activating", !.img = "activating"]
        /\ pending' = pending \ {e}
        /\ UNCHANGED used
  /\ UNCHANGED <<g, cancel, rxq, onu, dev>>

EvActivationDone(e) ==
  /\ (Taken(e, "ActivationDone", "Activated") \/ Taken(e, "WaitForCommit", "WaitForCommit"))
  /\ pending' = pending \ {e}
  /\ UNCHANGED <<p, g, cancel, reqs, rxq, onu, dev, used>>

\* Mutant: the image is committed whatever the ONU runs.
EvCommitSwUnchecked(e) ==
  /\ Taken(e, "CommitSw", "CommitSw")
  /\ p' = [p EXCEPT !.phase = "committing", !.img = "committing"]
  /\ pending' = pending \ {e}
  /\ Sent("commit")
  /\ UNCHANGED <<g, cancel, rxq, onu, dev, used>>

\* enterCommitSw: only if the new image is known as the active one.
EvCommitSw(e) ==
  /\ Taken(e, "CommitSw", "CommitSw")
  /\ IF dev.view = "new"
     THEN LET q == [p EXCEPT !.phase = "committing", !.img = "committing"] IN
          \/ /\ SendErr
             /\ p' = OmciError(q)
             /\ pending' = (pending \ {e}) \cup {Async("Abort")}
             /\ UNCHANGED reqs
          \/ /\ Sent("commit")
             /\ p' = q /\ pending' = pending \ {e}
             /\ UNCHANGED used
     ELSE /\ p' = [p EXCEPT !.cond = FALSE, !.reason = "onuState"]
          /\ pending' = (pending \ {e}) \cup {Async("Abort")}
          /\ UNCHANGED <<reqs, used>>
  /\ UNCHANGED <<g, cancel, rxq, onu, dev>>

\* Mutant: the open download on the ONU is forgotten.
EvResettingNoAbort(e) ==
  /\ (Taken(e, "Reset", "Resetting") \/ Taken(e, "Abort", "Resetting"))
  /\ p' = StateUpdateOnReset(p)
  /\ g' \in OnuDlReady(g)
  /\ pending' = (pending \ {e}) \cup {Async("Restart")}
  /\ UNCHANGED <<cancel, reqs, rxq, onu, dev, used>>

\* enterResetting: the states are brought up to date, then the download on
\* the ONU is aborted if it is open.
EvResetting(e) ==
  /\ (Taken(e, "Reset", "Resetting") \/ Taken(e, "Abort", "Resetting"))
  /\ LET q == StateUpdateOnReset(p)
         r == [q EXCEPT !.abortReq = q.reason]
     IN  p' = IF r.endOpen /\ ~r.repeat THEN [r EXCEPT !.waitCount = MaxWaitEnd] ELSE r
  /\ g' \in OnuDlReady(g)
  /\ pending' = (pending \ {e}) \cup
                  {Async(IF p.endOpen THEN "AbortSwDownload" ELSE "Restart")}
  /\ UNCHANGED <<cancel, reqs, rxq, onu, dev, used>>

\* enterAbortingDL: EndSwDl with an invalid CRC, and a routine that waits for
\* the answer.  If it cannot be sent the download stays open on the ONU.
EvAbortSwDownload(e) ==
  /\ Taken(e, "AbortSwDownload", "AbortingDL")
  /\ \/ /\ SendErr
        /\ onu' = [onu EXCEPT !.end = IF @ = "due" THEN "failed" ELSE @]
        /\ pending' = (pending \ {e}) \cup {Async("Restart")}
        /\ UNCHANGED <<g, reqs>>
     \/ /\ Sent("abort")
        /\ onu' = [onu EXCEPT !.end = "sent"]
        /\ g' = [g EXCEPT !.abw = @ + 1]
        /\ pending' = pending \ {e}
        /\ UNCHANGED used
  /\ UNCHANGED <<p, cancel, rxq, dev>>

\* enterRestarting stops the message loop through CommChan, which has room
\* for two messages, from inside of the event.
EvRestart(e) ==
  /\ Taken(e, "Restart", "Restarting")
  /\ pending' = pending \ {e}
  /\ g' = [g EXCEPT !.restart = "on"]
  /\ UNCHANGED <<p, cancel, reqs, rxq, onu, dev, used>>

RestartingSend ==
  /\ g.restart = "on" /\ Len(rxq) < 2
  /\ rxq' = Append(rxq, [kind |-> "stop", res |-> "none"])
  /\ g' = [g EXCEPT !.restart = "off"]
  /\ pending' = pending \cup {Async("Disable")}
  /\ UNCHANGED <<fsm, p, cancel, reqs, onu, dev, used>>

\* enterDisabled and RemoveOnuUpgradeFsm.
EvDisable(e) ==
  /\ Taken(e, "Disable", "Disabled")
  /\ pending' = pending \ {e}
  /\ dev' = [dev EXCEPT !.ref = FALSE, !.canceled = FALSE,
                        !.last = [dl |-> p.dl, img |-> p.img, reason |-> p.reason]]
  /\ UNCHANGED <<p, g, cancel, reqs, rxq, onu, used>>

Event(e) ==
  \/ Rejected(e) \/ EvPrepareSwDownload(e) \/ EvDownloadSection(e) \/ EvWaitWindowAck(e)
  \/ EvFinalizeDL(e) \/ EvWaitEndDownload(e) \/ EvGetImage(e) \/ EvWaitForActivate(e)
  \/ EvRequestActivate(e) \/ EvActivationDone(e) \/ EvCommitSw(e) \/ EvResetting(e)
  \/ EvAbortSwDownload(e) \/ EvRestart(e) \/ EvDisable(e)

-----------------------------------------------------------------------------
(***************************************************************************)
(* Goroutines of the FSM                                                   *)
(***************************************************************************)
\* waitOnDownloadToAdapterReady: the image is there, or the time is over.
AdapterReady ==
  /\ g.adapter = "on"
  /\ g' = [g EXCEPT !.adapter = "off"]
  /\ pending' = pending \cup {Async("PrepareSwDownload")}
  /\ UNCHANGED <<fsm, p, cancel, reqs, rxq, onu, dev, used>>

AdapterTimeout ==
  /\ g.adapter = "on" /\ Disturbed("file")
  /\ g' = [g EXCEPT !.adapter = "off"]
  /\ p' = [p EXCEPT !.cond = FALSE, !.reason = "unknown"]
  /\ pending' = pending \cup {Async("Abort")}
  /\ UNCHANGED <<fsm, cancel, reqs, rxq, onu, dev>>

\* runSwDlSectionWindow sees the abort request, or sends its window after
\* the event WaitWindowAck.
SectionLoopAborted ==
  /\ g.loop = "run" /\ p.abortReq # "none"
  /\ g' = [g EXCEPT !.loop = "off"]
  /\ p' = [p EXCEPT !.reason = p.abortReq, !.phase = "downloading",
                    !.img = IF p.win = 0 THEN "downloading" ELSE @]
  /\ pending' = pending \cup {Async("Abort")}
  /\ UNCHANGED <<fsm, cancel, reqs, rxq, onu, dev, used>>

SectionLoopWindow ==
  /\ g.loop = "run" /\ p.abortReq = "none"
  /\ g' = [g EXCEPT !.loop = "off"]
  /\ p' = [p EXCEPT !.phase = "downloading", !.img = IF p.win = 0 THEN "downloading" ELSE @]
  /\ pending' = pending \cup {Ev("WaitWindowAck", "loop")}
  /\ UNCHANGED <<fsm, cancel, reqs, rxq, onu, dev, used>>

\* delayAndSendEndSwDl: the delay, the request, and then isEndSwDlOpen is
\* cleared and the FSM waits for the answer.
EndSend ==
  /\ g.ender \in {"delay", "send"}
  /\ \/ /\ SendErr
        /\ p' = OmciError(p)
        /\ pending' = pending \cup {Async("Abort")}
        /\ g' = [g EXCEPT !.ender = "off"]
        /\ UNCHANGED <<reqs, onu>>
     \/ /\ Sent("end")
        /\ onu' = [onu EXCEPT !.end = "sent"]
        /\ g' = [g EXCEPT !.ender = "sent"]
        /\ UNCHANGED <<pending, p, used>>
  /\ UNCHANGED <<fsm, cancel, rxq, dev>>

EndSent ==
  /\ g.ender = "sent"
  /\ p' = [p EXCEPT !.endOpen = FALSE]
  /\ pending' = pending \cup {Async("WaitEndDownload")}
  /\ g' = [g EXCEPT !.ender = "off"]
  /\ UNCHANGED <<fsm, cancel, reqs, rxq, onu, dev, used>>

\* enterWaitEndDL: no answer in time, the request is repeated.
WaitEndTimeout ==
  /\ g.waitEnd = "on"
  /\ g' = [g EXCEPT !.waitEnd = "off"]
  /\ pending' = pending \cup {Async("ContinueFinalize")}
  /\ UNCHANGED <<fsm, p, cancel, reqs, rxq, onu, dev, used>>

\* waitOnDownloadToOnuReady: the time for the whole download is over.
DownloadTimeout ==
  /\ g.dlTimer = "on" /\ Disturbed("timeout")
  /\ g' = [g EXCEPT !.dlTimer = "off"]
  /\ p' = OmciError(p)
  /\ pending' = pending \cup {Async("Abort")}
  /\ UNCHANGED <<fsm, cancel, reqs, rxq, onu, dev>>

\* Mutant: the FSM is not told that there was no answer.
AbortTimeoutSilent ==
  /\ g.abw > 0
  /\ g' = [g EXCEPT !.abw = @ - 1]
  /\ UNCHANGED <<fsm, pending, p, cancel, reqs, rxq, onu, dev, used>>

\* waitOnAbortEndSwDlResponse: no answer in time.
AbortTimeout ==
  /\ g.abw > 0
  /\ g' = [g EXCEPT !.abw = @ - 1]
  /\ pending' = pending \cup {Async("Restart")}
  /\ UNCHANGED <<fsm, p, cancel, reqs, rxq, onu, dev, used>>

\* abortingDlEvaluateResponse
AbortAnswered(res) ==
  IF res # "busy" THEN p' = p /\ pending' = pending \cup {Async("Restart")}
  ELSE IF p.waitCount = 0 THEN p' = p /\ pending' = pending \cup {Async("Restart")}
  ELSE /\ p' = [p EXCEPT !.waitCount = @ - 1, !.repeat = TRUE]
       /\ pending' = pending \cup {Async("Reset")}

\* The message loop hands over the answer to EndSwDl(abort), for which it
\* waits until a routine receives.
RxHandOver ==
  /\ g.rx \in {"success", "busy", "abort"} /\ g.abw > 0
  /\ AbortAnswered(g.rx)
  /\ g' = [g EXCEPT !.rx = "idle", !.abw = @ - 1]
  /\ UNCHANGED <<fsm, cancel, reqs, rxq, onu, dev, used>>

\* verifyOnuSwStatusAfterDownload, after its event: the download is done.
RxOnuDlReady ==
  /\ g.rx = "ready" /\ ~ \E e \in pending : e.by = "rx"
  /\ g' \in OnuDlReady([g EXCEPT !.rx = "idle"])
  /\ UNCHANGED <<fsm, pending, p, cancel, reqs, rxq, onu, dev, used>>

Routine ==
  \/ AdapterReady \/ AdapterTimeout
  \/ SectionLoopAborted \/ SectionLoopWindow
  \/ EndSend \/ EndSent \/ WaitEndTimeout
  \/ AbortTimeout \/ RxHandOver \/ RxOnuDlReady \/ RestartingSend

-----------------------------------------------------------------------------
(***************************************************************************)
(* The message loop processOmciUpgradeMessages.  An event of a handler is  *)
(* taken to the FSM by the loop itself, which waits for it (by = "rx").    *)
(***************************************************************************)
Received(kind) ==
  /\ RxReady /\ rxq # <<>> /\ Head(rxq).kind = kind
  /\ rxq' = Tail(rxq)

Result == Head(rxq).res

\* abortOnOmciError(ctx, false)
AbortFromRx ==
  /\ p' = OmciError(p)
  /\ pending' = pending \cup {Ev("Abort", "rx")}
  /\ UNCHANGED g

\* The handler ends with an event and leaves the goroutines alone.
EventFromRx(ev) == pending' = pending \cup {Ev(ev, "rx")} /\ UNCHANGED g

RxStartSwDownloadResponse ==
  /\ Received("start")
  /\ IF Result = "ok"
     THEN EventFromRx("RxStartSwDownload") /\ p' = [p EXCEPT !.win = 0]
     ELSE AbortFromRx
  /\ UNCHANGED <<fsm, cancel, reqs, onu, dev, used>>

\* Ignored unless the FSM waits for it; the last window ends the download.
RxSwSectionResponse ==
  /\ Received("window")
  /\ IF fsm # "VerifyWindow" THEN UNCHANGED <<p, pending, g>>
     ELSE IF Result # "ok" THEN AbortFromRx
     ELSE /\ p' = [p EXCEPT !.win = @ + 1]
          /\ EventFromRx(IF p'.win >= NumWindows THEN "EndSwDownload" ELSE "ContinueNextWindow")
  /\ UNCHANGED <<fsm, cancel, reqs, onu, dev, used>>

\* In AbortingDL the result goes to the routine that waits for it, and the
\* loop waits with it.  Otherwise: busy is ignored (the request is repeated),
\* an error aborts, success goes to enterWaitEndDL if it is waiting.
RxEndSwDownloadResponse ==
  /\ Received("end") \/ Received("abort")
  /\ \/ /\ fsm = "AbortingDL"
        /\ g' = [g EXCEPT !.rx = CASE Result = "busy" -> "busy"
                                    [] Result = "ok" -> "success"
                                    [] OTHER -> "abort"]
        /\ UNCHANGED <<p, pending>>
     \/ /\ fsm # "AbortingDL" /\ Result = "busy"
        /\ UNCHANGED <<p, pending, g>>
     \/ /\ fsm # "AbortingDL" /\ Result = "err"
        /\ p' = [p EXCEPT !.cond = FALSE, !.reason = "onuState"]
        /\ g' \in OnuDlReady(g)
        /\ pending' = pending \cup {Ev("Abort", "rx")}
     \/ /\ fsm # "AbortingDL" /\ Result = "ok"
        /\ IF g.waitEnd = "on"
           THEN /\ g' = [g EXCEPT !.waitEnd = "off"]
                /\ p' = [p EXCEPT !.endOpen = FALSE]
                /\ pending' = pending \cup {Async("CheckImageName")}
           ELSE UNCHANGED <<p, pending, g>>
  /\ UNCHANGED <<fsm, cancel, reqs, onu, dev, used>>

\* verifyOnuSwStatusAfterDownload
VerifyOnuSwStatusAfterDownload(res) ==
  \/ /\ res = "inactive"
     /\ p' = [p EXCEPT !.phase = "downloaded", !.dl = "succeeded", !.img = "inactive",
                       !.verified = TRUE]
     /\ pending' = pending \cup
          {Ev(IF p.activate THEN "RequestActivate" ELSE "WaitForActivate", "rx")}
     /\ g' = [g EXCEPT !.rx = "ready"]
  \/ /\ res = "version"
     /\ p' = [p EXCEPT !.reason = "onuState"]
     /\ g' \in OnuDlReady(g)
     /\ pending' = pending \cup {Ev("Abort", "rx")}
  \/ /\ res \in {"active", "committed"}
     /\ p' = [p EXCEPT !.reason = "onuState"]
     /\ EventFromRx("Abort")

\* Mutant: an image that is active counts as committed.
VerifyCommittedActive(res) ==
  /\ p' = IF res \in {"active", "committed"}
          THEN [p EXCEPT !.cond = FALSE, !.phase = "committed", !.img = "committed"]
          ELSE [p EXCEPT !.cond = FALSE, !.reason = "onuState"]
  /\ EventFromRx("Abort")

\* handleRxSwGetResponse after the commitment: the FSM is aborted in any case.
VerifyCommitted(res) ==
  /\ p' = IF res = "committed"
          THEN [p EXCEPT !.cond = FALSE, !.phase = "committed", !.img = "committed"]
          ELSE [p EXCEPT !.cond = FALSE, !.reason = "onuState"]
  /\ EventFromRx("Abort")

RxSwGetResponse ==
  /\ Received("get")
  /\ IF Result = "err" THEN AbortFromRx
     ELSE IF fsm = "CheckImageName" THEN VerifyOnuSwStatusAfterDownload(Result)
     ELSE VerifyCommitted(Result)
  /\ UNCHANGED <<fsm, cancel, reqs, onu, dev, used>>

RxActivateSoftwareResponse ==
  /\ Received("activate")
  /\ IF Result = "ok"
     THEN EventFromRx(IF p.commit THEN "WaitForCommit" ELSE "ActivationDone") /\ UNCHANGED p
     ELSE AbortFromRx
  /\ UNCHANGED <<fsm, cancel, reqs, onu, dev, used>>

RxCommitSoftwareResponse ==
  /\ Received("commit")
  /\ IF Result = "ok" THEN EventFromRx("CheckCommitted") /\ UNCHANGED p ELSE AbortFromRx
  /\ UNCHANGED <<fsm, cancel, reqs, onu, dev, used>>

RxStop ==
  /\ Received("stop")
  /\ g' = [g EXCEPT !.rx = "ended"]
  /\ UNCHANGED <<fsm, pending, p, cancel, reqs, onu, dev, used>>

Rx ==
  \/ RxStartSwDownloadResponse \/ RxSwSectionResponse \/ RxEndSwDownloadResponse
  \/ RxSwGetResponse \/ RxActivateSoftwareResponse \/ RxCommitSoftwareResponse \/ RxStop

-----------------------------------------------------------------------------
(***************************************************************************)
(* CancelProcessing                                                        *)
(***************************************************************************)
\* The part the caller runs: the wait for the file ends, the section loop and
\* the delay of EndSwDl are told to stop, a goroutine is started.
CancelProcessing(full, reason) ==
  /\ p' = [p EXCEPT !.abortReq = reason]
  /\ g' = [g EXCEPT !.adapter = "off", !.ender = IF @ = "delay" THEN "off" ELSE @]
  /\ cancel' = cancel \cup {[full |-> full, reason |-> reason, pc |-> "check"]}

CancelTo(c, pc) == cancel' = (cancel \ {c}) \cup {[c EXCEPT !.pc = pc]}

\* The goroutine sends its own event ...
CancelEvent(c) ==
  /\ cancel' = cancel \ {c}
  /\ p' = IF c.full THEN [p EXCEPT !.cond = FALSE, !.reason = c.reason]
          ELSE [p EXCEPT !.cond = TRUE]
  /\ pending' = pending \cup {Ev(IF c.full THEN "Abort" ELSE "Reset", "cancel")}
  /\ UNCHANGED <<fsm, g, reqs, rxq, onu, dev, used>>

\* ... after it looked at the state of the FSM ...
CancelCheck(c) ==
  /\ c.pc = "check"
  /\ \/ /\ fsm \notin {"WaitEndDL", "AbortingDL"}
        /\ CancelEvent(c)
     \/ /\ fsm \in {"WaitEndDL", "AbortingDL"}
        /\ CancelTo(c, IF fsm = "WaitEndDL" THEN "sendExpected" ELSE "sendAbort")
        /\ UNCHANGED <<fsm, pending, p, g, reqs, rxq, onu, dev, used>>

\* ... and waits until enterWaitEndDL, which then aborts the FSM, ...
CancelSendExpected(c) ==
  /\ c.pc = "sendExpected" /\ g.waitEnd = "on"
  /\ CancelTo(c, "event")
  /\ g' = [g EXCEPT !.waitEnd = "off"]
  /\ p' = [OmciError(p) EXCEPT !.endOpen = FALSE]
  /\ pending' = pending \cup {Async("Abort")}
  /\ UNCHANGED <<fsm, reqs, rxq, onu, dev, used>>

\* ... or waitOnAbortEndSwDlResponse receives.
CancelSendAbort(c) ==
  /\ c.pc = "sendAbort" /\ g.abw > 0
  /\ CancelTo(c, "event")
  /\ g' = [g EXCEPT !.abw = @ - 1]
  /\ AbortAnswered("abort")
  /\ UNCHANGED <<fsm, reqs, rxq, onu, dev, used>>

Canceller ==
  \E c \in cancel : CancelCheck(c) \/ CancelSendExpected(c) \/ CancelSendAbort(c)
                  \/ (c.pc = "event" /\ CancelEvent(c))

-----------------------------------------------------------------------------
(***************************************************************************)
(* Requests and indications at the device handler                          *)
(***************************************************************************)
\* cancelOnuSwUpgrade, or a newer download request (onuSwUpgradeAfterDownload).
CancelOnuSwUpgrade ==
  /\ Disturbed("cancel") /\ dev.ref /\ ~dev.canceled
  /\ dev' = [dev EXCEPT !.canceled = TRUE]
  /\ CancelProcessing(TRUE, "request")
  /\ UNCHANGED <<fsm, pending, reqs, rxq, onu>>

Request == Disturbed("request") /\ dev.ref /\ ~dev.canceled

\* Mutant: the activation is requested in every state that has the event.
OnuSwActivateRequestEarly(com) ==
  /\ Request /\ p.dl # "unknown"
  /\ p' = [p EXCEPT !.activate = TRUE, !.commit = com]
  /\ pending' = pending \cup {Ev("RequestActivate", "oper")}
  /\ UNCHANGED <<fsm, g, cancel, reqs, rxq, onu, dev>>

\* onuSwActivateRequest, SetActivationParamsRunning: only an upgrade that
\* began with a download knows the image's name.
OnuSwActivateRequest(com) ==
  /\ Request /\ p.dl # "unknown"
  /\ p' = [p EXCEPT !.activate = TRUE, !.commit = com]
  /\ pending' = IF fsm = "WaitForActivate"
                THEN pending \cup {Ev("RequestActivate", "oper")} ELSE pending
  /\ UNCHANGED <<fsm, g, cancel, reqs, rxq, onu, dev>>

\* onuSwCommitRequest, SetCommitmentParamsRunning
OnuSwCommitRequest ==
  /\ Request
  /\ p' = [p EXCEPT !.commit = TRUE]
  /\ pending' = pending \cup {Ev("CommitSw", "oper")}
  /\ UNCHANGED <<fsm, g, cancel, reqs, rxq, onu, dev>>

\* The ONU is lost: requests on their way too.  resetFsms cancels what cannot
\* survive a reboot; what is known of the ONU's images stays.
OnuDown ==
  /\ onu.up /\ Disturbed("down")
  /\ onu' = [onu EXCEPT !.up = FALSE, !.dl = "closed", !.end = "none"]
  /\ reqs' = {}
  /\ IF dev.ref /\ ~dev.canceled THEN CancelProcessing(FALSE, "onuState")
     ELSE UNCHANGED <<p, g, cancel>>
  /\ UNCHANGED <<fsm, pending, rxq, dev>>

\* The ONU is back, with the new image if it was activated and the ONU does
\* not fall back, with the committed one otherwise.
OnuUp ==
  /\ ~onu.up
  /\ \E img \in {onu.committed} \cup (IF onu.booting THEN {"new"} ELSE {}) :
       onu' = [onu EXCEPT !.up = TRUE, !.active = img, !.booting = FALSE]
  /\ dev' = [dev EXCEPT !.shown = "none"]
  /\ UNCHANGED <<fsm, pending, p, g, cancel, reqs, rxq, used>>

\* HandleSwImageIndications, in the MIB synchronisation that follows: only now
\* the adapter learns which image is active.  The first image is the active
\* one, or no image is known as active until the second one is shown.
FirstSwImageIndication ==
  /\ onu.up /\ dev.shown = "none"
  /\ \E v \in {onu.active, "none"} : dev' = [dev EXCEPT !.view = v, !.shown = "first"]
  /\ UNCHANGED <<fsm, pending, p, g, cancel, reqs, rxq, onu, used>>

SecondSwImageIndication ==
  /\ onu.up /\ dev.shown = "first"
  /\ dev' = [dev EXCEPT !.view = onu.active, !.shown = "both", !.sync = TRUE,
                        !.toCommit = onu.active = "new" /\ onu.committed = "old"]
  /\ UNCHANGED <<fsm, pending, p, g, cancel, reqs, rxq, onu, used>>

\* checkOnOnuImageCommit, at the end of the MIB upload
CheckOnOnuImageCommit ==
  /\ dev.sync
  /\ LET waiting == fsm \in {"WaitForCommit", "RequestingActivate"}
         done == [dev EXCEPT !.sync = FALSE]
     IN  \/ /\ ~dev.ref \/ dev.canceled
            /\ dev' = done
            /\ UNCHANGED <<p, g, cancel, pending>>
         \/ /\ dev.ref /\ ~dev.canceled /\ waiting /\ dev.toCommit
            /\ dev' = done
            /\ pending' = pending \cup
                 {Ev(IF fsm = "RequestingActivate" /\ ~p.commit
                     THEN "ActivationDone" ELSE "CommitSw", "sync")}
            /\ UNCHANGED <<p, g, cancel>>
         \/ /\ dev.ref /\ ~dev.canceled /\ waiting /\ ~dev.toCommit
            /\ dev' = [done EXCEPT !.canceled = TRUE]
            /\ CancelProcessing(TRUE, "onuState")
            /\ UNCHANGED pending
         \/ /\ dev.ref /\ ~dev.canceled /\ ~waiting
            /\ dev' = done
            /\ p' = IF dev.view = "new"    \* SetImageStateActive
                    THEN [p EXCEPT !.phase = "activated", !.img = "active"] ELSE p
            /\ UNCHANGED <<g, cancel, pending>>
  /\ UNCHANGED <<fsm, reqs, rxq, onu, used>>

Handler ==
  \/ CancelOnuSwUpgrade \/ OnuSwCommitRequest \/ (\E com \in BOOLEAN : OnuSwActivateRequest(com))
  \/ OnuDown \/ OnuUp \/ FirstSwImageIndication \/ SecondSwImageIndication \/ CheckOnOnuImageCommit

-----------------------------------------------------------------------------
(***************************************************************************)
(* The ONU (external)                                                      *)
(***************************************************************************)
\* What the attributes of the image say: its version is the one of the file
\* only if the image is valid, and not even then if the file was another one;
\* "active" stands for active or committed but not both.
Shown == IF onu.img = "invalid" THEN {"version"}
         ELSE {"version", IF onu.active # onu.committed THEN "active"
                          ELSE IF onu.active = "old" THEN "inactive" ELSE "committed"}

\* The answers the ONU may give, each with the ONU's next state.
Answers(r) ==
  {[res |-> "err", onu |-> onu]} \cup
  CASE r = "start" -> {[res |-> "ok", onu |-> [onu EXCEPT !.dl = "open", !.img = "invalid"]]}
    [] r = "window" -> {[res |-> "ok", onu |-> onu]}
    [] r = "end" -> {[res |-> "busy", onu |-> onu],
                     [res |-> "err", onu |-> [onu EXCEPT !.dl = "closed"]]} \cup
                    (IF onu.dl = "open" \/ onu.img = "valid"
                     THEN {[res |-> "ok", onu |-> [onu EXCEPT !.dl = "closed", !.img = "valid"]]}
                     ELSE {})
    [] r = "abort" -> {[res |-> "busy", onu |-> onu],
                       [res |-> "ok", onu |-> [onu EXCEPT !.dl = "closed"]]}
    [] r = "get" -> {[res |-> s, onu |-> onu] : s \in Shown}
    [] r = "activate" -> IF onu.img = "valid"
                         THEN {[res |-> "ok", onu |-> [onu EXCEPT !.booting = TRUE]]} ELSE {}
    [] r = "commit" -> IF onu.img = "valid"
                       THEN {[res |-> "ok", onu |-> [onu EXCEPT !.committed = c]] :
                               c \in {onu.committed, "new"}} ELSE {}

OnuAnswer(r) ==
  /\ onu.up /\ Len(rxq) < 2
  /\ reqs' = reqs \ {r}
  /\ \E a \in Answers(r) :
       /\ onu' = a.onu /\ rxq' = Append(rxq, [kind |-> r, res |-> a.res])
       /\ IF a.res \in {"err", "busy", "version"} THEN Disturbed("refusal") ELSE UNCHANGED used
  /\ UNCHANGED <<fsm, pending, p, g, cancel, dev>>

\* The model ends with the removal of the FSM.
Next ==
  /\ dev.ref
  /\ \/ (\E e \in pending : Event(e)) \/ Routine \/ DownloadTimeout \/ Rx \/ Canceller
     \/ Handler \/ (\E r \in reqs : OnuAnswer(r))

Spec == Init /\ [][Next]_vars

-----------------------------------------------------------------------------
(***************************************************************************)
(* Properties                                                              *)
(***************************************************************************)
\* The ONU is told to activate only an image it has completely and that the
\* adapter found on it after the download (enterActivateSw after
\* verifyOnuSwStatusAfterDownload, or an image that was there before),
\* whatever was aborted, repeated or lost before.
ActivateVerified == "activate" \in reqs => onu.img = "valid" /\ p.verified

\* The ONU is told to commit the new image only while it runs it, whenever and
\* how often it restarts and falls back, except between a restart and the
\* first indication of its images, when the adapter goes by what it knew
\* before (enterCommitSw, HandleSwImageIndications).
CommitRunning ==
  [][("commit" \in reqs' /\ "commit" \notin reqs) =>
       onu.active = "new" \/ dev.shown = "none"]_vars

\* The same without the exception: the commitment of an image that is not
\* active is an error ("active ImageId <> IdToCommit", enterCommitSw), so an
\* image that was loaded and activated is not committed after the ONU fell
\* back from it.
CommitActive == p.dl = "succeeded" /\ "commit" \in reqs => onu.active = "new"

\* The states that stay with the device handler after the upgrade are true:
\* "committed" only if the ONU has committed the image, "download succeeded"
\* only if the ONU has the image (RemoveOnuUpgradeFsm with the states of
\* enterDisabled).
LastStatesTrue ==
  /\ dev.last.img = "committed" => onu.committed = "new"
  /\ dev.last.dl = "succeeded" => onu.img = "valid"

\* An upgrade whose StartSwDl was sent is not removed before EndSwDl was sent,
\* for success or for abort, unless the ONU rebooted, or the sending of the
\* abort itself failed, which leaves the download open on the ONU
\* (isEndSwDlOpen, enterAbortingDL): nobody forgets to end it.
EndIsTried == fsm \in {"Restarting", "Disabled"} => onu.end # "due"

\* A reset of the FSM is never left alone: as long as the FSM has not reached
\* Restarting there is an event on its way, or a routine that ends with one
\* even if the ONU never answers, whoever cancels or answers meanwhile
\* (enterResetting, enterAbortingDL, waitOnAbortEndSwDlResponse).
ResetGoesOn ==
  /\ fsm = "Resetting" => \E e \in pending : fsm \in Src[e.ev]
  /\ fsm = "AbortingDL" => g.abw > 0 \/ \E e \in pending : fsm \in Src[e.ev]

=============================================================================
