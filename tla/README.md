# TLA+ models of the openonu adapter

The adapter `voltha-openonu-adapter-go` manages ONUs of a passive optical network for VOLTHA. One Go
process holds a *device handler* per ONU. The handler talks OMCI (ITU-T G.988) with its ONU through the OLT
adapter: frames go out over gRPC and come back as indications. All of an ONU's configuration is done by state
machines (library `looplab/fsm`) that send a request and go on when the response, or a timeout, arrives. This
directory models the parts where goroutines, timers, retransmissions, reboots and requests of the operator meet.

Line numbers are those of the repository at this commit. `omci_cc.go` is short for
`src/internal/pkg/common/omci_cc.go`, and so on.

## 1. Inventory

| Component | State it keeps | Operations | Interaction | What is hard |
|---|---|---|---|---|
| OMCI channel (`common/omci_cc.go`) | two transmit queues, `rxSchedulerMap` and `monitoredRequests` by transaction identifier, identifier counters | `Send`, `sendQueuedRequests`, `processRequestMonitoring`, `ReceiveMessage`, `CancelRequestMonitoring`, about 60 `Send*` encoders | every state machine calls `Send*` with its channel; the OLT adapter is called by gRPC | one goroutine per request, five mutexes, retransmissions racing late answers, low priority traffic delaying high priority, deletion of the device in between |
| File download manager (`swupg/file_download_manager.go`) | list of image descriptors, channels of devices that wait for an image | `StartDownload`, `RequestDownloadReady`, `RemoveReadyRequest`, `CancelDownload`, `updateFileState`, `removeImage` | shared by the upgrade FSMs of all ONUs; HTTP, local files | unbuffered channels under a mutex, a lost wake-up, downloads that cannot be cancelled |
| ONU upgrade (`swupg/omci_onu_upgrade.go`) | FSM with 18 states, position in the image, phase and reported states, flags for abort and cancellation | events of the FSM, response handlers, timers, `CancelProcessing`, `SetActivationParams*`, `SetCommitmentParams*` | device handler creates, cancels, removes it; file manager delivers the image; the ONU reboots in the middle | about eight goroutines on unbuffered channels; answers that arrive in a later state; reboot at every point; retries of windows |
| Device handler (`core/device_handler.go`) | device state and reasons, references to all FSMs, flags (`upgradeCanceled`, `reconciling`, ...), monitoring goroutines | ONU indications (discovered, up, down, deleted), flow and TP requests, reset and reconcile | owns everything per ONU; called by core, OLT adapter, other goroutines | resets of all FSMs against their own progress; reconcile against indications |
| MIB synchronisation (`mib/mib_sync.go`, `mib/onu_device_entry.go`, `mib/mib_download.go`, `devdb`) | MIB FSM (upload, audit, resync), the uploaded MIB, MDS counter, persistent ONU data | MIB reset, upload, template, MDS audit, re-sync, MIB download | started by the handler, gives events back to it | counters modulo 256, resuming from the KV store, upload interrupted by ONU down |
| UNI technology profiles (`avcfg/onu_uni_tp.go`) | T-CONT and GEM parameters per UNI and profile, path indications in the KV store, flags "done" and "resetting" | `ConfigureUniTp`, `DeleteTpResource`, `waitForTimeoutOrCompletion`, persistence | requests of the OLT adapter with a deadline; ANI FSM, VLAN FSM | a deadline that passes before the FSM is done, profile deletion against flows that use it |
| ANI configuration (`avcfg/omci_ani_config.go`) | FSM with 21 states per UNI and profile, GEM ports to add and to remove | creates and removes T-CONT, GEM ports, queues, mapper, bridge port | OMCI channel, completion channel, VLAN FSM (wait for flow removal, reset) | four kinds of goroutines on unbuffered channels, cancellation against timers, order of removal |
| VLAN configuration (`avcfg/omci_vlan_config.go`) | list of rules with their cookies, of which a prefix is configured; list of rules to remove; VLAN filter list | `initUniFlowParams`, `SetUniFlowParams`, `RemoveUniFlowParams` and the FSM (12 states) that applies them | flow handler routine per UNI; ANI FSM; technology profile done | lists edited while the FSM walks them, additions suspended in the middle of a removal, callbacks that wait with locks held |
| PM manager (`pmmgr/onu_metrics_manager.go`) | metric groups, L2 PM FSM, lists of MEs to create and delete | collection ticks, threshold crossing, FSM | KV store, events | interval sync, create/delete against reset |
| Alarm manager (`almgr/alarm_manager.go`) | active alarms, bit map, sequence number | notifications, audit (get all alarms) | alarm events to core | notification during an audit, sequence number 1..255 |
| UNI admin/status, self test, image status | small request/response FSMs | lock/unlock, test, status | OMCI channel | timeouts |
| Adapter instance (`core/openonu.go` and others) | map of device handlers | RPC dispatch, adoption, reconcile, deletion | core, OLT adapter | deletion in steps while other calls run |
| Legacy download manager, config, main | descriptors; flags | - | - | - |

Everything under `vendor/` is left aside. `PROJECT.json` lists each component with its status.

### What makes the components correct

* **OMCI channel.** Every supervised request comes to an end that its requester learns of. No frame is
  forgotten in a queue. A frame is transmitted at most once per attempt. High priority overtakes low
  priority. An identifier is not reused while an earlier request with it may still be answered.
* **File manager.** Nobody waits for an image that is there. "Succeeded" means that the file is complete. The
  mutex is released.
* **Upgrade.** The ONU receives exactly the image. It is told to activate only an image that was verified, and
  to commit only one it runs. Reported states are true. Nobody forgets to end a download that was opened on the ONU. Resets,
  cancellations and timeouts end.
* **MIB synchronisation.** An upload that counts as done has all of the MIB. The MDS counters agree while the MIB
  is in sync and the ONU is as the adapter left it; an audit resets only an ONU that has diverged. After a reset
  the ONU is provisioned again. A synchronisation ends, and one that fails is reported. The cancellation ends.
* **Device handler (planned beyond the parts above and below).** A device that is down has no active FSM; no stale event of an
  earlier life of the ONU changes the state after it came up again.
* **Technology profile, ANI.** A profile counts as done only while the ONU has all of its entities. What is removed leaves no
  GEM port without its mapper. Every request is answered; the FSM settles; after a cancellation downloads are taken again.
* **VLAN.** A flow that is reported as installed is on the ONU, and one that is reported as removed is not. The table on the ONU changes only
  as the list of rules asks (`FlowTable`). The FSM settles.
* **Alarms.** After an audit every alarm that the ONU has on an entity of the MIB is active (not the other way round, see `InStep`); lost notifications are noticed; an audit and a stop end.
* **PM (not modelled).** Every ME to be created is eventually created or reported.

## 2. Modules

| Module | Models | Extends |
|---|---|---|
| `OmciCC` | queues, drains, supervisors, reception and deletion of `omci_cc.go`, `omci_test_request.go` and the callers' channels | - |
| `MCOmciCC` | requests and constant functions for the runs of `OmciCC` | `OmciCC` |
| `OmciCCProofs` | five theorems about `OmciCC` | `OmciCC` |
| `OmciTid` | allocation of transaction identifiers, single and for windows | - |
| `OmciTidProofs` | three theorems about it | `OmciTid` |
| `FileDownloadManager` | `file_download_manager.go` with the waiting routines of the upgrade FSM | - |
| `FileDownloadProofs` | two theorems about it | `FileDownloadManager` |
| `SwSectionDownload` | transfer of an image in windows of sections | - |
| `SwSectionProofs` | the transfer's inductive invariant and five theorems | `SwSectionDownload` |
| `OnuUpgrade` | the upgrade FSM, its goroutines, its cancellation, the device handler's part and the ONU | - |
| `OnuUpgradeProofs` | six theorems about it | `OnuUpgrade` |
| `MibSync` | the MIB upload FSM, its message processor, the MDS audit, ONU up and down in the device handler, and the ONU | - |
| `MibSyncProofs` | three theorems about it, and the lemmas that hold under a premise | `MibSync` |
| `AlarmManager` | `alarm_manager.go`, its start and stop, and the ONU's alarms | - |
| `AlarmManagerProofs` | three theorems about it, and the lemmas that hold under a premise | `AlarmManager` |
| `OmciSend` | the `Send*` functions of `omci_cc.go` that the next two use, as requests for managed entities | - |
| `AniConfig` | the technology profile of a UNI: requests, `OnuUniTechProf`, the ANI FSM, the device handler's part and the ONU's entities | `OmciSend` |
| `MCAniConfig` | constant functions for its run | `AniConfig` |
| `AniConfigProofs` | one theorem about it | `AniConfig` |
| `VlanConfig` | the flows of a UNI: the flow handler, the VLAN FSM, its coupling with the profile, and the ONU's tagging table | `OmciSend` |
| `MCVlanConfig` | constant functions for its runs | `VlanConfig` |
| `FlowTable` | abstract specification: what the VLAN configuration promises about the tagging table | - |

The layers meet at their interfaces. `OnuUpgrade` treats a window as one exchange, which `SwSectionDownload` refines to
sections; the wait for the file in `OnuUpgrade` is one goroutine that ends with the image, a timeout or a
cancellation, which is what `FileDownloadManager` shows in detail for several devices; the
requests of both go through what `OmciCC` models, where a request is answered, times out or is cancelled. `AniConfig` and `VlanConfig` see each other through their interface: in `VlanConfig`
a profile is not configured, done, or to be deleted (`tpd`), and the ANI FSM waits for removals, is signalled or stops to wait, asks again, and resets the VLAN FSM
(`FlowRemovePending`, `FlowDeleteSignalled`, `FlowRemTimer`, `FlowRemDone`, `FlowRemAsk`, `AniConfigReset`, `AniRemoved`); in `AniConfig` the flows are a wait that ends or times out.

### OmciCC

A *request* is one call of `Send`. Its supervisor (`sup[r]`) is the goroutine
`processRequestMonitoring`: registered under its identifier (`SupRegister`), queued (`SupPush`), waiting
(`SupSelect`, `SupRetry`, `SupGiveUp`, `SupCtxDone`), removed (`SupLeave`). A *drain* is a goroutine
`sendQueuedRequests`; they are serialised by a mutex, so one program counter `dpc` and a number of
drains that have not begun are enough. The drain's walk over the high and the low priority queue, the call to
the OLT adapter that succeeds or fails, the interruption of the low priority walk after each frame and the
early returns are actions of their own (`HighSent`, `HighFailed`, `LowEnter`, `LowSent`, `LowFailed`,
`LowUnregister`, `LowRelock`, ...). Mutexes are modelled where holding them over a blocking operation matters. A mutex that an early
return leaves locked is in `leftLocked` from then on. `net` counts frames the ONU may still answer: an answer
that is never taken is a lost frame. A self test has two answers, the `TestResponse` and the `TestResult`, which go to the same callback.

### OmciTid

Two counters share the 16 bit identifier space: `GetNextTid` for single requests and
`GetOnuSwSecNextTid` for sections. `Half` is the split point (0x8000 in the code). `Half` itself belongs to both priorities: a window may leave the low counter there, and the next low request
gets the first identifier of the high ones (`SharedIsHalf`).

### FileDownloadManager

A download is one `downloadFile` with its goroutine: HEAD request, GET, copying, updating the state, serving those who wait.
`holder` says who keeps `mutexDownloadImageDsc` locked while it is blocked in a send. A device's waiting routine
and the operator's abort are taken from `omci_onu_upgrade.go`.

### SwSectionDownload

Data are byte offsets: section `n` carries the offsets of its bytes in the file, so `flash` (what the ONU has
accepted) can be compared with the file. Sizes are as the code computes them: number of sections and windows, buffer end for baseline (padded) and
extended (cut) messages, the last, shorter, window. A window may be refused and repeated (`retrySoftwareDownload`), the download
may be aborted at any time. The ONU (external) accepts or refuses a window as a whole and answers each request once.

### OnuUpgrade

* `fsm` is the state of the FSM. `pending` holds the events whose `Event()` call waits for the FSM's mutex,
  with their caller: `rx` (the message loop, which waits for it), `async` (a goroutine started for it), `loop`, `oper`, `cancel`,
  `sync`. Any of them may be next. An event is taken with the whole enter callback of its new state, or
  rejected. Two events of the same kind and caller are merged; the second would be rejected or repeat the first.
* `g` are the goroutines: the wait for the file, the section loop, the sender of `EndSwDl`, the wait inside of
  `enterWaitEndDL` (which blocks the FSM), the supervision of the download and the monitor of the request, the
  routines that wait for the answer to an abort, the message loop.
* `p` are members of `OnuUpgradeFsm`; `dev` is the device handler's part (`upgradeCanceled`, the reference to
  the FSM, the image the last MIB upload showed as active, the states kept after the FSM is gone).
* `onu` (external) has the old and the new image. It may refuse, be busy, not answer, reboot, fall back.
* `dev.view` is `onuSwImageIndications`, which a loss of the ONU does not clear: it stays what it was until the MIB upload after the restart shows the images one after the other
  (`dev.shown`, `FirstSwImageIndication`, `SecondSwImageIndication`). `p.verified` is a history: the image was found valid on the ONU after the download, or the FSM was created for one that is there already.
* The model follows one FSM from its creation (for a download, an activation or a commitment) to its removal.

### MibSync

* `ul` is the state of the FSM, `Table` its transitions. `pend` holds the events whose `Event()` call waits for
  the FSM, with their caller: `proc` (a message processor, which waits for it) or `go`; equal ones are merged, since the second one would be
  rejected or repeat the first. `Transition` takes or rejects one event with the whole
  enter callback of the new state (`Enter...`, each a record of what the callback changes). Four callbacks wait
  inside of an event: `cb` names the one and its caller; the FSM takes no event meanwhile.
* `proc` are the goroutines `processMibSyncMessages`: starting, waiting for a message, waiting for their event. There is normally one; a
  timeout, or a start that finds the old one alive, makes it none or two.
* `up` has the upload's counters, what was stored, and `up.held`: the search for a template without a result keeps `mutexMibTemplateGenerated`, which is one for the whole adapter, and the template's `MeDbLock` until the
  last answer of the upload (`mib_sync.go:389-392`, `882-884`). A search that finds them locked waits inside of its event. With the ONU alone in the model nobody else locks them, and its template always has the same path.
* `chan` is `CommChan` with its capacity of two; `sent` are requests with the mark whether they are still
  supervised; `back` are answers whose delivery blocks on a full channel. What the ONU answers late,
  after the supervision has given up, is `RequestLost` or an answer. A request that is supervised may also be answered twice, since a retransmission registers the callback again
  (`OnuRepeats`, `omci_cc.go:5111-5114`). That there is one request on the air at a time is the channel's
  property (`OmciCC`), so a configuration's request delays the audit's.
* `mds` has both counters. Configuration by other FSMs (`cfg`) is one request at a time: executed by the ONU, counted by the ONU, then
  counted by the adapter when the response is received (`ConfigResponse`).
* `dh` is the procedure on ONU indications: started, up, and then `cancel`, `stop`, `clear` for the steps of `resetFsms` and `UpdateInterface`.
* `dev` has the flags of the device entry and five history flags for the properties: `intact` (the ONU is as the
  adapter left it), `blank` (a MIB reset was sent and provisioning has not begun), `midway` (that reset hit reconciling
  with OMCI after MibDatabaseSync), `touched` (a configuration ran into the audit), `clean` (started with nothing left of an earlier
  run, `NothingLeft`: channels, a locked mutex, a goroutine that waits for flows; and no answer of this run was repeated).
* Two assumptions on time: an ONU takes longer to go down and up again than goroutines that are ready to run
  take for a step (`Settled`), and longer to go down than a started processor takes to set its flag.
* Left out: the branch of `enterExaminingMdsSuccessState` for an ONU that rebooted while the adapter was down, and the inside of the template search, which
  finds a template or not.

### AlarmManager

* `as` is the state of `AlarmSyncFsm`. The callbacks of `Starting` and `InSync` wait inside of the event for the audit timer, a stop or a request for
  the active alarms, in goroutines that the callback starts; `cb` is the place. The events on their way (`pend`) are told apart by their cause.
* `active` and `db` are the alarms as events were raised for them and as the bit map has them; `copy` are the two copies that an audit compares; `buf`
  are notifications that arrive during an audit. `onu` (external) changes alarms, numbers its notifications from 1 to `SeqMax` and starts over, and answers an upload
  with the alarms at its start.
* Notifications may be lost and overtaken by the answers of an audit. A failure to send and a missing answer are disturbances.

### OmciSend and AniConfig

* A request is its action, the class and the instance of the entity; the ONU's `mib.me` is the set of entities that were created and not deleted. Attributes
  are kept where they tell requests for one instance apart. Building, encoding and sending may fail, which is a disturbance of the caller's step.
* `rq` is the request of the OLT adapter (download, removal of a GEM port, removal of the T-CONT) with `tpProcMutex`, its deadline and the completion channel.
  `tp` is `OnuUniTechProf`, `pers` the persistent data, `dh` the device handler with the steps of `CancelProcessing`.
* `f` are members of the FSM, `cb` the place where an enter callback waits, `wk` the goroutine of a step that sends several requests and waits for each answer
  on an unbuffered channel, `loop` the message loop, which reads, or offers a result that nobody may take.
* Assumptions: an ONU that is lost answers nothing more; an answer takes longer than a goroutine needs to come to its `select`; the ONU comes back
  (`DeviceUp`) when the procedures of its loss have ended, the MIB upload in between takes longer. Requests for removal name unicast GEM ports, as those of the OLT adapter do. One profile id on one UNI.

### VlanConfig and FlowTable

* `fl` is the flow in the hands of `PerOnuFlowHandlerRoutine`, which takes one at a time for a UNI; `add` is an addition that is suspended, for the removal of its
  own rule or of its cookie from another rule, and that may outlive its request. `f.rules` is `uniVlanFlowParamsSlice` with `f.configured` of them configured,
  `f.removes` is `uniRemoveFlowsSlice`. Response channels are Booleans: is there somebody who reads it.
* `cb`, `pend`, `wk`, `loop`, `ch`, `sent` are as in `AniConfig`. A callback that fires an event at its own FSM is `cb = "self"`, for good.
* `ani` is the ANI FSM of a profile that is being removed, as far as it meets the VLAN FSM: it waits for the end of a removal (`wait`), its timer is due, it asks again whether removals are pending, which needs `mutexFlowParams`,
  and goes on to the GEM ports. The signal on `flowDeleteChannel` needs it in `wait`. `cancel` is `CancelProcessing` of a lost ONU: the look at `isAwaitingResponse` and the send of `false` are two steps.
* `InnerOf` gives rules an inner tag. The filter of such a rule is another one when its entry is written than when it is deleted (`Filter(r, on)`; `omci_vlan_config.go:2397-2406`, `2687-2696`; also for a transparent rule, `2292` against `2594`).
* A rule has a profile, a VLAN it matches and one it sets. The ONU's table `mib.tab` has at most one entry for each filter part (`Key`), a later one
  replaces an earlier one; a set needs the entity.
* `FlowTable` knows nothing of the FSM: rules are known, ordered to leave, on their way to or from the ONU (`adding`, `taking`), or in its table (`have`).
  The refinement mapping reads `known` from `f.rules`, `leaving` from the rules that are also in `f.removes`, the two sets in flight from `sent`, and `have` from `mib.tab`. Steps on
  cookies, suspensions, profiles, answers and timers are stutters. The abstract step that carries the argument is `Forget`: a rule whose removal
  is ordered leaves the list only when the ONU does not have it. It fails as soon as a removal is counted as done without its
  answer, or the wrong element of the slice is taken.
* Assumptions: as for `AniConfig`; requests of a thrown away FSM have been answered or given up before a new one is made; what remains of a worker's traffic
  descriptors after a failed multicast part is dropped with the FSM. A timer and the reset of its flag are one step, also the unlock and the lock at
  `omci_vlan_config.go:1833-1842`. One ANI FSM at a time waits for a removal, and its own cancellation is one step (`AniConfig` has its steps). An ONU comes back when `CancelProcessing` has ended. One GEM port per profile.

## 3. Runs

| Run | Expectation | Shows |
|---|---|---|
| `omcicc` | pass | a high priority request without response and a supervised self test of low priority with a retry: `TransmitBound`, `PriorityBound` and, with fairness, `Answered`; failed calls, late answers, cancelled monitoring in every order |
| `omcicc_env` | pass | a window of sections and a verify request on one identifier, with undecodable and autonomous messages and the deletion of the device: `MonitoredIsSupervised`, `NoStrandedFrame` |
| `omcitid` | pass | `NoEarlyReuse`, `WindowAckTid` over all wraps of both counters |
| `filedl` | pass | two devices, one image, two downloads: `NoLostRequester`, `SucceededIsReady` |
| `swsection` | pass | `ImageIntegrity`, `SectionInBuffer`, `AckNumberExpected`, `NoOverlap` for all file lengths from 1 to 16 |
| `onuupgrade` | pass | `ActivateVerified`, `CommitRunning`, `LastStatesTrue`, `EndIsTried`, `ResetGoesOn` with any two disturbances |
| `mibsync` | pass | a new ONU, or one known from before an adapter restart, synchronised, configured, audited, with any two disturbances: `UploadComplete`, `ImagesDistinct`, `InSyncSound`, `Reprovisioned`, `AuditSound`, `GiveUpIsReported` and, with fairness, `SyncEnds` (a synchronisation comes to rest, and the loss of the ONU is handled to its end) |
| `alarm` | pass | notifications, audits, a request for the active alarms, start and stop with one disturbance: `InStep`, `NoNeedlessAudit` and, with fairness, `AuditEnds`, `StopEnds` |
| `alarm_request` | violation | `RequestEnds` fails: a request for the active alarms during an audit and the end of that audit both send on the same unbuffered channel (`alarm_manager.go:297,869`) |
| `aniconfig` | pass | two requests for a profile with three GEM ports, a loss of the ONU and one more disturbance: `DoneIsConfigured`, `NoDanglingGem`, `ResettingEnds` and, with fairness, `RequestEnds`, `FsmSettles` |
| `vlanconfig` | pass | three requests for flows, profiles that come, go and fail, one disturbance of six kinds: `AddOkIsConfigured`, the refinement `ImplementsFlowTable` and, with fairness, `FsmSettles` |
| `vlanconfig_removal` | violation | `RemoveOkIsGone` fails without any disturbance: the removal of a profile resets the VLAN FSM while the rule of another profile is on its way; its removal is then answered with success and the rule stays on the ONU |

`TypeOK` of each module lists what its variables hold and holds on the same instances; it is part of a run where it says more than types: in `omcitid`, where
it is proved as well, and in `vlanconfig`, where it bounds the number of configured rules by the length of the list and the messages by the room of the channel.

### Bounds and why they are enough

* `omcicc`: two requests, one retry, channel capacity 1. Overtaking needs one request of each priority, a stranded frame one failed
  call and a second frame, a late answer one retry. The theorems lift the safety part to any number.
* `omcicc_env`: the same identifier for both requests, which is how a late entry of a map can hit the wrong request.
* `omcitid`: `Half = 5`, windows of up to 6 sections, so that a window is longer than the space and wraps inside.
* `filedl`: two downloads of one image, the smallest case in which a cancelled download meets its successor; two devices,
  so that one is served and another registers. With two images `SucceededIsReady` fails: see `removeImage` in section 5.
* `swsection`: section size 3 and windows of up to 3 sections: the lengths 1 to 16 contain every combination of full or partial last section
  with full or partial last window, from less than a section to two windows.
* `onuupgrade`: one window (the transfer is in `SwSectionDownload`), one repetition of `EndSwDl`
  (`MaxWaitEnd`), and `MaxDisturb = 2`: a disturbance is a reboot, a request or a cancellation by the operator, a failure to send, a missing file, an expired
  supervision, a refusal. Timeouts of single answers and lost answers are not counted. Every pair of disturbances is explored at every pair of moments.
  About 3.9 million states, two minutes.
* `mibsync`: the counters range over 0..2 and start with any values, so one configuration request reaches the wrap
  around; two commands per upload tell first, middle and last apart; one audit (with its re-audit); `MaxDisturb = 2`
  with all eleven kinds (`Disturbances`), every pair at every pair of moments. Two are needed for the restart cases: one that leaves something behind, and
  the ONU's going down. An answer is repeated only before other disturbances here, since the number of repetitions has to stay below that of the commands (`OnuRepeats`): with two commands answered three times
  the synchronisation ends in a state that no upload of a real length ends in. About 900 000 states, two minutes. With three commands, and repetitions before and after another disturbance, it is 1.1 million states; all properties hold.
  With `MaxDisturb = 4` (empty MIB, down, timeout) `GiveUpIsReported`
  fails, by the two message processors after an empty MIB: see section 5. The others do not depend on the bound, see section 4.
* `alarm`: one alarm on a known and on an unknown entity, sequence numbers up to 2, three changes (so the numbers wrap and one more is missing than can be
  noticed, which `InStep` excludes), one timer audit besides those asked for early, one disturbance. About 510 000 states. With `MaxLife = 2`, a second start, `InStep` holds
  as well (2.2 million states), but `NoNeedlessAudit` does not: see `alarm_manager.go:560` in section 5. With more notifications on the way than there are numbers
  (`SeqMax = 2`, two alarms, three changes) `InStep` fails: see `FewOnTheWay`; with `SeqMax = 3` the same instance passes (11 million states).
* `alarm_request`: no change of alarms and no disturbance are needed.
* `aniconfig`: two unicast GEM ports tell the last one apart from others, a multicast one goes with the last; an instance that is refused; two requests, which is a download and a
  removal or two downloads; a loss of the ONU and one further disturbance at any point. About 300 000 states. With `MaxDisturb = 2`
  `NoDanglingGem` fails: an answer that came when no loop read it stays in `CommChan`, survives the loss and the return of the ONU, and is taken for the answer to the same request of
  the next run, which is itself lost.
* `vlanconfig`: two rules on two profiles, one with multicast, one with a meter; three flows, of which two share a cookie and two share a rule, so that both suspensions
  occur; `MaxRules = 2`. Three flow requests are an addition, its removal and an addition in between. About 770 000 states, two to three minutes. All rules have one tag; with two
  the filters differ (section 5). Checked as well: two requests, one profile and two disturbances, among them the loss of the ONU in the middle of another failure (320 000 states, `AddOkIsConfigured` and `FsmSettles` hold); a transparent rule in
  the place of one with a VLAN (all properties hold); and without the incremental option (810 000 states, `TypeOK` and `FsmSettles`): there all rules write the
  entry for untagged frames, the last rule replaces the others, and neither `AddOkIsConfigured` nor the refinement can hold for two rules.
* `vlanconfig_removal`: four flow requests and three changes of profiles, which the counterexample needs, and no disturbance.

Deadlock checking is off where the system may stop: all requests issued and answered, the upgrade removed, the MIB in sync with no audit left. It is on for `omcitid`.

### Fairness

Weak fairness is assumed of goroutines that can run (the Go scheduler is preemptive), of timers, and of the gRPC call to the OLT
adapter, which has a deadline. `MibSync` and `AniConfig` have one weak fairness condition for all of the adapter's goroutines, timers and
supervised requests together, the return of an ONU that went down included: as long as one of these steps is possible, some such step is taken.
That is weaker than fairness of each. `VlanConfig` has two, one for these and one for the ANI FSM, which is another FSM with goroutines of its own and could otherwise wait and ask again for ever in
the place of all others; `OmciCC` and `AlarmManager` have one for each kind of goroutine. Nothing else is assumed of the ONU, the HTTP server, the OLT adapter or the operator.
`Answered`, `SyncEnds`, `AuditEnds`, `RequestEnds` and `FsmSettles` therefore hold although the ONU may never answer, and `alarm_request` is a violation under that fairness.
The other modules state no fairness.

## 4. Theorems

Proved with TLAPS for all values of the constants that satisfy the `ASSUME`s of the modules: any number of requests, devices, windows, audits and disturbances. Each inductive
invariant was checked with TLC on small instances before it was proved.

* **`OmciCCProofs`**: `TypeCorrect`; `PriorityHolds`; `NoFrameStranded`; `TransmissionsBounded`; `NoIdentifierBlocked` (`MonitoredIsSupervised`). `PriorityBound` is not inductive: the
  proof adds that a high priority request that was overtaken has a drain which is past its low priority frame.
  `NoStrandedFrame` needs a counting argument: the number of drains that have not begun plus the supervisors about to
  start one (`Cover`) is at least the number of queued frames, up to one that the running drain accounts for. A failed call ends a drain early, and
  costs exactly the drain that the frame had brought. `TransmitBound` counts what a supervisor has pushed (`Pushed`): frames sent and copies in both queues never exceed it.
* **`OmciTidProofs`**: `TidTypeCorrect`, `WindowAckTidHolds`, `NoEarlyReuseHolds`, for every split point and window size. `HistoryInv` says which identifier was given out
  `k` allocations ago. A round of the low counter has `Half - 1` identifiers, or `Half` when a window left the counter at its end; the invariant says there is one of the two. `TidTypeCorrect` has the low
  counter in `1 .. Half` and the high one in `Half .. Max`, so `Half` is in both ranges; `NoEarlyReuse` says in addition that it is the only identifier which the priorities share.
* **`FileDownloadProofs`**: `NoRequesterLost`, for any number of images, devices and downloads. The strengthening relates the registered devices to
  the goroutines that are about to serve or to register them. `OneImageIsReady` says that a succeeded image that was downloaded once is complete, if there is one image. For several images the code does not guarantee
  it (section 5); the lemma `SucceededImageIsReady` says what it needs (`RemovalsApart`: removals of different images do not overlap).
* **`SwSectionProofs`**: `ImageArrives`, `NeverOutOfBuffer`, `AckNumbersAgree`, `RetryKeepsPrefix`. The inductive invariant `IInv` relates the
  position (`nextSec`, `nextWin`) to the window size, says what the window under way contains (`WindowData`), that at
  the end of a window exactly its sections were sent (`AtWindowEnd`), and that `flash` is the prefix of the file up to the windows the ONU has
  acknowledged (`Prefix`). It rests on lemmas on `CeilDiv` and on sequences of consecutive offsets.
* **`OnuUpgradeProofs`**: all five properties of the upgrade, for any number of windows, repetitions and disturbances, on top of `ShapeHolds` (what the records, events, requests and answers are).
  * `ResetNeverStops` (`ResetGoesOn`): for every reset state, an event that the state takes waits for the FSM or a routine ends with one. The proof goes through all events and shows that none of them takes away the last.
  * `OpenDownloadIsEnded` (`EndIsTried`): nobody forgets to end an open download; if the ONU reboots or the sending of the abort itself fails nothing ends it (section 5). `EndInv` adds that, while an end is due, `isEndSwDlOpen` is set and neither the routines that wait for the end nor their events exist, and that none of them exists before
    `StartSwDl` is sent.
  * `OnlyRunningIsCommitted` (`CommitRunning`): `RunInv` adds that the device handler's view of the active image is right, or empty, once the ONU has shown an image since its restart, and that no request survives a reboot.
  * `OnlyValidIsActivated` (`ActivateVerified`) and `RememberedIsTrue` (`LastStatesTrue`): `ImageInv` and `CommitInv` follow the knowledge from the ONU's answer in the queue over the waiting event to the reported
    state. A start of a new download, the only thing that makes the image invalid, excludes each of them.
* **`MibSyncProofs`**: five of the six safety properties of the synchronisation (three of them for an ONU that stays up), for any number of commands, disturbances and audits and every size of the counter. The inductive invariant is built in layers, each
  of which uses the ones below it:
  * `ImageInv`: the shape of the channels and records, and `ImageTokens`, which follows the request for each software image from the OMCI channel over `CommChan` to the event the answer stands for.
    `HandleSwImageIndications` is right only if it is called once for each image; this gives `ImagesAreDistinct` without further layers.
  * `Frame`: which callback waits in which state. `Wire`: in a run that began with empty channels there is one thing that makes it go on, a request or its answer, an event that was posted, or a callback,
    and it is the one of the FSM's state (`OneThing`). So no answer of an earlier run or of another state is taken for the one that is waited for, as long as no answer is repeated.
  * `Upload`: a command is asked for only when all before it are stored. Result: `UploadIsComplete` (`UploadComplete`).
  * `Life`: what the device handler knows and whether other FSMs run, state by state. Result: `ResetIsReprovisioned` (`Reprovisioned`).
  * `Match`: the relation of the two counters, also while a reset that the ONU has executed is still unanswered, and while a configuration request is counted by one side only. Result: `CountersAgree` (`InSyncSound`).
  * `Audit`: what the first audit has seen, until the second. Result: `AuditIsSound` (`AuditSound`).

  `UploadIsComplete` and `ImagesAreDistinct` have no premise. `SoundWhileUp` is `Reprovisioned`, `InSyncSound` and `AuditSound` for an ONU that stays up (`"down" \notin Kinds`). With losses of the ONU the three are lemmas
  (`ResetIsReprovisioned`, `CountersAgree`, `AuditIsSound`) under the premise `EndedWithTheOnu`: while the ONU is lost nobody waits for flows, and the FSM is disabled or was caught before the MIB was there. The code does not guarantee
  the premise: in `ExaminingMdsSuccess` the FSM does not take the stop event, survives the loss, and goes on to `InSync` (section 5). So for an ONU that goes down and up again the three are model-checked (run `mibsync`), where no violation was found, and not proved.
* **`AlarmManagerProofs`**: `FirstLifeAuditsAreNeeded` (`NoNeedlessAudit`, an action property) and `FirstLifeInStep` (`InStep`), for the first life of the alarm manager (`MaxLife = 1`, the instance of the run). The core is `Numbers`: the ONU's sequence number is ahead of the adapter's by what was not applied and what
  is on its way, over the wrap of the numbers and over an audit, which sets the adapter's number anew. `Noticed`, `Tables`, `Audited` and `Reported` add what the bit map, the two copies of an audit and the last notification on the way
  of each entity say of the ONU's alarms. What they need of earlier lives is in two premises:
  * `StopTaken`: a stop is handled before the next start. `FirstLifeIsClean` proves it for a first life. For later lives the code does not guarantee it: a late stop disables the FSM in the middle of the next life (section 5), and TLC violates `NoNeedlessAudit`.
    So for later lives the two results remain lemmas (`AuditsAreNeeded`, `AlarmsInStep`) under this premise.
  * `FewOnTheWay`: at most `SeqMax` notifications are on the way at once (255 in the code). One more can arrive in an order that the numbers do not tell from the right one, and TLC violates `InStep`. It is the premise of `FirstLifeInStep`.
* **`AniConfigProofs`**: `ResettingIsTakenBack` (`ResettingEnds`), for any number of requests, GEM ports and losses of the ONU. The flag is a member of a record that enter callbacks, requests and the cancellation all write; the proof
  adds that an event of the request is fired only where its goroutine waits for one (`OneOwnEvent`).

Only model-checked:

* `NoDanglingGem`, `DoneIsConfigured` (`AniConfig`), `AddOkIsConfigured` and the refinement `ImplementsFlowTable` (`VlanConfig`): answers are matched by class and instance, so TLC violates `NoDanglingGem` with
  two disturbances; the others rest on the same matching and are not expected to hold for every number of them. What the runs show is that one disturbance at any moment does no harm.
* `GiveUpIsReported` (`MibSync`): it holds for every pair of disturbances at every pair of moments, and TLC violates it with four (section 5), so there is no theorem to prove.
* `TypeOK` of `VlanConfig`: its bounds on the channel and on the requests need that worker, callback and cancellation exclude each other, which is most of a proof of the module.
* Everything temporal (`Answered`, `SyncEnds`, `AuditEnds`, `StopEnds`, `RequestEnds`, `FsmSettles`), since the prover has neither fairness nor `ENABLED`.

## 5. Known weaknesses that the models show

Stated as violation runs: the two above. Seven further statements of the modules are what a comment or a check of the code says and the code does not do. They are not part of a run;
TLC finds each violated under the constants given here (others as in the run of the module), the first in two minutes and the others in a few seconds:

| Statement | Constants | What the trace shows |
|---|---|---|
| `OnuUpgrade!CommitActive` | `MaxDisturb = 3`, `Kinds = {"down", "request"}` | The ONU restarted, fell back to its old image and has not shown its images. `enterCommitSw` (`omci_onu_upgrade.go:1067-1087`) still takes the new one for the active one and commits it. |
| `MibSync!SearchEnds` | `NCmds = 2`, `MaxDisturb = 1`, `Kinds = {"down"}`, no configuration, no audit | An upload aborted by the loss of the ONU leaves `mutexMibTemplateGenerated` and `MeDbLock` locked (`mib_sync.go:389-392`, `882-884`). The next search for a template, of any ONU of the adapter in the case of the former, waits for good inside of its event; so does the stop event of the next loss. |
| `MibSync!AskedInTurn` | `NCmds = 3`, `MaxDisturb = 1`, `Kinds = {"repeat"}`, no configuration, no audit | A repeated answer (`omci_cc.go:5111-5114`) is counted for a command that was not received (`mib_sync.go:863`), and the commands after it are asked for without waiting for an answer. |
| `VlanConfig!FsmSettlesAlways` | `MaxFlow = 2`, `MaxDisturb = 1`, `Kinds = {"sendErr"}` | The second rule's filter cannot be sent, and the enter callback fires an event at its own FSM (`omci_vlan_config.go:1555`, also `1666`, `1714`), which blocks for ever. The comment at `1573` says "Can't call FSM Event directly". |
| `VlanConfig!RemovalGoesOn` | `MaxFlow = 2`, `MaxDisturb = 1`, `Kinds = {"late"}` | The ANI FSM gives up its wait for a removal (`omci_ani_config.go:1047-1066`), enters the next state and waits again (`982`): it asks for `mutexFlowParams`, which the VLAN FSM holds while it waits for a receiver on `flowDeleteChannel` (`omci_vlan_config.go:1857`). Both hang. |
| `VlanConfig!CancelEnds` | `MaxFlow = 1`, `MaxTp = 1`, `MaxDisturb = 2`, `Kinds = {"down", "lost"}` | The timer of a request ends between the look at `isAwaitingResponse` and the send of `false` (`omci_vlan_config.go:377`): nobody receives it, and `resetFsms` of the lost ONU hangs. |
| `VlanConfig!EntryTakenOut` | `InnerOf <- MCInnerOfDouble`, `MaxFlow = 2`, `MaxTp = 1`, `MaxDisturb = 0` | A rule for frames with two tags is written with another filter than it is deleted with; the entry is still on the ONU after the deletion was answered with success. |

Further ones, found with the models or while translating:

* `omci_cc.go:442`: `ReceiveMessage` returns with `mutexRxSchedMap` locked after a response that cannot be decoded; no request is answered from then on.
* `omci_cc.go:5130,5156`: the device handler is read after the deletion has set it to nil.
* `file_download_manager.go:302`: a send on an unbuffered channel with the manager's mutex locked, to a routine that may have timed out.
* `omci_onu_upgrade.go:1946`: two goroutines receive from `chOnuDlReady`, which is sent to once; the supervision of a download that succeeded may abort the upgrade.
* `omci_onu_upgrade.go:600`: a cancellation can block on a channel nobody reads, and the upgrade goes on.
* `onu_device_entry.go:361`: the stop event is not accepted in `ExaminingMdsSuccess`: the FSM survives the ONU's going down and refuses the next start.
  If reconciling ends meanwhile, the FSM goes on to `InSync` while the ONU is lost.
* `device_handler.go:4970`: `StartReconciling` and `stopReconciling` of two causes exchange results over unbuffered channels.
* `omci_cc.go:679-687`: `sendQueuedLowPrioRequests` returns with `mutexLowPrioTxQueue` locked when the device is being deleted.
* `omci_cc.go:797`: a low priority request may get the identifier 0x8000, the first of the high priority ones.
* `omci_cc.go:5113`: after a retransmission an answer to the first transmission and one to the second are both posted.
* `omci_cc.go:582`: `ReleaseTid` changes the counter without its lock; `594-622`: `Send` overwrites an entry of `rxSchedulerMap` before
  it finds the identifier in use.
* `omci_test_request.go:171-179` waits for a channel with `mutexMonReq` read-locked.
* `file_download_manager.go:338,378`: the result of `req.WithContext` is dropped, so a cancelled download runs on, and may mark or truncate
  the image of its successor; `436-462`: `removeImage` filters a slice in place under a read lock, and writes back the list it has read, with the descriptor of a file that the removal of another image has deleted.
* `omci_onu_upgrade.go:579`: `CancelProcessing` sends on the channel of a waiting routine that may have ended.
* `omci_onu_upgrade.go:53`: attempts are counted over the whole download, not per window; `1461`: a window size of 255 would overflow.
* `omci_onu_upgrade.go:2017-2023`: a conditional cancellation from `WaitForActivate`, `CommitSw` or `CheckCommitted` reports "download failed" for
  an image that is complete on the ONU (the comment says that this cannot be).
* `omci_onu_upgrade.go:938-941`: between sending `EndSwDl` and clearing `isEndSwDlOpen` an abort sends a second one, which the comment wants to avoid.
* `omci_onu_upgrade.go:1186-1194`: when the abort cannot be sent the FSM goes on to its end and leaves the download open on the ONU (excused by `EndIsTried`).
* `omci_onu_upgrade.go:1252`: `enterRestarting` sends to `CommChan` inside of an event. With two answers buffered and a message loop that waits for
  the FSM's mutex this is a deadlock. Go's mutex does not starve a waiter that long, so `ResetGoesOn` stops at `Restarting`.
* `omci_onu_upgrade.go:1600,1609,1632`: the message loop blocks on `chReceiveAbortEndSwDlResponse` if the wait timed out before.
* `device_handler.go:1912,1982`: between the check for a running upgrade FSM and the creation of a new one the lock is released.
* `mib_sync.go:656-659`: a timeout ends the message processor and leaves `mibSyncMsgProcessorRunning` set. The next ONU down then posts an abort nobody
  reads; the processor of the next start takes it and stops the new synchronisation. `device_handler.go:2702` says that no conflict should arise.
* `mib_sync.go:1698`: with two messages left in `CommChan` and no reader, `CancelProcessing` blocks forever with the flag's lock.
* `CommChan` is never emptied. A late `MibUploadNext` response of an earlier run may be counted for the new one, or reach
  `createAndPersistMibTemplate` (`mib_sync.go:1354`) before a database exists, which is a nil dereference. Hence `dev.clean` in the properties.
* `mib_sync.go:137,410,759,864`: send errors of reset, upload and upload-next are dropped, so the FSM waits for nothing. `769`: an empty MIB
  leads to `Starting` with a second processor (see the next item). `856`: after an undecodable frame nothing goes on. In all three cases synchronisation never ends, with the
  FSM in a state that blocks the audits (`used.ignored` in `SyncEnds`).
* `mib_sync.go:769`: after an empty MIB two message processors read `CommChan`, and the loss of the ONU ends one of them. In the next life a timeout ends one and posts the stop event; the other takes the late answer and
  completes the upload, MibDatabaseSync clears `raiseMibUploadFailureEvent`, and then the stop disables the FSM without a report (`GiveUpIsReported`, with four disturbances).
* `mib_sync.go:130-134`: a MIB reset while reconciling with OMCI is under way, after MibDatabaseSync was sent, does not set `devState` back: the ONU ends in sync
  without configuration (`dev.midway`).
* `mib_sync.go:121`: on the path of an ONU that is known already `raiseMibUploadFailureEvent` is set and cleared only by a cancellation or a MibDatabaseSync, so a
  later stop is reported as a failed upload.
* `device_handler.go:1195-1199`: profiles without flows end in the expiry of the wait for flows and a MIB reset of a healthy ONU.
* `mib_sync.go:99`: `fsmMsg` is shared by all ONUs. `mib_sync.go:405`: the search for a template may run in the message processor and sends its result to `CommChan` inside of the event. With two repeated answers in the channel the processor waits
  for itself (`SelfBlocked` in `SyncEnds`).
* `alarm_manager.go:249`: the event `Failure` in `Auditing` leads back to `Auditing`, which calls no callback: after a failure to send, or a missing answer, the FSM stays
  there (`hist.stuck` in `AuditEnds`). Entities that the MIB does not have get no alarm.
* `alarm_manager.go:560-568`: a start that finds the FSM in use leaves it alone, also when the stop of the earlier life still waits for a callback that is blocked (`alarm_manager.go:297,869`). That stop
  then disables the FSM in the middle of the new life. A notification that comes afterwards is counted from the old number and asks for an audit without a reason.
* `alarm_manager.go:626`: numbers tell notifications apart only as long as no more than 255 are under way; a full round that is out of order goes unnoticed.
* `omci_ani_config.go:1422-1441`, and the same in the VLAN FSM: an answer is recognised by class and instance of the last request, not by its identifier, and `CommChan` is never emptied. An answer left
  over from before a loss of the ONU counts for the same request of the next run.
* `omci_ani_config.go:186`, `onu_uni_tp.go:323`: the ANI FSM keeps the instance of the profile it was made with. After a download that the loss of the ONU cut short, the download
  of another instance configures the GEM ports of the first and reports success; the comment at `onu_uni_tp.go:218` is "Create or start FSM directly with tech profile data".
* `omci_ani_config.go:314`: `CancelProcessing` sends false to a goroutine whose timer may have ended its wait, and blocks; `376`: a configuration that was cleared meanwhile is a nil dereference.
* `onu_device_entry.go:767,791`: the retry of a download that failed finds the path stored and is answered with success. `onu_uni_tp.go:364,433`: `mapRemoveGemEntry` is kept from one removal to the next.
* `omci_vlan_config.go:1193-1206,1417-1429,649-660` against `device_handler.go:4241`: the check that the profile is not done and the note to wait for it are not atomic with the profile's becoming done. A rule that
  loses this race waits until its flow request ends (a wake-up that is lost).
* `omci_vlan_config.go:249`: `VlanEvReset` is not taken in `IncrFlowWaitTP`, although the comment says "for all states except VlanStResetting" (`hist.ignored` in `AddOkIsConfigured`).
* The states that the VLAN FSM does not leave are `Silent` and `Stuck` in `VlanConfig`: an event fired at itself, a wait for an addition that has given up, and the signal to an ANI FSM that does not wait (table above). `FsmSettles` says that there are no others.
* `omci_vlan_config.go:469,742`: a suspended addition keeps a pointer into `uniRemoveFlowsSlice`, which may be another element when its timer clears the flag. A removal whose
  flag was set then waits for an addition that has given up. `1851` against `776-789`: the same for the cookie.
* `omci_vlan_config.go:976-999`: a removal in `WaitingTechProf` gets its answer only by the end of its context; `1019`: a removal in another state than
  `ConfigDone` is answered with success before it is done; `1111`: `updateTechProfileToDelete` counts the rule that is being removed; `561`: a retry while the FSM resets is refused or, for a known rule, answered with success
  although the FSM is about to be thrown away; `1676`: rules of one profile share a filter entity, which goes with the first of them.
* `omci_vlan_config.go:3264`: `createTrafficDescriptor` returns the wrong error variable, so a failure to send is taken for success.
* `device_handler.go:5378` forwards a response to a channel whose reader (`738,823`) may have left with its context.
* `openonu.go:351-442`: a failed step of `DeleteDevice` leaves `deletionInProgress` set, or reset after the context was cancelled.

## 6. Plan

In the order of importance:

1. Proofs: `TypeOK` of `VlanConfig`; the three properties of `SoundWhileUp` for an ONU that is lost, without a premise; what follows from `FlowTable` alone (a rule that the ONU has and nobody knows stems
   from giving up).
2. `MibDownload` with the UNI lock and unlock FSM: the default MEs and their supervision; `MibTemplate`: several ONUs with one template map.
3. `DeviceLifecycle`: indications, `resetFsms` over all FSMs, the reconcile watcher and its channels, the device state and its reasons, deletion.
4. `PmManager`, self test: collection and timers.

## 7. Not modelled

HTTP, the KV store's transport, gRPC and Kafka; encoding of OMCI frames (`github.com/opencord/omci-lib-go`); logging, tracing and metrics
export; the configuration flags; the older upgrade API (`useAPIVersion43 = false`), which activates without a check of the image (`omci_onu_upgrade.go:1003-1014`), and its download manager; time: a timer may expire at
any moment after it was started. Also left out: the replay of profiles and flows during a reconciliation (`AniConfig`, `VlanConfig`), several UNIs and several profile ids that
share T-CONTs, the scheduling and queue attributes of GEM ports, priority bits of rules, performance monitoring, the MIB download and the self test. `runSwDlSectionWindow` keeps `mutexTid` locked for a whole window, which delays other requests but changes no result in these models.
