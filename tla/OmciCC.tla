------------------------------- MODULE OmciCC -------------------------------
(***************************************************************************)
(* The OMCI communication channel of one ONU (internal/pkg/common/         *)
(* omci_cc.go): the two transmit queues and the goroutines that drain      *)
(* them, one supervising goroutine per request with its timer and its      *)
(* retransmissions, the receive handler that hands a response to its       *)
(* requester by transaction identifier, and the cancellation of both when  *)
(* the ONU goes down or the device is deleted.                             *)
(*                                                                         *)
(* A request is one call of Send (or of                                    *)
(* SendOnuSwSectionsWindowWithRxSupervision, for a window of a software    *)
(* download).  The frame bytes are abstracted to the request itself; its   *)
(* transaction identifier is TidOf[r], which the module OmciTid allocates. *)
(* The OLT adapter, the PON and the ONU are the network: a frame sent to   *)
(* them is answered once (a self test twice), or never (a lost frame or    *)
(* answer is one that stays in net for ever).                              *)
(***************************************************************************)
EXTENDS Integers, Sequences, FiniteSets

CONSTANTS
  Requests,     \* the requests the clients (FSMs, managers) ever issue
  HighPrio,     \* the requests sent with highPrio = true
  NoResponse,   \* the requests sent with timeout 0: fire and forget
  Verify,       \* the requests of an OmciTestRequest (ReceiveOmciVerifyResponse)
  SelfTest,     \* the requests answered twice: TestResponse, then TestResult
  Window,       \* the requests that carry a window of software sections
  Tids,         \* the transaction identifiers
  TidOf,        \* the identifier each request was given
  None,         \* no request: an absent map entry, a free lock
  Retries,      \* the retry argument of Send, per request
  ChanCap,      \* the capacity of a client's response channel
  MayDelete,    \* whether DeleteDevice may be called
  MayGarble     \* whether the ONU may send frames that cannot be decoded, or
                \* autonomous messages with a transaction identifier

ASSUME ConstantsAssumption ==
  /\ IsFiniteSet(Requests)
  /\ HighPrio \subseteq Requests /\ NoResponse \subseteq Requests
  /\ Verify \subseteq Requests /\ Window \subseteq Requests
  /\ NoResponse \cap (Verify \cup Window) = {}
  /\ Window \cap (Verify \cup HighPrio) = {}
  /\ SelfTest \subseteq Requests \ (NoResponse \cup Verify \cup Window)
  /\ TidOf \in [Requests -> Tids]
  /\ None \notin Requests
  /\ Retries \in [Requests -> Nat] /\ ChanCap \in Nat \ {0}
  /\ MayDelete \in BOOLEAN /\ MayGarble \in BOOLEAN

VARIABLES
  highPrioTxQueue,    \* the requests waiting for transmission,
  lowPrioTxQueue,     \*   a retransmission is queued again
  rxSchedulerMap,     \* tid -> the request whose callback is registered
  monitoredRequests,  \* tid -> the request whose chSuccess is registered
  sup,                \* where the supervising goroutine of a request stands
  retryCounter,       \* its local loop counter
  drains,             \* goroutines sendQueuedRequests that have not begun
  dpc,                \* where the one holding mutexSendQueuedRequests stands
  mutexMonReq,        \* the Send that holds mutexMonReq while it enqueues
  leftLocked,         \* the mutexes that a return left locked for ever
  net,                \* request frames the ONU may still answer, per request
  cb,                 \* callback goroutines that have not signalled yet
  vwait,              \* verify callbacks blocked on chSuccess under RLock
  chan,               \* the client's response channel: what is buffered, then
                      \*   the values of the goroutines blocked in a send
  del,                \* progress of DeleteDevice
  panicked,           \* the goroutines that dereferenced the nil handler
  sent,               \* history: transmissions of each request
  overtaken,          \* history: low priority frames sent while it waited
  failed,             \* the request whose low priority transmission failed
  heard               \* history: the requests whose client learnt the end

queueVars == <<highPrioTxQueue, lowPrioTxQueue>>
rxVars    == <<rxSchedulerMap, leftLocked>>
monVars   == <<monitoredRequests, mutexMonReq, vwait>>
supVars   == <<sup, retryCounter>>
drainVars == <<drains, dpc, failed>>
histVars  == <<sent, overtaken>>
cliVars   == <<chan, heard>>
devVars   == <<del, panicked>>

vars == <<queueVars, rxVars, monVars, supVars, drainVars, net, cb,
          cliVars, devVars, histVars>>

-----------------------------------------------------------------------------
(***************************************************************************)
(* Types.  A supervisor is spawned by Send, registers the request, then    *)
(* loops through push, register and waiting until it leaves.               *)
(***************************************************************************)
SupStates == {"idle", "refused", "holdMon", "spawned", "push",
              "register", "waiting", "leave", "done"}

DrainStates == {"idle", "high", "lowEnter", "low", "lowFailed", "again",
                "lowRelock"}

Answers == {"response", "timeout"}

TypeOK ==
  /\ highPrioTxQueue \in Seq(Requests)
  /\ lowPrioTxQueue \in Seq(Requests)
  /\ rxSchedulerMap \in [Tids -> Requests \cup {None}]
  /\ monitoredRequests \in [Tids -> Requests \cup {None}]
  /\ sup \in [Requests -> SupStates]
  /\ retryCounter \in [Requests -> Nat]
  /\ drains \in Nat
  /\ dpc \in DrainStates /\ failed \in Requests \cup {None}
  /\ mutexMonReq \in Requests \cup {None}
  /\ leftLocked \subseteq {"mutexRxSchedMap", "mutexLowPrioTxQueue"}
  /\ net \in [Requests -> Nat]
  /\ cb \in [Requests -> Nat] /\ vwait \in [Requests -> Nat]
  /\ chan \in [Requests -> Seq(Answers)]
  /\ del \in {"none", "flag", "cancelled", "nil"}
  /\ panicked \subseteq {"supervisor", "drain"}
  /\ sent \in [Requests -> Nat] /\ overtaken \in [Requests -> Nat]
  /\ heard \subseteq Requests

Init ==
  /\ highPrioTxQueue = <<>> /\ lowPrioTxQueue = <<>>
  /\ rxSchedulerMap = [t \in Tids |-> None]
  /\ monitoredRequests = [t \in Tids |-> None]
  /\ sup = [r \in Requests |-> "idle"]
  /\ retryCounter = [r \in Requests |-> 0]
  /\ drains = 0 /\ dpc = "idle" /\ failed = None
  /\ mutexMonReq = None /\ leftLocked = {}
  /\ net = [r \in Requests |-> 0]
  /\ cb = [r \in Requests |-> 0]
  /\ vwait = [r \in Requests |-> 0]
  /\ chan = [r \in Requests |-> <<>>]
  /\ del = "none" /\ panicked = {}
  /\ sent = [r \in Requests |-> 0] /\ overtaken = [r \in Requests |-> 0]
  /\ heard = {}

-----------------------------------------------------------------------------
(***************************************************************************)
(* Locks.  mutexMonReq is a read-write lock: Send, the registration and    *)
(* the removal of a request write, the callbacks and                       *)
(* CancelRequestMonitoring read.  A queue's lock is held by the drain      *)
(* while it walks that queue, the call to the OLT adapter included.        *)
(***************************************************************************)
MonReadable == mutexMonReq = None
MonWritable == mutexMonReq = None /\ \A r \in Requests : vwait[r] = 0

RxFree  == "mutexRxSchedMap" \notin leftLocked
LowFree == "mutexLowPrioTxQueue" \notin leftLocked

HighQueueFree == dpc \notin {"high", "again"}
LowQueueFree  == LowFree /\ dpc # "low"

QueueFree(r) == IF r \in HighPrio THEN HighQueueFree ELSE LowQueueFree

DeletionInProgress == del # "none"
CtxDone            == del \in {"cancelled", "nil"}
HandlerNil         == del = "nil"

Queued(q) == {q[i] : i \in DOMAIN q}

\* PushBack on the queue of the request's priority.  The history counter
\* of a high priority request starts at zero when it begins to wait.
Enqueue(r) ==
  IF r \in HighPrio
  THEN /\ highPrioTxQueue' = Append(highPrioTxQueue, r)
       /\ overtaken' = IF r \in Queued(highPrioTxQueue) THEN overtaken
                       ELSE [overtaken EXCEPT ![r] = 0]
       /\ UNCHANGED lowPrioTxQueue
  ELSE /\ lowPrioTxQueue' = Append(lowPrioTxQueue, r)
       /\ UNCHANGED <<highPrioTxQueue, overtaken>>

-----------------------------------------------------------------------------
(***************************************************************************)
(* Clients                                                                 *)
(***************************************************************************)
\* Send: register the callback if a response is expected, refuse a request
\* whose identifier is monitored, otherwise start the supervision in the
\* background.  A fire-and-forget request is enqueued by the caller itself,
\* which keeps mutexMonReq locked until the queue's lock is free.
Send(r) ==
  /\ sup[r] = "idle" /\ r \notin Window
  /\ r \in NoResponse \/ RxFree
  /\ MonWritable
  /\ rxSchedulerMap' = IF r \in NoResponse THEN rxSchedulerMap
                       ELSE [rxSchedulerMap EXCEPT ![TidOf[r]] = r]
  /\ \/ /\ monitoredRequests[TidOf[r]] # None
        /\ sup' = [sup EXCEPT ![r] = "refused"]
        /\ UNCHANGED mutexMonReq
     \/ /\ monitoredRequests[TidOf[r]] = None
        /\ r \in NoResponse
        /\ sup' = [sup EXCEPT ![r] = "holdMon"]
        /\ mutexMonReq' = r
     \/ /\ monitoredRequests[TidOf[r]] = None
        /\ r \notin NoResponse
        /\ sup' = [sup EXCEPT ![r] = "spawned"]
        /\ UNCHANGED mutexMonReq
  /\ UNCHANGED <<queueVars, leftLocked, monitoredRequests, vwait, retryCounter,
                 drainVars, net, cb, cliVars, devVars, histVars>>

\* SendOnuSwSectionsWindowWithRxSupervision registers the callback without
\* looking for a monitored request; the caller is its own supervisor.
SendWindow(r) ==
  /\ sup[r] = "idle" /\ r \in Window
  /\ RxFree
  /\ rxSchedulerMap' = [rxSchedulerMap EXCEPT ![TidOf[r]] = r]
  /\ sup' = [sup EXCEPT ![r] = "spawned"]
  /\ UNCHANGED <<queueVars, leftLocked, monVars, retryCounter, drainVars, net,
                 cb, cliVars, devVars, histVars>>

\* The rest of Send for a request without response: enqueue, unlock, drain.
PushNoResponse(r) ==
  /\ sup[r] = "holdMon"
  /\ QueueFree(r)
  /\ Enqueue(r)
  /\ mutexMonReq' = None
  /\ sup' = [sup EXCEPT ![r] = "done"]
  /\ drains' = drains + 1
  /\ UNCHANGED <<rxVars, monitoredRequests, vwait, retryCounter,
                 dpc, failed, net, cb, cliVars, devVars, sent>>

\* The client takes the next message from its channel.
ClientRead(r) ==
  /\ chan[r] # <<>>
  /\ heard' = heard \cup {r}
  /\ chan' = [chan EXCEPT ![r] = Tail(@)]
  /\ UNCHANGED <<queueVars, rxVars, monVars, supVars, drainVars, net, cb,
                 devVars, histVars>>

-----------------------------------------------------------------------------
(***************************************************************************)
(* The supervising goroutine (sendWithRxSupervision, and the loop of       *)
(* SendOnuSwSectionsWindowWithRxSupervision)                               *)
(***************************************************************************)
\* The loop head gives up when the handler is nil or is being deleted; a
\* window has no such test.
LoopHead(r) ==
  IF DeletionInProgress /\ r \notin Window
  THEN /\ sup' = [sup EXCEPT ![r] = "leave"]
       /\ heard' = heard \cup {r}
  ELSE /\ sup' = [sup EXCEPT ![r] = "push"]
       /\ UNCHANGED heard

SupRegister(r) ==
  /\ sup[r] = "spawned"
  /\ MonWritable
  /\ monitoredRequests' = [monitoredRequests EXCEPT ![TidOf[r]] = r]
  /\ retryCounter' = [retryCounter EXCEPT ![r] = 0]
  /\ LoopHead(r)
  /\ UNCHANGED <<queueVars, rxVars, mutexMonReq, vwait, drainVars, net, cb,
                 chan, devVars, histVars>>

SupPush(r) ==
  /\ sup[r] = "push"
  /\ QueueFree(r)
  /\ Enqueue(r)
  /\ sup' = [sup EXCEPT ![r] = "register"]
  /\ UNCHANGED <<rxVars, monVars, retryCounter, drainVars, net,
                 cb, cliVars, devVars, sent>>

\* Register the callback again, start a drain, and enter the select, which
\* evaluates the device context of the handler.
SupSelect(r) ==
  /\ sup[r] = "register"
  /\ RxFree
  /\ rxSchedulerMap' = [rxSchedulerMap EXCEPT ![TidOf[r]] = r]
  /\ drains' = drains + 1
  /\ sup' = [sup EXCEPT ![r] = "waiting"]
  /\ panicked' = IF HandlerNil THEN panicked \cup {"supervisor"} ELSE panicked
  /\ UNCHANGED <<queueVars, leftLocked, monVars, retryCounter, dpc, failed, net,
                 cb, cliVars, del, histVars>>

\* (variant: one retry too many)
SupRetryTooOften(r) ==
  /\ sup[r] = "waiting"
  /\ retryCounter[r] <= Retries[r]
  /\ retryCounter' = [retryCounter EXCEPT ![r] = @ + 1]
  /\ LoopHead(r)
  /\ UNCHANGED <<queueVars, rxVars, monVars, drainVars, net, cb, chan,
                 devVars, histVars>>

\* The timer fires before the last attempt: count the retry and loop.
SupRetry(r) ==
  /\ sup[r] = "waiting"
  /\ retryCounter[r] < Retries[r]
  /\ retryCounter' = [retryCounter EXCEPT ![r] = @ + 1]
  /\ LoopHead(r)
  /\ UNCHANGED <<queueVars, rxVars, monVars, drainVars, net, cb, chan,
                 devVars, histVars>>

\* (variant: the timeout is not posted)
SupGiveUpSilently(r) ==
  /\ sup[r] = "waiting"
  /\ retryCounter[r] = Retries[r]
  /\ sup' = [sup EXCEPT ![r] = "leave"]
  /\ UNCHANGED <<queueVars, rxVars, monVars, retryCounter, drainVars, net,
                 cb, cliVars, devVars, histVars>>

\* (variant: returns from the loop instead of breaking it)
SupGiveUpReturns(r) ==
  /\ sup[r] = "waiting"
  /\ retryCounter[r] = Retries[r]
  /\ sup' = [sup EXCEPT ![r] = "done"]
  /\ chan' = IF r \notin Verify \cup Window /\ Len(chan[r]) < ChanCap
             THEN [chan EXCEPT ![r] = Append(@, "timeout")] ELSE chan
  /\ heard' = IF r \in Window
              THEN heard \cup {r} ELSE heard
  /\ panicked' = IF HandlerNil THEN panicked \cup {"supervisor"} ELSE panicked
  /\ UNCHANGED <<queueVars, rxVars, monVars, retryCounter, drainVars, net,
                 cb, del, histVars>>

\* The timer fires on the last attempt.  The timeout is posted without
\* blocking, so a full channel loses it, and the nil channel of a Verify
\* request always does; a window returns it to its caller.
SupGiveUp(r) ==
  /\ sup[r] = "waiting"
  /\ retryCounter[r] = Retries[r]
  /\ sup' = [sup EXCEPT ![r] = "leave"]
  /\ chan' = IF r \notin Verify \cup Window /\ Len(chan[r]) < ChanCap
             THEN [chan EXCEPT ![r] = Append(@, "timeout")] ELSE chan
  /\ heard' = IF r \in Window
              THEN heard \cup {r} ELSE heard
  /\ panicked' = IF HandlerNil THEN panicked \cup {"supervisor"} ELSE panicked
  /\ UNCHANGED <<queueVars, rxVars, monVars, retryCounter, drainVars, net,
                 cb, del, histVars>>

\* The device context is cancelled.
SupCtxDone(r) ==
  /\ sup[r] = "waiting"
  /\ CtxDone
  /\ sup' = [sup EXCEPT ![r] = "leave"]
  /\ heard' = heard \cup {r}
  /\ UNCHANGED <<queueVars, rxVars, monVars, retryCounter, drainVars, net,
                 cb, chan, devVars, histVars>>

\* Every way out of the loop ends with the removal of the map entry.
SupLeave(r) ==
  /\ sup[r] = "leave"
  /\ MonWritable
  /\ monitoredRequests' = [monitoredRequests EXCEPT ![TidOf[r]] = None]
  /\ sup' = [sup EXCEPT ![r] = "done"]
  /\ UNCHANGED <<queueVars, rxVars, mutexMonReq, vwait, retryCounter,
                 drainVars, net, cb, cliVars, devVars, histVars>>

-----------------------------------------------------------------------------
(***************************************************************************)
(* The drain (sendQueuedRequests).  It empties the high priority queue,    *)
(* then sends low priority frames, and empties the high priority queue     *)
(* again after each of them.  The walk over the high priority queue is     *)
(* written once, for its two call sites: walk is the state of the walk,    *)
(* with the queue locked, and after the state its normal end leads to.     *)
(* One step is one frame: the call to the OLT adapter and the dequeuing.   *)
(***************************************************************************)
\* The handler is nil or being deleted: return at once, without an error.
HighEnter(walk, after) == IF DeletionInProgress THEN after ELSE walk

DrainStart ==
  /\ drains > 0 /\ dpc = "idle"
  /\ drains' = drains - 1
  /\ dpc' = HighEnter("high", "lowEnter")
  /\ UNCHANGED <<queueVars, rxVars, monVars, supVars, failed, net, cb,
                 cliVars, devVars, histVars>>

\* sendOMCIRequest or sendOnuSwSectionsOfWindow reached the OLT adapter.
Transmit(r) ==
  /\ net' = [net EXCEPT ![r] = @ + (IF r \in SelfTest THEN 2 ELSE 1)]
  /\ sent' = [sent EXCEPT ![r] = @ + 1]

\* The loop of sendQueuedHighPrioRequests ends: the queue is empty, or the
\* context is done, which ends the whole drain with an error.  Evaluating
\* the context of a nil handler panics.
HighEnd(walk, after) ==
  /\ dpc = walk
  /\ highPrioTxQueue = <<>> \/ CtxDone
  /\ dpc' = IF highPrioTxQueue = <<>> THEN after ELSE "idle"
  /\ panicked' = IF highPrioTxQueue # <<>> /\ HandlerNil
                 THEN panicked \cup {"drain"} ELSE panicked
  /\ UNCHANGED <<queueVars, rxVars, monVars, supVars, drains, failed, net,
                 cb, cliVars, del, histVars>>

\* The front element is sent and dequeued, the queue still locked.
HighSent(walk) ==
  /\ dpc = walk
  /\ highPrioTxQueue # <<>> /\ ~CtxDone
  /\ Transmit(Head(highPrioTxQueue))
  /\ highPrioTxQueue' = Tail(highPrioTxQueue)
  /\ UNCHANGED <<lowPrioTxQueue, rxVars, monVars, supVars, drainVars,
                 cb, cliVars, devVars, overtaken>>

\* The call failed: the element is dequeued all the same, its callback is
\* unregistered and the drain ends with the error.
HighFailed(walk) ==
  /\ dpc = walk
  /\ highPrioTxQueue # <<>> /\ ~CtxDone
  /\ RxFree
  /\ dpc' = "idle"
  /\ rxSchedulerMap' = [rxSchedulerMap EXCEPT ![TidOf[Head(highPrioTxQueue)]] = None]
  /\ highPrioTxQueue' = Tail(highPrioTxQueue)
  /\ UNCHANGED <<lowPrioTxQueue, leftLocked, monVars, supVars, drains,
                 failed, net, cb, cliVars, devVars, histVars>>

\* sendQueuedLowPrioRequests locks its queue and returns from the test of
\* the deletion without unlocking it.
LowEnter ==
  /\ dpc = "lowEnter"
  /\ LowFree
  /\ dpc' = IF DeletionInProgress THEN "idle" ELSE "low"
  /\ leftLocked' = IF DeletionInProgress
                   THEN leftLocked \cup {"mutexLowPrioTxQueue"} ELSE leftLocked
  /\ UNCHANGED <<highPrioTxQueue, lowPrioTxQueue, rxSchedulerMap, monVars, supVars,
                 drains, failed, net, cb, cliVars, devVars, histVars>>

LowEnd ==
  /\ dpc = "low"
  /\ lowPrioTxQueue = <<>> \/ CtxDone
  /\ dpc' = "idle"
  /\ panicked' = IF lowPrioTxQueue # <<>> /\ HandlerNil
                 THEN panicked \cup {"drain"} ELSE panicked
  /\ UNCHANGED <<queueVars, rxVars, monVars, supVars, drains, failed, net,
                 cb, cliVars, del, histVars>>

\* (variant: no interruption after a low priority frame)
LowSentUninterrupted ==
  /\ dpc = "low"
  /\ lowPrioTxQueue # <<>> /\ ~CtxDone
  /\ Transmit(Head(lowPrioTxQueue))
  /\ overtaken' = [r \in Requests |-> IF r \in Queued(highPrioTxQueue)
                                      THEN overtaken[r] + 1 ELSE overtaken[r]]
  /\ lowPrioTxQueue' = Tail(lowPrioTxQueue)
  /\ UNCHANGED <<highPrioTxQueue, rxVars, monVars, supVars, drainVars,
                 cb, cliVars, devVars>>

\* The front element is sent and dequeued, the queue unlocked, and the high
\* priority queue walked again.
LowSent ==
  /\ dpc = "low"
  /\ lowPrioTxQueue # <<>> /\ ~CtxDone
  /\ dpc' = HighEnter("again", "lowRelock")
  /\ Transmit(Head(lowPrioTxQueue))
  /\ overtaken' = [r \in Requests |-> IF r \in Queued(highPrioTxQueue)
                                      THEN overtaken[r] + 1 ELSE overtaken[r]]
  /\ lowPrioTxQueue' = Tail(lowPrioTxQueue)
  /\ UNCHANGED <<highPrioTxQueue, rxVars, monVars, supVars, drains,
                 failed, cb, cliVars, devVars>>

\* (variant: a frame that could not be sent stays queued)
LowFailedKept ==
  /\ dpc = "low"
  /\ lowPrioTxQueue # <<>> /\ ~CtxDone
  /\ dpc' = "lowFailed"
  /\ failed' = Head(lowPrioTxQueue)
  /\ UNCHANGED <<queueVars, rxVars, monVars, supVars, drains,
                 net, cb, cliVars, devVars, histVars>>

\* On a failed call the queue is unlocked before the callback is removed.
LowFailed ==
  /\ dpc = "low"
  /\ lowPrioTxQueue # <<>> /\ ~CtxDone
  /\ dpc' = "lowFailed"
  /\ failed' = Head(lowPrioTxQueue)
  /\ lowPrioTxQueue' = Tail(lowPrioTxQueue)
  /\ UNCHANGED <<highPrioTxQueue, rxVars, monVars, supVars, drains,
                 net, cb, cliVars, devVars, histVars>>

LowUnregister ==
  /\ dpc = "lowFailed"
  /\ RxFree
  /\ dpc' = "idle"
  /\ failed' = None
  /\ rxSchedulerMap' = [rxSchedulerMap EXCEPT ![TidOf[failed]] = None]
  /\ UNCHANGED <<queueVars, leftLocked, monVars, supVars, drains, net, cb,
                 cliVars, devVars, histVars>>

LowRelock ==
  /\ dpc = "lowRelock"
  /\ LowFree
  /\ dpc' = "low"
  /\ UNCHANGED <<queueVars, rxVars, monVars, supVars, drains, failed, net,
                 cb, cliVars, devVars, histVars>>

Drain ==
  \/ HighEnd("high", "lowEnter") \/ HighSent("high") \/ HighFailed("high")
  \/ LowEnter \/ LowEnd \/ LowSent \/ LowFailed \/ LowUnregister
  \/ HighEnd("again", "lowRelock") \/ HighSent("again") \/ HighFailed("again")
  \/ LowRelock

-----------------------------------------------------------------------------
(***************************************************************************)
(* Reception                                                               *)
(***************************************************************************)
\* The answer to a transmitted frame of r arrives.  The callback found
\* under its identifier is started and its entry is deleted, except by a
\* TestResponse, whose TestResult is still to come; a response without an
\* entry is dropped.
ReceiveMessage(r) ==
  LET t == TidOf[r]
      e == rxSchedulerMap[t]
  IN /\ net[r] > 0
     /\ RxFree
     /\ net' = [net EXCEPT ![r] = @ - 1]
     /\ cb' = IF e # None THEN [cb EXCEPT ![e] = @ + 1] ELSE cb
     /\ \/ rxSchedulerMap' = [rxSchedulerMap EXCEPT ![t] = None]
        \/ r \in SelfTest /\ UNCHANGED rxSchedulerMap
     /\ UNCHANGED <<queueVars, leftLocked, monVars, supVars, drainVars,
                    cliVars, devVars, histVars>>

\* The same, but the message layer cannot be decoded: the callback was
\* started already, the entry stays and mutexRxSchedMap stays locked.
ReceiveGarbled(r) ==
  LET e == rxSchedulerMap[TidOf[r]]
  IN /\ MayGarble
     /\ net[r] > 0
     /\ RxFree
     /\ e # None
     /\ net' = [net EXCEPT ![r] = @ - 1]
     /\ cb' = [cb EXCEPT ![e] = @ + 1]
     /\ leftLocked' = leftLocked \cup {"mutexRxSchedMap"}
     /\ UNCHANGED <<queueVars, rxSchedulerMap, monVars, supVars, drainVars,
                    cliVars, devVars, histVars>>

\* A message that is no response, with an identifier other than 0, is
\* refused and the callback of that identifier is deleted.
ReceiveAutonomous(t) ==
  /\ MayGarble
  /\ RxFree
  /\ rxSchedulerMap' = [rxSchedulerMap EXCEPT ![t] = None]
  /\ UNCHANGED <<queueVars, leftLocked, monVars, supVars, drainVars, net, cb,
                 cliVars, devVars, histVars>>

\* receiveOmciResponse: the supervisor registered under the identifier is
\* told only if it is in its select (the send does not block), then the
\* response is sent on respChan, unless the device entry is gone.
CbSignal(r) ==
  LET m == monitoredRequests[TidOf[r]]
  IN /\ cb[r] > 0 /\ r \notin Verify
     /\ MonReadable
     /\ cb' = [cb EXCEPT ![r] = @ - 1]
     /\ chan' = IF HandlerNil THEN chan
                ELSE [chan EXCEPT ![r] = Append(@, "response")]
     /\ sup' = IF ~HandlerNil /\ m # None /\ sup[m] = "waiting"
               THEN [sup EXCEPT ![m] = "leave"] ELSE sup
     /\ UNCHANGED <<queueVars, rxVars, monVars, retryCounter, drainVars, net,
                    heard, devVars, histVars>>

\* A send that is blocked is abandoned when the context is done.
CbAbandon(r) ==
  /\ CtxDone /\ Len(chan[r]) > ChanCap
  /\ chan' = [chan EXCEPT ![r] = SubSeq(@, 1, Len(@) - 1)]
  /\ UNCHANGED <<queueVars, rxVars, monVars, supVars, drainVars, net, cb,
                 heard, devVars, histVars>>

\* ReceiveOmciVerifyResponse: with a monitored request the callback blocks
\* on its chSuccess, mutexMonReq read-locked; without, it reports at once.
CbVerify(r) ==
  /\ cb[r] > 0 /\ r \in Verify
  /\ MonReadable
  /\ cb' = [cb EXCEPT ![r] = @ - 1]
  /\ IF monitoredRequests[TidOf[r]] # None
     THEN /\ vwait' = [vwait EXCEPT ![r] = @ + 1]
          /\ UNCHANGED heard
     ELSE /\ heard' = heard \cup {r}
          /\ UNCHANGED vwait
  /\ UNCHANGED <<queueVars, rxVars, monitoredRequests, mutexMonReq, supVars,
                 drainVars, net, chan, devVars, histVars>>

\* The supervisor takes the value from chSuccess.
CbVerifyDone(r) ==
  LET m == monitoredRequests[TidOf[r]]
  IN /\ vwait[r] > 0
     /\ m # None /\ sup[m] = "waiting"
     /\ vwait' = [vwait EXCEPT ![r] = @ - 1]
     /\ sup' = [sup EXCEPT ![m] = "leave"]
     /\ heard' = heard \cup {r}
     /\ UNCHANGED <<queueVars, rxVars, monitoredRequests, mutexMonReq,
                    retryCounter, drainVars, net, cb, chan, devVars, histVars>>

-----------------------------------------------------------------------------
(***************************************************************************)
(* Cancellation and deletion                                               *)
(***************************************************************************)
\* The monitored requests whose supervisors are in their select: the only
\* ones that the non-blocking send of CancelRequestMonitoring reaches.
Cancellable == {r \in Requests : sup[r] = "waiting" /\ monitoredRequests[TidOf[r]] = r}

CancelWaiting ==
  /\ MonReadable
  /\ sup' = [r \in Requests |-> IF r \in Cancellable THEN "leave" ELSE sup[r]]
  /\ heard' = heard \cup Cancellable

\* resetFsms when the ONU goes down.
CancelRequestMonitoring ==
  /\ Cancellable # {}
  /\ CancelWaiting
  /\ UNCHANGED <<queueVars, rxVars, monVars, retryCounter, drainVars, net,
                 cb, chan, devVars, histVars>>

\* DeleteDevice: set the flag, cancel the monitoring and the context, reset
\* the FSMs, and at last PrepareForGarbageCollection sets the handler nil.
DeleteDevice ==
  /\ MayDelete /\ del = "none"
  /\ del' = "flag"
  /\ UNCHANGED <<queueVars, rxVars, monVars, supVars, drainVars, net, cb,
                 cliVars, panicked, histVars>>

DeleteCancel ==
  /\ del = "flag"
  /\ CancelWaiting
  /\ del' = "cancelled"
  /\ UNCHANGED <<queueVars, rxVars, monVars, retryCounter, drainVars, net,
                 cb, chan, panicked, histVars>>

PrepareForGarbageCollection ==
  /\ del = "cancelled"
  /\ del' = "nil"
  /\ UNCHANGED <<queueVars, rxVars, monVars, supVars, drainVars, net, cb,
                 cliVars, panicked, histVars>>

-----------------------------------------------------------------------------
Supervise(r) ==
  \/ PushNoResponse(r) \/ SupRegister(r) \/ SupPush(r)
  \/ SupSelect(r) \/ SupRetry(r) \/ SupGiveUp(r) \/ SupCtxDone(r) \/ SupLeave(r)

Respond(r) == CbSignal(r) \/ CbAbandon(r) \/ CbVerify(r) \/ CbVerifyDone(r)

Next ==
  \/ \E r \in Requests :
       \/ Send(r) \/ SendWindow(r) \/ ClientRead(r)
       \/ Supervise(r) \/ Respond(r)
       \/ ReceiveMessage(r) \/ ReceiveGarbled(r)
  \/ \E t \in Tids : ReceiveAutonomous(t)
  \/ DrainStart \/ Drain
  \/ CancelRequestMonitoring
  \/ DeleteDevice \/ DeleteCancel \/ PrepareForGarbageCollection

Spec == Init /\ [][Next]_vars

\* The Go scheduler runs every goroutine that can run, timers fire, the call
\* to the OLT adapter returns and clients read their channels.  Nothing is
\* assumed of the clients' requests, of the ONU or of the operator.
Fairness ==
  /\ \A r \in Requests : /\ WF_vars(Supervise(r))
                         /\ WF_vars(Respond(r))
                         /\ WF_vars(ClientRead(r))
  /\ WF_vars(DrainStart) /\ WF_vars(Drain)
  /\ WF_vars(DeleteCancel) /\ WF_vars(PrepareForGarbageCollection)

FairSpec == Spec /\ Fairness

-----------------------------------------------------------------------------
(***************************************************************************)
(* Safety                                                                  *)
(***************************************************************************)
\* A request reaches the OLT adapter at most once per attempt: a frame that
\* expects no response once, a supervised one at most CDefaultRetries + 1
\* times, whatever failed calls, late responses and cancellations do to the
\* queue and to the supervisor's loop.
TransmitBound ==
  \A r \in Requests : sent[r] <= (IF r \in NoResponse THEN 1 ELSE Retries[r] + 1)

\* No frame is forgotten in a queue: while the device is not being deleted,
\* a queued frame has a drain that is running, one that will start, or a
\* supervisor about to start it.  A drain that ends early on a failed call
\* leaves frames behind, which must be covered by the other drains.
NoStrandedFrame ==
  del = "none" /\ (highPrioTxQueue # <<>> \/ lowPrioTxQueue # <<>>)
    => drains > 0 \/ dpc # "idle" \/ \E r \in Requests : sup[r] = "register"

\* An identifier is monitored only while a supervisor that will free it
\* runs: Send refuses a request whose identifier is in monitoredRequests, so
\* an entry that outlived its supervisor would block the identifier for
\* ever.  Send looks the entry up in the caller's goroutine and the
\* supervisor makes it in its own, so two requests on one identifier may
\* both be admitted and remove each other's entries; a response, the last
\* timeout, a cancellation and the deletion all end the loop.
MonitoredIsSupervised ==
  \A t \in Tids :
    LET r == monitoredRequests[t] IN
    r # None => TidOf[r] = t /\ sup[r] \in {"push", "register", "waiting", "leave"}

\* A queued high priority request waits for at most one low priority frame
\* (sendQueuedLowPrioRequests interrupts itself after each frame), as long
\* as the device is not being deleted.
PriorityBound ==
  del = "none" => \A r \in Queued(highPrioTxQueue) : overtaken[r] <= 1

(***************************************************************************)
(* Liveness                                                                *)
(***************************************************************************)
\* Every supervised request comes to an end its client learns of: a
\* response, the timeout after the last retry, or the cancellation of the
\* monitoring.  A response that the supervisor misses, a failed call to the
\* OLT adapter and a full channel must not leave the client without any.
Answered ==
  \A r \in Requests \ Verify : sup[r] = "spawned" ~> r \in heard
=============================================================================
