---------------------------- MODULE OmciCCProofs ----------------------------
(***************************************************************************)
(* Theorems about OmciCC for any number of requests, any assignment of     *)
(* transaction identifiers, any number of retries and any channel size.    *)
(***************************************************************************)
EXTENDS OmciCC, TLAPS, FiniteSetTheorems

\* Counting up or down at one request keeps a function into Nat.
LEMMA IncType ==
  ASSUME NEW f \in [Requests -> Nat], NEW r \in Requests
  PROVE  [f EXCEPT ![r] = @ + 1] \in [Requests -> Nat]
OBVIOUS

\* The same for the answers a transmission adds.
LEMMA AddType ==
  ASSUME NEW f \in [Requests -> Nat], NEW r \in Requests
  PROVE  [f EXCEPT ![r] = @ + (IF r \in SelfTest THEN 2 ELSE 1)] \in [Requests -> Nat]
OBVIOUS

\* The same for counting down from a positive number.
LEMMA DecType ==
  ASSUME NEW f \in [Requests -> Nat], NEW r \in Requests, f[r] > 0
  PROVE  [f EXCEPT ![r] = @ - 1] \in [Requests -> Nat]
OBVIOUS

\* Type correctness of the communication channel: queues hold requests, the
\* two maps lead to requests, and every goroutine is in one of its states.
THEOREM TypeCorrect == Spec => []TypeOK
<1>1. Init => TypeOK
  BY ConstantsAssumption DEF Init, TypeOK, SupStates, DrainStates
<1>2. TypeOK /\ [Next]_vars => TypeOK'
  <2> SUFFICES ASSUME TypeOK, [Next]_vars PROVE TypeOK'
    OBVIOUS
  <2>tid. TidOf \in [Requests -> Tids]
    BY ConstantsAssumption
  <2>0. /\ {"refused", "holdMon", "spawned", "push", "register", "waiting",
            "leave", "done"} \subseteq SupStates
        /\ {"idle", "high", "lowEnter", "low", "lowFailed", "again",
            "lowRelock"} \subseteq DrainStates
    BY DEF SupStates, DrainStates
  <2>1. ASSUME NEW r \in Requests, Send(r) PROVE TypeOK'
    <3>1. (sup \in [Requests -> SupStates])'
      BY <2>1, <2>0 DEF Send, TypeOK
    <3>2. (rxSchedulerMap \in [Tids -> Requests \cup {None}])'
      BY <2>1, <2>tid DEF Send, TypeOK
    <3> QED
      BY <2>1, <3>1, <3>2
      DEF Send, TypeOK, queueVars, rxVars, monVars, supVars,
          drainVars, cliVars, devVars, histVars
  <2>2. ASSUME NEW r \in Requests, SendWindow(r) PROVE TypeOK'
    <3>1. (sup \in [Requests -> SupStates])'
      BY <2>2, <2>0 DEF SendWindow, TypeOK
    <3>2. (rxSchedulerMap \in [Tids -> Requests \cup {None}])'
      BY <2>2, <2>tid DEF SendWindow, TypeOK
    <3> QED
      BY <2>2, <3>1, <3>2
      DEF SendWindow, TypeOK, queueVars, rxVars, monVars, supVars,
          drainVars, cliVars, devVars, histVars
  <2>3. ASSUME NEW r \in Requests, ClientRead(r) PROVE TypeOK'
    <3>1. (chan \in [Requests -> Seq(Answers)])'
      BY <2>3 DEF ClientRead, TypeOK
    <3> QED
      BY <2>3, <3>1
      DEF ClientRead, TypeOK, queueVars, rxVars, monVars, supVars,
          drainVars, cliVars, devVars, histVars
  <2>4. ASSUME NEW r \in Requests, PushNoResponse(r) PROVE TypeOK'
    <3>1. (sup \in [Requests -> SupStates])'
      BY <2>4, <2>0 DEF PushNoResponse, Enqueue, TypeOK
    <3>2. (highPrioTxQueue \in Seq(Requests) /\ lowPrioTxQueue \in Seq(Requests))'
      <4>1. /\ Append(highPrioTxQueue, r) \in Seq(Requests)
            /\ Append(lowPrioTxQueue, r) \in Seq(Requests)
        BY DEF TypeOK
      <4> QED BY <2>4, <4>1 DEF PushNoResponse, Enqueue, TypeOK
    <3>3. (overtaken \in [Requests -> Nat])'
      <4>1. [overtaken EXCEPT ![r] = 0] \in [Requests -> Nat]
        BY DEF TypeOK
      <4> QED BY <2>4, <4>1 DEF PushNoResponse, Enqueue, TypeOK, histVars
    <3>4. (drains \in Nat)'
      BY <2>4 DEF PushNoResponse, Enqueue, TypeOK
    <3> QED
      BY <2>4, <3>1, <3>2, <3>3, <3>4
      DEF PushNoResponse, Enqueue, TypeOK, queueVars, rxVars, monVars, supVars,
          drainVars, cliVars, devVars, histVars
  <2>5. ASSUME NEW r \in Requests, SupRegister(r) PROVE TypeOK'
    <3>1. (sup \in [Requests -> SupStates])'
      BY <2>5, <2>0 DEF SupRegister, LoopHead, TypeOK
    <3>2. (monitoredRequests \in [Tids -> Requests \cup {None}])'
      BY <2>5, <2>tid DEF SupRegister, LoopHead, TypeOK
    <3> QED
      BY <2>5, <3>1, <3>2
      DEF SupRegister, LoopHead, TypeOK, queueVars, rxVars, monVars, supVars,
          drainVars, cliVars, devVars, histVars
  <2>6. ASSUME NEW r \in Requests, SupPush(r) PROVE TypeOK'
    <3>1. (sup \in [Requests -> SupStates])'
      BY <2>6, <2>0 DEF SupPush, Enqueue, TypeOK
    <3>2. (highPrioTxQueue \in Seq(Requests) /\ lowPrioTxQueue \in Seq(Requests))'
      <4>1. /\ Append(highPrioTxQueue, r) \in Seq(Requests)
            /\ Append(lowPrioTxQueue, r) \in Seq(Requests)
        BY DEF TypeOK
      <4> QED BY <2>6, <4>1 DEF SupPush, Enqueue, TypeOK
    <3>3. (overtaken \in [Requests -> Nat])'
      <4>1. [overtaken EXCEPT ![r] = 0] \in [Requests -> Nat]
        BY DEF TypeOK
      <4> QED BY <2>6, <4>1 DEF SupPush, Enqueue, TypeOK, histVars
    <3> QED
      BY <2>6, <3>1, <3>2, <3>3
      DEF SupPush, Enqueue, TypeOK, queueVars, rxVars, monVars, supVars,
          drainVars, cliVars, devVars, histVars
  <2>7. ASSUME NEW r \in Requests, SupSelect(r) PROVE TypeOK'
    <3>1. (sup \in [Requests -> SupStates])'
      BY <2>7, <2>0 DEF SupSelect, TypeOK
    <3>2. (rxSchedulerMap \in [Tids -> Requests \cup {None}])'
      BY <2>7, <2>tid DEF SupSelect, TypeOK
    <3>3. (panicked \subseteq {"supervisor", "drain"})'
      BY <2>7 DEF SupSelect, TypeOK
    <3>4. (drains \in Nat)'
      BY <2>7 DEF SupSelect, TypeOK
    <3> QED
      BY <2>7, <3>1, <3>2, <3>3, <3>4
      DEF SupSelect, TypeOK, queueVars, rxVars, monVars, supVars,
          drainVars, cliVars, devVars, histVars
  <2>8. ASSUME NEW r \in Requests, SupRetry(r) PROVE TypeOK'
    <3>1. (sup \in [Requests -> SupStates])'
      BY <2>8, <2>0 DEF SupRetry, LoopHead, TypeOK
    <3>2. (retryCounter \in [Requests -> Nat])'
      BY <2>8 DEF SupRetry, LoopHead, TypeOK
    <3> QED
      BY <2>8, <3>1, <3>2
      DEF SupRetry, LoopHead, TypeOK, queueVars, rxVars, monVars, supVars,
          drainVars, cliVars, devVars, histVars
  <2>9. ASSUME NEW r \in Requests, SupGiveUp(r) PROVE TypeOK'
    <3>1. (sup \in [Requests -> SupStates])'
      BY <2>9, <2>0 DEF SupGiveUp, Answers, TypeOK
    <3>2. (chan \in [Requests -> Seq(Answers)])'
      BY <2>9 DEF SupGiveUp, Answers, TypeOK
    <3>3. (panicked \subseteq {"supervisor", "drain"})'
      BY <2>9 DEF SupGiveUp, Answers, TypeOK
    <3> QED
      BY <2>9, <3>1, <3>2, <3>3
      DEF SupGiveUp, Answers, TypeOK, queueVars, rxVars, monVars, supVars,
          drainVars, cliVars, devVars, histVars
  <2>10. ASSUME NEW r \in Requests, SupCtxDone(r) PROVE TypeOK'
    <3>1. (sup \in [Requests -> SupStates])'
      BY <2>10, <2>0 DEF SupCtxDone, TypeOK
    <3> QED
      BY <2>10, <3>1
      DEF SupCtxDone, TypeOK, queueVars, rxVars, monVars, supVars,
          drainVars, cliVars, devVars, histVars
  <2>11. ASSUME NEW r \in Requests, SupLeave(r) PROVE TypeOK'
    <3>1. (sup \in [Requests -> SupStates])'
      BY <2>11, <2>0 DEF SupLeave, TypeOK
    <3>2. (monitoredRequests \in [Tids -> Requests \cup {None}])'
      BY <2>11, <2>tid DEF SupLeave, TypeOK
    <3> QED
      BY <2>11, <3>1, <3>2
      DEF SupLeave, TypeOK, queueVars, rxVars, monVars, supVars,
          drainVars, cliVars, devVars, histVars
  <2>12. ASSUME NEW r \in Requests, CbSignal(r) PROVE TypeOK'
    <3>1. (sup \in [Requests -> SupStates])'
      BY <2>12, <2>0 DEF CbSignal, Answers, TypeOK
    <3>2. (chan \in [Requests -> Seq(Answers)])'
      BY <2>12 DEF CbSignal, Answers, TypeOK
    <3>3. (cb \in [Requests -> Nat])'
      <4>1. [cb EXCEPT ![r] = @ - 1] \in [Requests -> Nat]
        BY <2>12, DecType DEF CbSignal, Answers, TypeOK
      <4> QED BY <2>12, <4>1 DEF CbSignal, Answers, TypeOK
    <3> QED
      BY <2>12, <3>1, <3>2, <3>3
      DEF CbSignal, Answers, TypeOK, queueVars, rxVars, monVars, supVars,
          drainVars, cliVars, devVars, histVars
  <2>13. ASSUME NEW r \in Requests, CbAbandon(r) PROVE TypeOK'
    <3>1. (chan \in [Requests -> Seq(Answers)])'
      <4>1. SubSeq(chan[r], 1, Len(chan[r]) - 1) \in Seq(Answers)
        BY <2>13, SMT DEF CbAbandon, TypeOK
      <4> QED BY <2>13, <4>1 DEF CbAbandon, TypeOK
    <3> QED
      BY <2>13, <3>1
      DEF CbAbandon, TypeOK, queueVars, rxVars, monVars, supVars,
          drainVars, cliVars, devVars, histVars
  <2>14. ASSUME NEW r \in Requests, CbVerify(r) PROVE TypeOK'
    <3>1. (cb \in [Requests -> Nat])'
      <4>1. [cb EXCEPT ![r] = @ - 1] \in [Requests -> Nat]
        BY <2>14, DecType DEF CbVerify, TypeOK
      <4> QED BY <2>14, <4>1 DEF CbVerify, TypeOK
    <3>2. (vwait \in [Requests -> Nat])'
      <4>1. [vwait EXCEPT ![r] = @ + 1] \in [Requests -> Nat]
        BY <2>14, IncType DEF CbVerify, TypeOK
      <4> QED BY <2>14, <4>1 DEF CbVerify, TypeOK
    <3> QED
      BY <2>14, <3>1, <3>2
      DEF CbVerify, TypeOK, queueVars, rxVars, monVars, supVars,
          drainVars, cliVars, devVars, histVars
  <2>15. ASSUME NEW r \in Requests, CbVerifyDone(r) PROVE TypeOK'
    <3>1. (sup \in [Requests -> SupStates])'
      BY <2>15, <2>0 DEF CbVerifyDone, TypeOK
    <3>2. (vwait \in [Requests -> Nat])'
      <4>1. [vwait EXCEPT ![r] = @ - 1] \in [Requests -> Nat]
        BY <2>15, DecType DEF CbVerifyDone, TypeOK
      <4> QED BY <2>15, <4>1 DEF CbVerifyDone, TypeOK
    <3> QED
      BY <2>15, <3>1, <3>2
      DEF CbVerifyDone, TypeOK, queueVars, rxVars, monVars, supVars,
          drainVars, cliVars, devVars, histVars
  <2>16. ASSUME NEW r \in Requests, ReceiveMessage(r) PROVE TypeOK'
    <3>1. (net \in [Requests -> Nat])'
      <4>1. [net EXCEPT ![r] = @ - 1] \in [Requests -> Nat]
        BY <2>16, DecType DEF ReceiveMessage, TypeOK
      <4> QED BY <2>16, <4>1 DEF ReceiveMessage, TypeOK
    <3>2. (cb \in [Requests -> Nat])'
      <4>1. \A e \in Requests : [cb EXCEPT ![e] = @ + 1] \in [Requests -> Nat]
        BY <2>16, IncType DEF ReceiveMessage, TypeOK
      <4> QED BY <2>16, <4>1 DEF ReceiveMessage, TypeOK
    <3>3. (rxSchedulerMap \in [Tids -> Requests \cup {None}])'
      BY <2>16, <2>tid DEF ReceiveMessage, TypeOK
    <3> QED
      BY <2>16, <3>1, <3>2, <3>3
      DEF ReceiveMessage, TypeOK, queueVars, rxVars, monVars, supVars,
          drainVars, cliVars, devVars, histVars
  <2>17. ASSUME NEW r \in Requests, ReceiveGarbled(r) PROVE TypeOK'
    <3>1. (net \in [Requests -> Nat])'
      <4>1. [net EXCEPT ![r] = @ - 1] \in [Requests -> Nat]
        BY <2>17, DecType DEF ReceiveGarbled, TypeOK
      <4> QED BY <2>17, <4>1 DEF ReceiveGarbled, TypeOK
    <3>2. (cb \in [Requests -> Nat])'
      <4>1. \A e \in Requests : [cb EXCEPT ![e] = @ + 1] \in [Requests -> Nat]
        BY <2>17, IncType DEF ReceiveGarbled, TypeOK
      <4> QED BY <2>17, <4>1 DEF ReceiveGarbled, TypeOK
    <3>3. (leftLocked \subseteq {"mutexRxSchedMap", "mutexLowPrioTxQueue"})'
      BY <2>17 DEF ReceiveGarbled, TypeOK
    <3> QED
      BY <2>17, <3>1, <3>2, <3>3
      DEF ReceiveGarbled, TypeOK, queueVars, rxVars, monVars, supVars,
          drainVars, cliVars, devVars, histVars
  <2>18. ASSUME NEW t \in Tids, ReceiveAutonomous(t) PROVE TypeOK'
    <3>1. (rxSchedulerMap \in [Tids -> Requests \cup {None}])'
      BY <2>18, <2>tid DEF ReceiveAutonomous, TypeOK
    <3> QED
      BY <2>18, <3>1
      DEF ReceiveAutonomous, TypeOK, queueVars, rxVars, monVars, supVars,
          drainVars, cliVars, devVars, histVars
  <2>19. CASE DrainStart
    <3>1. (dpc \in DrainStates)'
      BY <2>19, <2>0 DEF DrainStart, HighEnter, TypeOK
    <3>2. (drains \in Nat)'
      BY <2>19 DEF DrainStart, HighEnter, TypeOK
    <3> QED
      BY <2>19, <3>1, <3>2
      DEF DrainStart, HighEnter, TypeOK, queueVars, rxVars, monVars, supVars,
          drainVars, cliVars, devVars, histVars
  <2>20. ASSUME NEW w \in {"high", "again"}, NEW a \in {"lowEnter", "lowRelock"},
                HighEnd(w, a)
         PROVE TypeOK'
    <3>1. (dpc \in DrainStates)'
      BY <2>20, <2>0 DEF HighEnd, TypeOK
    <3>2. (panicked \subseteq {"supervisor", "drain"})'
      BY <2>20 DEF HighEnd, TypeOK
    <3> QED
      BY <2>20, <3>1, <3>2
      DEF HighEnd, TypeOK, queueVars, rxVars, monVars, supVars,
          drainVars, cliVars, devVars, histVars
  <2>21. ASSUME NEW w \in {"high", "again"}, HighSent(w) PROVE TypeOK'
    <3>1. (highPrioTxQueue \in Seq(Requests))'
      BY <2>21 DEF HighSent, Transmit, TypeOK
    <3>2. (net \in [Requests -> Nat] /\ sent \in [Requests -> Nat])'
      <4>1. Head(highPrioTxQueue) \in Requests
        BY <2>21 DEF HighSent, TypeOK
      <4>2. net \in [Requests -> Nat] /\ sent \in [Requests -> Nat]
        BY DEF TypeOK
      <4>3. net' \in [Requests -> Nat]
        BY <2>21, <4>1, <4>2, AddType DEF HighSent, Transmit
      <4>4. sent' \in [Requests -> Nat]
        BY <2>21, <4>1, <4>2, IncType DEF HighSent, Transmit
      <4> QED BY <4>3, <4>4
    <3> QED
      BY <2>21, <3>1, <3>2
      DEF HighSent, Transmit, TypeOK, queueVars, rxVars, monVars, supVars,
          drainVars, cliVars, devVars, histVars
  <2>22. ASSUME NEW w \in {"high", "again"}, HighFailed(w) PROVE TypeOK'
    <3>1. (highPrioTxQueue \in Seq(Requests))'
      BY <2>22 DEF HighFailed, TypeOK
    <3>2. (rxSchedulerMap \in [Tids -> Requests \cup {None}])'
      BY <2>22, <2>tid DEF HighFailed, TypeOK
    <3>3. (dpc \in DrainStates)'
      BY <2>22, <2>0 DEF HighFailed, TypeOK
    <3> QED
      BY <2>22, <3>1, <3>2, <3>3
      DEF HighFailed, TypeOK, queueVars, rxVars, monVars, supVars,
          drainVars, cliVars, devVars, histVars
  <2>23. CASE LowEnter
    <3>1. (dpc \in DrainStates)'
      BY <2>23, <2>0 DEF LowEnter, TypeOK
    <3>2. (leftLocked \subseteq {"mutexRxSchedMap", "mutexLowPrioTxQueue"})'
      BY <2>23 DEF LowEnter, TypeOK
    <3> QED
      BY <2>23, <3>1, <3>2
      DEF LowEnter, TypeOK, queueVars, rxVars, monVars, supVars,
          drainVars, cliVars, devVars, histVars
  <2>24. CASE LowEnd
    <3>1. (dpc \in DrainStates)'
      BY <2>24, <2>0 DEF LowEnd, TypeOK
    <3>2. (panicked \subseteq {"supervisor", "drain"})'
      BY <2>24 DEF LowEnd, TypeOK
    <3> QED
      BY <2>24, <3>1, <3>2
      DEF LowEnd, TypeOK, queueVars, rxVars, monVars, supVars,
          drainVars, cliVars, devVars, histVars
  <2>25. CASE LowSent
    <3>1. (lowPrioTxQueue \in Seq(Requests))'
      BY <2>25 DEF LowSent, Transmit, HighEnter, TypeOK
    <3>2. (net \in [Requests -> Nat] /\ sent \in [Requests -> Nat])'
      <4>1. Head(lowPrioTxQueue) \in Requests
        BY <2>25 DEF LowSent, TypeOK
      <4>2. net \in [Requests -> Nat] /\ sent \in [Requests -> Nat]
        BY DEF TypeOK
      <4>3. net' \in [Requests -> Nat]
        BY <2>25, <4>1, <4>2, AddType DEF LowSent, Transmit
      <4>4. sent' \in [Requests -> Nat]
        BY <2>25, <4>1, <4>2, IncType DEF LowSent, Transmit
      <4> QED BY <4>3, <4>4
    <3>3. (overtaken \in [Requests -> Nat])'
      <4>1. overtaken \in [Requests -> Nat]
        BY DEF TypeOK
      <4>2. \A q \in Requests : overtaken[q] \in Nat /\ overtaken[q] + 1 \in Nat
        BY <4>1
      <4> QED BY <2>25, <4>2 DEF LowSent
    <3>4. (dpc \in DrainStates)'
      BY <2>25, <2>0 DEF LowSent, Transmit, HighEnter, TypeOK
    <3> QED
      BY <2>25, <3>1, <3>2, <3>3, <3>4
      DEF LowSent, Transmit, HighEnter, TypeOK, queueVars, rxVars, monVars, supVars,
          drainVars, cliVars, devVars, histVars
  <2>26. CASE LowFailed
    <3>1. (lowPrioTxQueue \in Seq(Requests))'
      BY <2>26 DEF LowFailed, TypeOK
    <3>2. (failed \in Requests \cup {None})'
      BY <2>26 DEF LowFailed, TypeOK
    <3>3. (dpc \in DrainStates)'
      BY <2>26, <2>0 DEF LowFailed, TypeOK
    <3> QED
      BY <2>26, <3>1, <3>2, <3>3
      DEF LowFailed, TypeOK, queueVars, rxVars, monVars, supVars,
          drainVars, cliVars, devVars, histVars
  <2>27. CASE LowUnregister
    <3>1. (rxSchedulerMap \in [Tids -> Requests \cup {None}])'
      BY <2>27, <2>tid DEF LowUnregister, TypeOK
    <3>2. (dpc \in DrainStates)'
      BY <2>27, <2>0 DEF LowUnregister, TypeOK
    <3> QED
      BY <2>27, <3>1, <3>2
      DEF LowUnregister, TypeOK, queueVars, rxVars, monVars, supVars,
          drainVars, cliVars, devVars, histVars
  <2>28. CASE LowRelock
    <3>1. (dpc \in DrainStates)'
      BY <2>28, <2>0 DEF LowRelock, TypeOK
    <3> QED
      BY <2>28, <3>1
      DEF LowRelock, TypeOK, queueVars, rxVars, monVars, supVars,
          drainVars, cliVars, devVars, histVars
  <2>29. CASE CancelRequestMonitoring
    <3>1. (sup \in [Requests -> SupStates])'
      BY <2>29, <2>0 DEF CancelRequestMonitoring, CancelWaiting, Cancellable, TypeOK
    <3> QED
      BY <2>29, <3>1
      DEF CancelRequestMonitoring, CancelWaiting, Cancellable, TypeOK,
          queueVars, rxVars, monVars, supVars, drainVars, cliVars, devVars, histVars
  <2>30. CASE DeleteDevice
    BY <2>30 DEF DeleteDevice, TypeOK, queueVars, rxVars, monVars,
           supVars, drainVars, cliVars, devVars, histVars
  <2>31. CASE DeleteCancel
    <3>1. (sup \in [Requests -> SupStates])'
      BY <2>31, <2>0 DEF DeleteCancel, CancelWaiting, Cancellable, TypeOK
    <3> QED
      BY <2>31, <3>1
      DEF DeleteCancel, CancelWaiting, Cancellable, TypeOK,
          queueVars, rxVars, monVars, supVars, drainVars, cliVars, devVars, histVars
  <2>32. CASE PrepareForGarbageCollection
    BY <2>32 DEF PrepareForGarbageCollection, TypeOK, queueVars, rxVars, monVars,
           supVars, drainVars, cliVars, devVars, histVars
  <2>33. CASE UNCHANGED vars
    BY <2>33 DEF vars, TypeOK, queueVars, rxVars, monVars,
           supVars, drainVars, cliVars, devVars, histVars
  <2> QED
    BY <2>1, <2>2, <2>3, <2>4, <2>5, <2>6, <2>7, <2>8, <2>9, <2>10, <2>11,
       <2>12, <2>13, <2>14, <2>15, <2>16, <2>17, <2>18, <2>19, <2>20, <2>21, <2>22,
       <2>23, <2>24, <2>25, <2>26, <2>27, <2>28, <2>29, <2>30, <2>31, <2>32, <2>33
    DEF Next, Supervise, Respond, Drain
<1> QED BY <1>1, <1>2, PTL DEF Spec

-----------------------------------------------------------------------------
(***************************************************************************)
(* Priority.  While the drain is in its low priority phase, whatever waits *)
(* in the high priority queue came after the queue was last walked, so no  *)
(* low priority frame has overtaken it yet.                                *)
(***************************************************************************)
LowPhase == {"lowEnter", "low", "lowRelock"}

PriorityInv ==
  del = "none" => \A r \in Queued(highPrioTxQueue) :
                     overtaken[r] <= (IF dpc \in LowPhase THEN 0 ELSE 1)

(***************************************************************************)
(* No stranded frame.  Every queued frame brought a drain with it (started *)
(* or about to be); a drain that ends on a failed call takes its frame     *)
(* along, so the frames never outnumber the drains.  In the low priority   *)
(* phase the running drain does not count for the high priority queue,     *)
(* because it may end without walking that queue again.                    *)
(***************************************************************************)
Registering == {r \in Requests : sup[r] = "register"}

Cover == drains + Cardinality(Registering)

StrandInv ==
  del = "none" =>
    /\ Len(highPrioTxQueue) + Len(lowPrioTxQueue)
         <= Cover + (IF dpc \in {"idle", "lowFailed"} THEN 0 ELSE 1)
    /\ dpc \in LowPhase => Len(highPrioTxQueue) <= Cover

\* What is queued after Append: the old requests and the new one.
LEMMA QueuedAppend ==
  ASSUME NEW q \in Seq(Requests), NEW r \in Requests
  PROVE  Queued(Append(q, r)) = Queued(q) \cup {r}
<1>1. DOMAIN Append(q, r) = DOMAIN q \cup {Len(q) + 1}
  OBVIOUS
<1>2. \A i \in DOMAIN q : Append(q, r)[i] = q[i]
  OBVIOUS
<1>3. Append(q, r)[Len(q) + 1] = r
  OBVIOUS
<1> QED BY <1>1, <1>2, <1>3 DEF Queued

\* Taking the head off a queue adds nothing to it.
LEMMA QueuedTail ==
  ASSUME NEW q \in Seq(Requests), q # <<>>
  PROVE  Queued(Tail(q)) \subseteq Queued(q)
BY DEF Queued

\* A queue of requests holds requests.
LEMMA QueuedType ==
  ASSUME NEW q \in Seq(Requests)
  PROVE  Queued(q) \subseteq Requests
BY DEF Queued

\* The steps that leave alone all that the two invariants below are about.
LEMMA OtherSteps ==
  ASSUME NEW r,
         \/ Send(r) \/ SendWindow(r) \/ ClientRead(r) \/ SupRegister(r)
         \/ SupRetry(r) \/ SupGiveUp(r) \/ SupCtxDone(r) \/ SupLeave(r)
         \/ CbSignal(r) \/ CbAbandon(r) \/ CbVerify(r) \/ CbVerifyDone(r)
         \/ ReceiveMessage(r) \/ ReceiveGarbled(r) \/ ReceiveAutonomous(r)
         \/ CancelRequestMonitoring
  PROVE  UNCHANGED <<queueVars, overtaken, dpc, drains, del>>
<1> USE DEF histVars, drainVars, devVars
<1>1. CASE Send(r)
  BY <1>1 DEF Send
<1>2. CASE SendWindow(r)
  BY <1>2 DEF SendWindow
<1>3. CASE ClientRead(r)
  BY <1>3 DEF ClientRead
<1>4. CASE SupRegister(r)
  BY <1>4 DEF SupRegister, LoopHead
<1>5. CASE SupRetry(r)
  BY <1>5 DEF SupRetry, LoopHead
<1>6. CASE SupGiveUp(r)
  BY <1>6 DEF SupGiveUp
<1>7. CASE SupCtxDone(r)
  BY <1>7 DEF SupCtxDone
<1>8. CASE SupLeave(r)
  BY <1>8 DEF SupLeave
<1>9. CASE CbSignal(r)
  BY <1>9 DEF CbSignal
<1>10. CASE CbAbandon(r)
  BY <1>10 DEF CbAbandon
<1>11. CASE CbVerify(r)
  BY <1>11 DEF CbVerify
<1>12. CASE CbVerifyDone(r)
  BY <1>12 DEF CbVerifyDone
<1>13. CASE ReceiveMessage(r)
  BY <1>13 DEF ReceiveMessage
<1>14. CASE ReceiveGarbled(r)
  BY <1>14 DEF ReceiveGarbled
<1>15. CASE ReceiveAutonomous(r)
  BY <1>15 DEF ReceiveAutonomous
<1>16. CASE CancelRequestMonitoring
  BY <1>16 DEF CancelRequestMonitoring
<1> QED
  BY <1>1, <1>2, <1>3, <1>4, <1>5, <1>6, <1>7, <1>8, <1>9, <1>10, <1>11,
     <1>12, <1>13, <1>14, <1>15, <1>16

\* PriorityBound holds of every execution: a queued high priority request is
\* overtaken by at most one low priority frame, for any number of clients.
THEOREM PriorityHolds == Spec => []PriorityBound
<1>1. Init => PriorityInv
  BY DEF Init, PriorityInv, Queued
<1>2. TypeOK /\ PriorityInv /\ [Next]_vars => PriorityInv'
  <2> SUFFICES ASSUME TypeOK, PriorityInv, [Next]_vars PROVE PriorityInv'
    OBVIOUS
  <2>0. highPrioTxQueue \in Seq(Requests) /\ overtaken \in [Requests -> Nat]
    BY DEF TypeOK
  <2>q. Queued(highPrioTxQueue) \subseteq Requests
    BY <2>0, QueuedType
  <2>1. ASSUME NEW r \in Requests, PushNoResponse(r) \/ SupPush(r)
        PROVE PriorityInv'
    <3>1. CASE r \in HighPrio
      <4>1. /\ Queued(highPrioTxQueue') = Queued(highPrioTxQueue) \cup {r}
            /\ overtaken' = IF r \in Queued(highPrioTxQueue) THEN overtaken
                            ELSE [overtaken EXCEPT ![r] = 0]
            /\ UNCHANGED <<dpc, del>>
        BY <2>1, <2>0, <3>1, QueuedAppend
        DEF PushNoResponse, SupPush, Enqueue, devVars, drainVars
      <4> QED BY <4>1, <2>0, <2>q DEF PriorityInv
    <3>2. CASE r \notin HighPrio
      <4>1. UNCHANGED <<highPrioTxQueue, overtaken, dpc, del>>
        BY <2>1, <3>2 DEF PushNoResponse, SupPush, Enqueue, devVars, drainVars
      <4> QED BY <4>1 DEF PriorityInv
    <3> QED BY <3>1, <3>2
  <2>2. CASE DrainStart
    <3>1. UNCHANGED <<highPrioTxQueue, overtaken, del>> /\ dpc = "idle"
      BY <2>2 DEF DrainStart, queueVars, histVars, devVars
    <3>2. del = "none" => dpc' = "high"
      BY <2>2 DEF DrainStart, HighEnter, DeletionInProgress
    <3> QED BY <3>1, <3>2 DEF PriorityInv, LowPhase
  <2>3. ASSUME NEW w \in {"high", "again"}, NEW a \in LowPhase, HighEnd(w, a)
        PROVE PriorityInv'
    <3>1. /\ UNCHANGED <<highPrioTxQueue, overtaken, del>>
          /\ del = "none" => highPrioTxQueue = <<>>
      BY <2>3 DEF HighEnd, queueVars, histVars, CtxDone
    <3> QED BY <3>1 DEF PriorityInv, Queued
  <2>4. ASSUME NEW w \in {"high", "again"}, HighSent(w) \/ HighFailed(w)
        PROVE PriorityInv'
    <3>1. /\ UNCHANGED <<overtaken, del>>
          /\ dpc \notin LowPhase /\ dpc' \notin LowPhase
      BY <2>4 DEF HighSent, HighFailed, histVars, devVars, drainVars, LowPhase
    <3>2. Queued(highPrioTxQueue') \subseteq Queued(highPrioTxQueue)
      BY <2>4, <2>0, QueuedTail DEF HighSent, HighFailed
    <3> QED BY <3>1, <3>2 DEF PriorityInv
  <2>5. CASE LowEnter \/ LowEnd \/ LowFailed \/ LowUnregister \/ LowRelock
    <3>1. UNCHANGED <<highPrioTxQueue, overtaken, del>>
      BY <2>5 DEF LowEnter, LowEnd, LowFailed, LowUnregister, LowRelock,
                  queueVars, histVars, devVars
    <3>2. dpc' \in LowPhase => dpc \in LowPhase
      BY <2>5 DEF LowEnter, LowEnd, LowFailed, LowUnregister, LowRelock, LowPhase
    <3> QED BY <3>1, <3>2, <2>0, <2>q DEF PriorityInv
  <2>6. CASE LowSent
    <3>1. /\ UNCHANGED <<highPrioTxQueue, del>> /\ dpc \in LowPhase
          /\ overtaken' = [r \in Requests |-> IF r \in Queued(highPrioTxQueue)
                                             THEN overtaken[r] + 1 ELSE overtaken[r]]
      BY <2>6 DEF LowSent, devVars, LowPhase
    <3>2. del = "none" => dpc' \notin LowPhase
      BY <2>6 DEF LowSent, HighEnter, DeletionInProgress, LowPhase
    <3>3. ASSUME del = "none", NEW r \in Queued(highPrioTxQueue)
          PROVE overtaken'[r] <= 1
      BY <3>1, <3>3, <2>0, <2>q DEF PriorityInv
    <3> QED BY <3>1, <3>2, <3>3 DEF PriorityInv
  <2>7. CASE DeleteDevice \/ DeleteCancel \/ PrepareForGarbageCollection
    BY <2>7 DEF DeleteDevice, DeleteCancel, PrepareForGarbageCollection, PriorityInv
  <2>8. ASSUME NEW r \in Requests, SupSelect(r) PROVE PriorityInv'
    BY <2>8 DEF SupSelect, PriorityInv, queueVars, histVars
  <2>9. CASE UNCHANGED <<queueVars, overtaken, dpc, drains, del>>
    BY <2>9 DEF PriorityInv, queueVars
  <2>10. UNCHANGED vars => UNCHANGED <<queueVars, overtaken, dpc, drains, del>>
    BY DEF vars, histVars, drainVars, devVars
  <2>11. {"lowEnter", "lowRelock"} \subseteq LowPhase
    BY DEF LowPhase
  <2> QED
    BY <2>1, <2>2, <2>3, <2>4, <2>5, <2>6, <2>7, <2>8, <2>9, <2>10, <2>11, OtherSteps
    DEF Next, Supervise, Respond, Drain
<1>3. TypeOK /\ PriorityInv => PriorityBound
  <2> SUFFICES ASSUME TypeOK, PriorityInv, del = "none",
                      NEW r \in Queued(highPrioTxQueue)
               PROVE  overtaken[r] <= 1
    BY DEF PriorityBound
  <2>1. overtaken[r] \in Nat
    BY QueuedType DEF TypeOK
  <2> QED BY <2>1 DEF PriorityInv
<1> QED BY <1>1, <1>2, <1>3, TypeCorrect, PTL DEF Spec

-----------------------------------------------------------------------------
\* There are finitely many supervisors about to start a drain.
LEMMA RegisteringFinite ==
  IsFiniteSet(Registering) /\ Cardinality(Registering) \in Nat
<1>1. IsFiniteSet(Requests) /\ Registering \subseteq Requests
  BY ConstantsAssumption DEF Registering
<1> QED BY <1>1, FS_Subset, FS_CardinalityType

\* A supervisor that leaves its waiting state does not change the cover.
LEMMA RegisteringKept ==
  ASSUME TypeOK, NEW r \in Requests,
         \/ Send(r) \/ SendWindow(r) \/ ClientRead(r) \/ SupRegister(r)
         \/ SupRetry(r) \/ SupGiveUp(r) \/ SupCtxDone(r) \/ SupLeave(r)
         \/ CbSignal(r) \/ CbAbandon(r) \/ CbVerify(r) \/ CbVerifyDone(r)
         \/ ReceiveMessage(r) \/ ReceiveGarbled(r)
         \/ CancelRequestMonitoring \/ PushNoResponse(r)
  PROVE  Registering' = Registering
<1>0. sup \in [Requests -> SupStates]
  BY DEF TypeOK
<1> USE DEF Registering, supVars
<1>1. CASE Send(r)
  BY <1>0, <1>1 DEF Send
<1>2. CASE SendWindow(r)
  BY <1>0, <1>2 DEF SendWindow
<1>3. CASE ClientRead(r)
  BY <1>3 DEF ClientRead
<1>4. CASE SupRegister(r) \/ SupRetry(r)
  BY <1>0, <1>4 DEF SupRegister, SupRetry, LoopHead
<1>5. CASE SupGiveUp(r) \/ SupCtxDone(r) \/ SupLeave(r)
  BY <1>0, <1>5 DEF SupGiveUp, SupCtxDone, SupLeave
<1>6. CASE CbSignal(r)
  BY <1>0, <1>6 DEF CbSignal
<1>7. CASE CbAbandon(r) \/ CbVerify(r)
  BY <1>7 DEF CbAbandon, CbVerify
<1>8. CASE CbVerifyDone(r)
  BY <1>0, <1>8 DEF CbVerifyDone
<1>9. CASE ReceiveMessage(r) \/ ReceiveGarbled(r)
  BY <1>9 DEF ReceiveMessage, ReceiveGarbled
<1>10. CASE CancelRequestMonitoring
  BY <1>0, <1>10 DEF CancelRequestMonitoring, CancelWaiting, Cancellable
<1>11. CASE PushNoResponse(r)
  BY <1>0, <1>11 DEF PushNoResponse
<1> QED
  BY <1>1, <1>2, <1>3, <1>4, <1>5, <1>6, <1>7, <1>8, <1>9, <1>10, <1>11

\* NoStrandedFrame holds of every execution: no frame is ever left in a
\* queue without a drain to send it, whatever calls to the OLT adapter fail.
THEOREM NoFrameStranded == Spec => []NoStrandedFrame
<1>1. Init => StrandInv
  <2> SUFFICES ASSUME Init PROVE StrandInv
    OBVIOUS
  <2>1. Cover \in Nat
    BY RegisteringFinite DEF Cover, Init
  <2> QED BY <2>1 DEF Init, StrandInv, LowPhase
<1>2. TypeOK /\ TypeOK' /\ StrandInv /\ [Next]_vars => StrandInv'
  <2> SUFFICES ASSUME TypeOK, TypeOK', StrandInv, [Next]_vars PROVE StrandInv'
    OBVIOUS
  <2>0. /\ highPrioTxQueue \in Seq(Requests) /\ lowPrioTxQueue \in Seq(Requests)
        /\ drains \in Nat /\ sup \in [Requests -> SupStates] /\ drains' \in Nat
    BY DEF TypeOK
  <2>c. Cardinality(Registering) \in Nat /\ Cover \in Nat
    BY <2>0, RegisteringFinite DEF Cover
  <2>l. Len(highPrioTxQueue) \in Nat /\ Len(lowPrioTxQueue) \in Nat
    BY <2>0
  <2> DEFINE longer == Len(highPrioTxQueue') + Len(lowPrioTxQueue')
                         = Len(highPrioTxQueue) + Len(lowPrioTxQueue) + 1
             bounded == Len(highPrioTxQueue') <= Len(highPrioTxQueue) + 1
                        /\ Len(highPrioTxQueue') \in Nat
  <2>1. ASSUME NEW r \in Requests, Enqueue(r) PROVE longer /\ bounded
    <3>1. /\ Len(Append(highPrioTxQueue, r)) = Len(highPrioTxQueue) + 1
          /\ Len(Append(lowPrioTxQueue, r)) = Len(lowPrioTxQueue) + 1
      BY <2>0
    <3>2. CASE r \in HighPrio
      BY <2>1, <3>1, <3>2, <2>l DEF Enqueue
    <3>3. CASE r \notin HighPrio
      BY <2>1, <3>1, <3>3, <2>l DEF Enqueue
    <3> QED BY <3>2, <3>3
  <2>2. ASSUME NEW r \in Requests, PushNoResponse(r) PROVE StrandInv'
    <3>0. Registering' = Registering /\ drains' = drains + 1
      BY <2>2, RegisteringKept DEF PushNoResponse
    <3>1. Cover' = Cover + 1
      BY <3>0, <2>0, <2>c DEF Cover
    <3>2. longer /\ bounded /\ UNCHANGED <<dpc, del>>
      BY <2>1, <2>2 DEF PushNoResponse, devVars
    <3> QED BY <3>1, <3>2, <2>c, <2>l DEF StrandInv
  <2>3. ASSUME NEW r \in Requests, SupPush(r) PROVE StrandInv'
    <3>1. Registering' = Registering \cup {r} /\ r \notin Registering
      BY <2>3, <2>0 DEF SupPush, Registering
    <3>0. drains' = drains
      BY <2>3 DEF SupPush, drainVars
    <3>a. Cardinality(Registering') = Cardinality(Registering) + 1
      BY <3>1, RegisteringFinite, FS_AddElement
    <3>2. Cover' = Cover + 1
      BY <3>0, <3>a, <2>0, <2>c DEF Cover
    <3>3. longer /\ bounded /\ UNCHANGED <<dpc, del>>
      BY <2>1, <2>3 DEF SupPush, devVars, drainVars
    <3> QED BY <3>2, <3>3, <2>c, <2>l DEF StrandInv
  <2>4. ASSUME NEW r \in Requests, SupSelect(r) PROVE StrandInv'
    <3>1. Registering' = Registering \ {r} /\ r \in Registering
      BY <2>4, <2>0 DEF SupSelect, Registering
    <3>2. Cardinality(Registering') = Cardinality(Registering) - 1
      BY <3>1, RegisteringFinite, FS_RemoveElement
    <3>3. Cover' = Cover
      BY <3>2, <2>4, <2>0, <2>c DEF SupSelect, Cover
    <3> QED BY <3>3, <2>4 DEF SupSelect, StrandInv, queueVars
  <2>5. ASSUME UNCHANGED supVars PROVE Registering' = Registering
    BY <2>5 DEF supVars, Registering
  <2>6. CASE DrainStart
    <3>1. Cover' = Cover - 1 /\ UNCHANGED <<queueVars, del>> /\ dpc = "idle"
      BY <2>6, <2>5, <2>0, <2>c DEF DrainStart, Cover, devVars
    <3>2. del = "none" => dpc' = "high"
      BY <2>6 DEF DrainStart, HighEnter, DeletionInProgress
    <3> QED BY <3>1, <3>2, <2>c, <2>l DEF StrandInv, LowPhase, queueVars
  <2>7. ASSUME NEW w \in {"high", "again"}, NEW a \in LowPhase, HighEnd(w, a)
        PROVE StrandInv'
    <3>1. /\ Cover' = Cover /\ UNCHANGED <<queueVars, del>>
          /\ del = "none" => highPrioTxQueue = <<>>
          /\ del = "none" => dpc' \in LowPhase
      BY <2>7, <2>5 DEF HighEnd, Cover, CtxDone
    <3>2. dpc \notin {"idle", "lowFailed"}
      BY <2>7 DEF HighEnd
    <3> QED BY <3>1, <3>2, <2>c, <2>l DEF StrandInv, LowPhase, queueVars
  <2>8. ASSUME NEW w \in {"high", "again"}, HighSent(w) \/ HighFailed(w)
        PROVE StrandInv'
    <3>1. Cover' = Cover
      BY <2>8, <2>5 DEF HighSent, HighFailed, Cover, drainVars
    <3>2. /\ Len(highPrioTxQueue') = Len(highPrioTxQueue) - 1
          /\ UNCHANGED <<lowPrioTxQueue, del>>
      BY <2>8, <2>0 DEF HighSent, HighFailed, devVars
    <3>3. /\ dpc \notin LowPhase /\ dpc' \notin LowPhase
          /\ dpc \notin {"idle", "lowFailed"}
      BY <2>8 DEF HighSent, HighFailed, drainVars, LowPhase
    <3> QED BY <3>1, <3>2, <3>3, <2>c, <2>l DEF StrandInv
  <2>9. CASE LowEnter \/ LowRelock
    <3>1. Cover' = Cover /\ UNCHANGED <<queueVars, del>>
      BY <2>9, <2>5 DEF LowEnter, LowRelock, Cover, queueVars, devVars
    <3>2. dpc \in LowPhase /\ (del = "none" => dpc' \in LowPhase)
      BY <2>9 DEF LowEnter, LowRelock, LowPhase, DeletionInProgress
    <3> QED BY <3>1, <3>2, <2>c, <2>l DEF StrandInv, LowPhase, queueVars
  <2>10. CASE LowEnd
    <3>1. /\ Cover' = Cover /\ UNCHANGED <<queueVars, del>>
          /\ del = "none" => lowPrioTxQueue = <<>>
          /\ dpc \in LowPhase /\ dpc' = "idle"
      BY <2>10, <2>5 DEF LowEnd, Cover, CtxDone, LowPhase
    <3> QED BY <3>1, <2>c, <2>l DEF StrandInv, LowPhase, queueVars
  <2>11. CASE LowSent \/ LowFailed
    <3>1. Cover' = Cover /\ UNCHANGED <<highPrioTxQueue, del>>
      BY <2>11, <2>5 DEF LowSent, LowFailed, Cover, devVars
    <3>2. Len(lowPrioTxQueue') = Len(lowPrioTxQueue) - 1
      BY <2>11, <2>0 DEF LowSent, LowFailed
    <3>3. /\ dpc \in LowPhase
          /\ del = "none" => dpc' \in {"again", "lowFailed"}
      BY <2>11 DEF LowSent, LowFailed, HighEnter, DeletionInProgress, LowPhase
    <3> QED BY <3>1, <3>2, <3>3, <2>c, <2>l DEF StrandInv, LowPhase
  <2>12. CASE LowUnregister
    <3>1. /\ Cover' = Cover /\ UNCHANGED <<queueVars, del>>
          /\ dpc = "lowFailed" /\ dpc' = "idle"
      BY <2>12, <2>5 DEF LowUnregister, Cover, devVars
    <3> QED BY <3>1, <2>c, <2>l DEF StrandInv, LowPhase, queueVars
  <2>13. CASE DeleteDevice \/ DeleteCancel \/ PrepareForGarbageCollection
    BY <2>13 DEF DeleteDevice, DeleteCancel, PrepareForGarbageCollection, StrandInv
  <2>14. CASE UNCHANGED <<queueVars, overtaken, dpc, drains, del>>
              /\ Registering' = Registering
    BY <2>14 DEF StrandInv, Cover, queueVars
  <2>15. UNCHANGED vars => /\ UNCHANGED <<queueVars, overtaken, dpc, drains, del>>
                           /\ Registering' = Registering
    BY <2>5 DEF vars, histVars, drainVars, devVars
  <2>16. ASSUME NEW t, ReceiveAutonomous(t) PROVE Registering' = Registering
    BY <2>5, <2>16 DEF ReceiveAutonomous
  <2>17. {"lowEnter", "lowRelock"} \subseteq LowPhase
    BY DEF LowPhase
  <2>18. CancelRequestMonitoring => Registering' = Registering
    BY <2>0 DEF CancelRequestMonitoring, CancelWaiting, Cancellable, Registering
  <2> QED
    BY <2>2, <2>3, <2>4, <2>6, <2>7, <2>8, <2>9, <2>10, <2>11, <2>12, <2>13,
       <2>14, <2>15, <2>16, <2>17, <2>18, OtherSteps, RegisteringKept
    DEF Next, Supervise, Respond, Drain
<1>3. TypeOK /\ StrandInv => NoStrandedFrame
  <2> SUFFICES ASSUME TypeOK, StrandInv, del = "none",
                      highPrioTxQueue # <<>> \/ lowPrioTxQueue # <<>>,
                      ~ (drains > 0), ~ (dpc # "idle")
               PROVE  \E r \in Requests : sup[r] = "register"
    BY Zenon DEF NoStrandedFrame
  <2>1. Len(highPrioTxQueue) + Len(lowPrioTxQueue) > 0
    BY DEF TypeOK
  <2>2. Cardinality(Registering) > 0
    BY <2>1, RegisteringFinite DEF StrandInv, Cover, TypeOK
  <2>3. Registering # {}
    BY <2>2, FS_EmptySet
  <2> QED BY <2>3 DEF Registering
<1> QED BY <1>1, <1>2, <1>3, TypeCorrect, PTL DEF Spec

-----------------------------------------------------------------------------
(***************************************************************************)
(* Transmissions are bounded                                               *)
(*                                                                         *)
(* A frame of r is transmitted only when it leaves a queue, so what was    *)
(* sent and what is still queued is bounded by the pushes, and these by    *)
(* the loop counter of the supervisor.                                     *)
(***************************************************************************)
Places(q, r) == {i \in DOMAIN q : q[i] = r}
Copies(q, r) == Cardinality(Places(q, r))

\* The pushes the supervisor of r has made, by where it stands.
Pushed(r) ==
  CASE sup[r] \in {"idle", "refused", "holdMon", "spawned"} -> 0
    [] sup[r] = "push" -> retryCounter[r]
    [] OTHER           -> retryCounter[r] + 1

\* Only a request that expects no response passes holdMon, and its counter
\* stays at 0.
CounterInv ==
  \A r \in Requests :
    /\ sup[r] # "spawned" => retryCounter[r] <= Retries[r]
    /\ r \in NoResponse
         => retryCounter[r] = 0 /\ sup[r] \in {"idle", "refused", "holdMon", "done"}
    /\ sup[r] = "holdMon" => r \in NoResponse

PushInv ==
  \A r \in Requests :
    sent[r] + Copies(highPrioTxQueue, r) + Copies(lowPrioTxQueue, r) <= Pushed(r)

\* The copies of a request in a queue can be counted.
LEMMA CopiesType ==
  ASSUME NEW q \in Seq(Requests), NEW r
  PROVE  IsFiniteSet(Places(q, r)) /\ Copies(q, r) \in Nat
<1>1. Places(q, r) \in SUBSET (1 .. Len(q)) /\ Len(q) \in Int
  BY DEF Places
<1>2. IsFiniteSet(1 .. Len(q))
  BY <1>1, FS_Interval
<1>3. IsFiniteSet(Places(q, r))
  BY <1>1, <1>2, FS_Subset
<1> QED BY <1>3, FS_CardinalityType DEF Copies

\* PushBack adds one copy of the request and of no other.
LEMMA CopiesAppend ==
  ASSUME NEW q \in Seq(Requests), NEW r \in Requests, NEW s \in Requests
  PROVE  Copies(Append(q, s), r) = IF r = s THEN Copies(q, r) + 1 ELSE Copies(q, r)
<1>1. /\ DOMAIN Append(q, s) = DOMAIN q \cup {Len(q) + 1} /\ Len(q) + 1 \notin DOMAIN q
      /\ \A i \in DOMAIN q : Append(q, s)[i] = q[i]
      /\ Append(q, s)[Len(q) + 1] = s
  OBVIOUS
<1>2. CASE r = s
  <2>1. Places(Append(q, s), r) = Places(q, r) \cup {Len(q) + 1}
    BY <1>1, <1>2 DEF Places
  <2>2. Len(q) + 1 \notin Places(q, r)
    BY <1>1 DEF Places
  <2> QED BY <1>2, <2>1, <2>2, CopiesType, FS_AddElement DEF Copies
<1>3. CASE r # s
  <2>1. Places(Append(q, s), r) = Places(q, r)
    BY <1>1, <1>3 DEF Places
  <2> QED BY <1>3, <2>1 DEF Copies
<1> QED BY <1>2, <1>3

\* Taking the head off a queue takes off one copy of that request.
LEMMA CopiesTail ==
  ASSUME NEW q \in Seq(Requests), q # <<>>, NEW r \in Requests
  PROVE  /\ Tail(q) \in Seq(Requests) /\ Head(q) \in Requests
         /\ Copies(Tail(q), r) + (IF Head(q) = r THEN 1 ELSE 0) <= Copies(q, r)
<1>1. /\ Tail(q) \in Seq(Requests) /\ Head(q) \in Requests /\ Head(q) = q[1] /\ 1 \in DOMAIN q
      /\ \A i \in DOMAIN Tail(q) : i + 1 \in DOMAIN q /\ Tail(q)[i] = q[i + 1] /\ i \in Nat \ {0}
  OBVIOUS
<1> DEFINE S == Places(Tail(q), r)
           T == Places(q, r) \ {1}
           f == [i \in S |-> i + 1]
<1>2. \A i \in S : i + 1 \in T /\ i \in Nat
  BY <1>1 DEF Places
<1>3. f \in Injection(S, T)
  BY <1>2 DEF Injection, IsInjective
<1>4. /\ IsFiniteSet(T)
      /\ Cardinality(T) = IF 1 \in Places(q, r) THEN Copies(q, r) - 1 ELSE Copies(q, r)
  BY CopiesType, FS_RemoveElement DEF Copies
<1>5. Cardinality(S) <= Cardinality(T)
  <2> HIDE DEF S, T, f
  <2> QED BY <1>3, <1>4, FS_Injection
<1>6. 1 \in Places(q, r) <=> Head(q) = r
  BY <1>1 DEF Places
<1>7. Copies(q, r) \in Nat /\ Cardinality(S) \in Nat
  BY <1>1, CopiesType DEF Copies
<1> QED BY <1>1, <1>4, <1>5, <1>6, <1>7 DEF Copies

\* How the supervisor of r moves in a step that pushes nothing.
Moves(r) ==
  \/ sup'[r] = sup[r] /\ retryCounter'[r] = retryCounter[r]
  \/ /\ sup[r] = "idle" /\ retryCounter'[r] = retryCounter[r]
     /\ \/ sup'[r] = "refused"
        \/ sup'[r] = "holdMon" /\ r \in NoResponse
        \/ sup'[r] = "spawned" /\ r \notin NoResponse
  \/ sup[r] = "spawned" /\ sup'[r] \in {"push", "leave"} /\ retryCounter'[r] = 0
  \/ sup[r] = "register" /\ sup'[r] = "waiting" /\ retryCounter'[r] = retryCounter[r]
  \/ /\ sup[r] = "waiting" /\ sup'[r] \in {"push", "leave"}
     /\ retryCounter[r] < Retries[r] /\ retryCounter'[r] = retryCounter[r] + 1
  \/ sup[r] = "waiting" /\ sup'[r] = "leave" /\ retryCounter'[r] = retryCounter[r]
  \/ sup[r] = "leave" /\ sup'[r] = "done" /\ retryCounter'[r] = retryCounter[r]

TransmitInv == CounterInv /\ PushInv

\* Every such move keeps the bound on the retries and takes back no push.
LEMMA MovesKeep ==
  ASSUME TypeOK, TransmitInv, UNCHANGED <<highPrioTxQueue, lowPrioTxQueue, sent>>,
         \A r \in Requests : Moves(r)
  PROVE  TransmitInv'
<1> SUFFICES ASSUME NEW r \in Requests
             PROVE  /\ sup'[r] # "spawned" => retryCounter'[r] <= Retries[r]
                    /\ r \in NoResponse => /\ retryCounter'[r] = 0
                                           /\ sup'[r] \in {"idle", "refused", "holdMon", "done"}
                    /\ sup'[r] = "holdMon" => r \in NoResponse
                    /\ sent[r] + Copies(highPrioTxQueue, r) + Copies(lowPrioTxQueue, r)
                         <= Pushed(r)'
  BY DEF TransmitInv, CounterInv, PushInv
<1>1. /\ sent[r] \in Nat /\ Copies(highPrioTxQueue, r) \in Nat /\ Copies(lowPrioTxQueue, r) \in Nat
      /\ retryCounter[r] \in Nat /\ Retries[r] \in Nat
  BY CopiesType, ConstantsAssumption DEF TypeOK
<1>2. /\ sup[r] # "spawned" => retryCounter[r] <= Retries[r]
      /\ r \in NoResponse => /\ retryCounter[r] = 0
                             /\ sup[r] \in {"idle", "refused", "holdMon", "done"}
      /\ sup[r] = "holdMon" => r \in NoResponse
      /\ sent[r] + Copies(highPrioTxQueue, r) + Copies(lowPrioTxQueue, r) <= Pushed(r)
  BY DEF TransmitInv, CounterInv, PushInv
<1>3. Moves(r)
  OBVIOUS
<1>4. /\ sup'[r] # "spawned" => retryCounter'[r] <= Retries[r]
      /\ r \in NoResponse => /\ retryCounter'[r] = 0
                             /\ sup'[r] \in {"idle", "refused", "holdMon", "done"}
      /\ sup'[r] = "holdMon" => r \in NoResponse
  BY <1>1, <1>2, <1>3 DEF Moves
<1>5. Pushed(r) \in Nat /\ Pushed(r)' \in Nat /\ Pushed(r) <= Pushed(r)'
  BY <1>1, <1>2, <1>3 DEF Moves, Pushed
<1>6. PICK n \in Nat : n = sent[r] + Copies(highPrioTxQueue, r) + Copies(lowPrioTxQueue, r)
  BY <1>1
<1> QED BY <1>2, <1>4, <1>5, <1>6

\* A push of a request that has a push left.
LEMMA PushStep ==
  ASSUME TypeOK, TransmitInv, NEW r \in Requests, Enqueue(r),
         UNCHANGED <<retryCounter, sent>>,
         \/ sup[r] = "push" /\ sup' = [sup EXCEPT ![r] = "register"]
         \/ sup[r] = "holdMon" /\ sup' = [sup EXCEPT ![r] = "done"]
  PROVE  TransmitInv'
<1>1. /\ highPrioTxQueue \in Seq(Requests) /\ lowPrioTxQueue \in Seq(Requests)
      /\ sup \in [Requests -> SupStates] /\ retryCounter \in [Requests -> Nat]
      /\ sent \in [Requests -> Nat]
  BY DEF TypeOK
<1>2. ASSUME NEW s \in Requests
      PROVE  /\ Copies(highPrioTxQueue, s) \in Nat /\ Copies(lowPrioTxQueue, s) \in Nat
             /\ Copies(highPrioTxQueue, s)' \in Nat /\ Copies(lowPrioTxQueue, s)' \in Nat
             /\ Copies(highPrioTxQueue, s)' + Copies(lowPrioTxQueue, s)'
                  = Copies(highPrioTxQueue, s) + Copies(lowPrioTxQueue, s)
                      + (IF s = r THEN 1 ELSE 0)
  <2>1. Copies(highPrioTxQueue, s) \in Nat /\ Copies(lowPrioTxQueue, s) \in Nat
    BY <1>1, CopiesType
  <2>2. CASE r \in HighPrio
    <3>1. /\ Copies(highPrioTxQueue, s)' = Copies(Append(highPrioTxQueue, r), s)
          /\ Copies(lowPrioTxQueue, s)' = Copies(lowPrioTxQueue, s)
      BY <2>2 DEF Enqueue, Copies, Places
    <3>2. Copies(Append(highPrioTxQueue, r), s)
            = IF s = r THEN Copies(highPrioTxQueue, s) + 1 ELSE Copies(highPrioTxQueue, s)
      BY <1>1, CopiesAppend
    <3> QED BY <2>1, <3>1, <3>2
  <2>3. CASE r \notin HighPrio
    <3>1. /\ Copies(lowPrioTxQueue, s)' = Copies(Append(lowPrioTxQueue, r), s)
          /\ Copies(highPrioTxQueue, s)' = Copies(highPrioTxQueue, s)
      BY <2>3 DEF Enqueue, Copies, Places
    <3>2. Copies(Append(lowPrioTxQueue, r), s)
            = IF s = r THEN Copies(lowPrioTxQueue, s) + 1 ELSE Copies(lowPrioTxQueue, s)
      BY <1>1, CopiesAppend
    <3> QED BY <2>1, <3>1, <3>2
  <2> QED BY <2>2, <2>3
<1>3. CounterInv'
  BY <1>1 DEF TransmitInv, CounterInv
<1>4. PushInv'
  <2> SUFFICES ASSUME NEW s \in Requests
               PROVE  sent[s] + Copies(highPrioTxQueue, s)' + Copies(lowPrioTxQueue, s)'
                        <= Pushed(s)'
    BY DEF PushInv
  <2>1. sent[s] + Copies(highPrioTxQueue, s) + Copies(lowPrioTxQueue, s) <= Pushed(s)
    BY DEF TransmitInv, PushInv
  <2>2. /\ Pushed(s) \in Nat /\ Pushed(s)' \in Nat
        /\ Pushed(s)' = Pushed(s) + (IF s = r THEN 1 ELSE 0)
    <3>1. retryCounter[s] \in Nat /\ retryCounter'[s] = retryCounter[s]
      BY <1>1
    <3>2. CASE s # r
      BY <3>1, <3>2, <1>1 DEF Pushed
    <3>3. CASE s = r
      BY <3>1, <3>3, <1>1 DEF Pushed, TransmitInv, CounterInv
    <3> QED BY <3>2, <3>3
  <2>3. sent[s] \in Nat
    BY <1>1
  <2> HIDE DEF Copies, Pushed
  <2> QED BY <1>2, <2>1, <2>2, <2>3
<1> QED BY <1>3, <1>4 DEF TransmitInv

\* A frame leaves the front of a queue, transmitted or not.
LEMMA DequeueStep ==
  ASSUME TypeOK, TransmitInv, NEW q \in {highPrioTxQueue, lowPrioTxQueue}, q # <<>>,
         \/ q = highPrioTxQueue /\ highPrioTxQueue' = Tail(q) /\ UNCHANGED lowPrioTxQueue
         \/ q = lowPrioTxQueue /\ lowPrioTxQueue' = Tail(q) /\ UNCHANGED highPrioTxQueue,
         UNCHANGED <<sup, retryCounter>>,
         UNCHANGED sent \/ sent' = [sent EXCEPT ![Head(q)] = @ + 1]
  PROVE  TransmitInv'
<1>1. /\ highPrioTxQueue \in Seq(Requests) /\ lowPrioTxQueue \in Seq(Requests)
      /\ sent \in [Requests -> Nat] /\ retryCounter \in [Requests -> Nat]
      /\ q \in Seq(Requests)
  BY DEF TypeOK
<1>2. CounterInv'
  BY DEF TransmitInv, CounterInv
<1>3. PushInv'
  <2> SUFFICES ASSUME NEW r \in Requests
               PROVE  sent'[r] + Copies(highPrioTxQueue, r)' + Copies(lowPrioTxQueue, r)'
                        <= Pushed(r)
    BY DEF PushInv, Pushed
  <2>1. sent[r] + Copies(highPrioTxQueue, r) + Copies(lowPrioTxQueue, r) <= Pushed(r)
    BY DEF TransmitInv, PushInv
  <2>2. /\ Copies(highPrioTxQueue, r) \in Nat /\ Copies(lowPrioTxQueue, r) \in Nat
        /\ sent[r] \in Nat /\ Pushed(r) \in Nat
    BY <1>1, CopiesType DEF Pushed
  <2>3. /\ Tail(q) \in Seq(Requests) /\ Head(q) \in Requests
        /\ Copies(Tail(q), r) + (IF Head(q) = r THEN 1 ELSE 0) <= Copies(q, r)
    BY <1>1, CopiesTail
  <2>4. sent'[r] \in Nat /\ sent'[r] <= sent[r] + (IF Head(q) = r THEN 1 ELSE 0)
    BY <1>1, <2>3
  <2>5. Copies(Tail(q), r) \in Nat
    BY <2>3, CopiesType
  <2>6. CASE q = highPrioTxQueue /\ highPrioTxQueue' = Tail(q) /\ UNCHANGED lowPrioTxQueue
    <3>1. /\ Copies(highPrioTxQueue, r)' = Copies(Tail(q), r)
          /\ Copies(lowPrioTxQueue, r)' = Copies(lowPrioTxQueue, r)
      BY <2>6 DEF Copies, Places
    <3> QED BY <2>1, <2>2, <2>3, <2>4, <2>5, <2>6, <3>1
  <2>7. CASE q = lowPrioTxQueue /\ lowPrioTxQueue' = Tail(q) /\ UNCHANGED highPrioTxQueue
    <3>1. /\ Copies(lowPrioTxQueue, r)' = Copies(Tail(q), r)
          /\ Copies(highPrioTxQueue, r)' = Copies(highPrioTxQueue, r)
      BY <2>7 DEF Copies, Places
    <3> QED BY <2>1, <2>2, <2>3, <2>4, <2>5, <2>7, <3>1
  <2> QED BY <2>6, <2>7
<1> QED BY <1>2, <1>3 DEF TransmitInv

\* Every supervisor moves, or stands still, in the steps that push nothing.
LEMMA SupervisorMoves ==
  ASSUME TypeOK, NEW r \in Requests,
         \/ Send(r) \/ SendWindow(r) \/ SupRegister(r) \/ SupSelect(r) \/ SupRetry(r)
         \/ SupGiveUp(r) \/ SupCtxDone(r) \/ SupLeave(r) \/ CbSignal(r) \/ CbVerifyDone(r)
         \/ CancelRequestMonitoring \/ DeleteCancel
  PROVE  /\ \A s \in Requests : Moves(s)
         /\ UNCHANGED <<highPrioTxQueue, lowPrioTxQueue, sent>>
<1>0. /\ sup \in [Requests -> SupStates] /\ retryCounter \in [Requests -> Nat]
      /\ monitoredRequests \in [Tids -> Requests \cup {None}]
      /\ TidOf \in [Requests -> Tids] /\ None \notin Requests
  BY ConstantsAssumption DEF TypeOK
<1> USE DEF queueVars, histVars, Moves
<1>1. CASE Send(r)
  BY <1>0, <1>1 DEF Send
<1>2. CASE SendWindow(r)
  BY <1>0, <1>2, ConstantsAssumption DEF SendWindow
<1>3. CASE SupRegister(r)
  BY <1>0, <1>3 DEF SupRegister, LoopHead
<1>4. CASE SupRetry(r)
  BY <1>0, <1>4 DEF SupRetry, LoopHead
<1>5. CASE SupSelect(r)
  BY <1>0, <1>5 DEF SupSelect
<1>6. CASE SupGiveUp(r) \/ SupCtxDone(r) \/ SupLeave(r)
  BY <1>0, <1>6 DEF SupGiveUp, SupCtxDone, SupLeave
<1>7. CASE CbSignal(r)
  BY <1>0, <1>7 DEF CbSignal, supVars
<1>8. CASE CbVerifyDone(r)
  BY <1>0, <1>8 DEF CbVerifyDone
<1>9. CASE CancelRequestMonitoring \/ DeleteCancel
  BY <1>0, <1>9 DEF CancelRequestMonitoring, DeleteCancel, CancelWaiting, Cancellable
<1> QED BY <1>1, <1>2, <1>3, <1>4, <1>5, <1>6, <1>7, <1>8, <1>9

\* TransmitBound holds of every execution: a frame without response is
\* transmitted at most once, a supervised one at most once per attempt, for
\* any number of clients, retries, late responses and cancellations.
THEOREM TransmissionsBounded == Spec => []TransmitBound
<1>1. Init => TransmitInv
  <2> SUFFICES ASSUME Init PROVE TransmitInv
    OBVIOUS
  <2>1. highPrioTxQueue = <<>> /\ lowPrioTxQueue = <<>>
    BY DEF Init
  <2>2. \A r : Copies(highPrioTxQueue, r) = 0 /\ Copies(lowPrioTxQueue, r) = 0
    <3>1. \A r : Places(highPrioTxQueue, r) = {} /\ Places(lowPrioTxQueue, r) = {}
      BY <2>1 DEF Places
    <3> QED BY <3>1, FS_EmptySet DEF Copies
  <2> QED BY <2>2, ConstantsAssumption DEF Init, TransmitInv, CounterInv, PushInv, Pushed
<1>2. TypeOK /\ TransmitInv /\ [Next]_vars => TransmitInv'
  <2> SUFFICES ASSUME TypeOK, TransmitInv, [Next]_vars PROVE TransmitInv'
    OBVIOUS
  <2>0. ASSUME UNCHANGED <<highPrioTxQueue, lowPrioTxQueue, sent, sup, retryCounter>>
        PROVE  TransmitInv'
    BY <2>0, MovesKeep DEF Moves
  <2>1. ASSUME NEW r \in Requests,
               \/ Send(r) \/ SendWindow(r) \/ SupRegister(r) \/ SupSelect(r) \/ SupRetry(r)
               \/ SupGiveUp(r) \/ SupCtxDone(r) \/ SupLeave(r) \/ CbSignal(r)
               \/ CbVerifyDone(r)
        PROVE  TransmitInv'
    BY <2>1, SupervisorMoves, MovesKeep
  <2>2. ASSUME NEW r \in Requests, PushNoResponse(r) \/ SupPush(r) PROVE TransmitInv'
    <3>1. /\ Enqueue(r) /\ UNCHANGED <<retryCounter, sent>>
          /\ \/ sup[r] = "push" /\ sup' = [sup EXCEPT ![r] = "register"]
             \/ sup[r] = "holdMon" /\ sup' = [sup EXCEPT ![r] = "done"]
      BY <2>2 DEF PushNoResponse, SupPush
    <3> QED BY <3>1, PushStep
  <2>3. ASSUME NEW r \in Requests,
               \/ ClientRead(r) \/ CbAbandon(r) \/ CbVerify(r)
               \/ ReceiveMessage(r) \/ ReceiveGarbled(r)
        PROVE  TransmitInv'
    BY <2>0, <2>3 DEF ClientRead, CbAbandon, CbVerify, ReceiveMessage, ReceiveGarbled,
                      queueVars, supVars, histVars
  <2>4. ASSUME NEW t \in Tids, ReceiveAutonomous(t) PROVE TransmitInv'
    BY <2>0, <2>4 DEF ReceiveAutonomous, queueVars, supVars, histVars
  <2>5. CASE DrainStart \/ LowEnter \/ LowEnd \/ LowUnregister \/ LowRelock
    BY <2>0, <2>5 DEF DrainStart, LowEnter, LowEnd, LowUnregister, LowRelock,
                      queueVars, supVars, histVars
  <2>6. ASSUME NEW walk, NEW after, HighEnd(walk, after) PROVE TransmitInv'
    BY <2>0, <2>6 DEF HighEnd, queueVars, supVars, histVars
  <2>7. ASSUME NEW walk, HighSent(walk) \/ HighFailed(walk) PROVE TransmitInv'
    <3>1. /\ highPrioTxQueue # <<>> /\ highPrioTxQueue' = Tail(highPrioTxQueue)
          /\ UNCHANGED <<lowPrioTxQueue, sup, retryCounter>>
          /\ UNCHANGED sent \/ sent' = [sent EXCEPT ![Head(highPrioTxQueue)] = @ + 1]
      BY <2>7 DEF HighSent, HighFailed, Transmit, supVars, histVars
    <3> QED BY <3>1, DequeueStep
  <2>8. CASE LowSent \/ LowFailed
    <3>1. /\ lowPrioTxQueue # <<>> /\ lowPrioTxQueue' = Tail(lowPrioTxQueue)
          /\ UNCHANGED <<highPrioTxQueue, sup, retryCounter>>
          /\ UNCHANGED sent \/ sent' = [sent EXCEPT ![Head(lowPrioTxQueue)] = @ + 1]
      BY <2>8 DEF LowSent, LowFailed, Transmit, supVars, histVars
    <3> QED BY <3>1, DequeueStep
  <2>9. CASE CancelRequestMonitoring \/ DeleteCancel
    <3>1. CASE Requests = {}
      BY <3>1 DEF TransmitInv, CounterInv, PushInv
    <3>2. CASE Requests # {}
      BY <3>2, <2>9, SupervisorMoves, MovesKeep
    <3> QED BY <3>1, <3>2
  <2>10. CASE DeleteDevice \/ PrepareForGarbageCollection \/ UNCHANGED vars
    BY <2>0, <2>10 DEF DeleteDevice, PrepareForGarbageCollection, vars, queueVars, supVars, histVars
  <2> QED
    BY <2>1, <2>2, <2>3, <2>4, <2>5, <2>6, <2>7, <2>8, <2>9, <2>10
       DEF Next, Supervise, Respond, Drain
<1>3. TypeOK /\ TransmitInv => TransmitBound
  <2> SUFFICES ASSUME TypeOK, TransmitInv, NEW r \in Requests
               PROVE  sent[r] <= IF r \in NoResponse THEN 1 ELSE Retries[r] + 1
    BY DEF TransmitBound
  <2>1. /\ sent[r] \in Nat /\ retryCounter[r] \in Nat /\ Retries[r] \in Nat
        /\ Copies(highPrioTxQueue, r) \in Nat /\ Copies(lowPrioTxQueue, r) \in Nat
    BY CopiesType, ConstantsAssumption DEF TypeOK
  <2>2. sent[r] + Copies(highPrioTxQueue, r) + Copies(lowPrioTxQueue, r) <= Pushed(r)
    BY DEF TransmitInv, PushInv
  <2>3. Pushed(r) \in Nat /\ Pushed(r) <= IF r \in NoResponse THEN 1 ELSE Retries[r] + 1
    BY <2>1 DEF Pushed, TransmitInv, CounterInv
  <2> HIDE DEF Copies, Pushed
  <2> QED BY <2>1, <2>2, <2>3
<1> QED BY <1>1, <1>2, <1>3, TypeCorrect, PTL DEF Spec
-----------------------------------------------------------------------------
\* The states of a supervisor that will still remove its entry.
Supervised == {"push", "register", "waiting", "leave"}

\* A step that leaves the map alone and ends no supervisor keeps the entries
\* supervised.
LEMMA MonitoredKeep ==
  ASSUME TypeOK, MonitoredIsSupervised, UNCHANGED monitoredRequests,
         \A q \in Requests : sup[q] \in Supervised => sup'[q] \in Supervised
  PROVE  MonitoredIsSupervised'
<1> SUFFICES ASSUME NEW t \in Tids, monitoredRequests'[t] # None
             PROVE  /\ TidOf[monitoredRequests'[t]] = t
                    /\ sup'[monitoredRequests'[t]] \in Supervised
  BY DEF MonitoredIsSupervised, Supervised
<1>1. monitoredRequests[t] \in Requests /\ monitoredRequests'[t] = monitoredRequests[t]
  BY DEF TypeOK
<1>2. TidOf[monitoredRequests[t]] = t /\ sup[monitoredRequests[t]] \in Supervised
  BY DEF MonitoredIsSupervised, Supervised
<1> QED BY <1>1, <1>2

\* No entry of monitoredRequests outlives its supervisor, for any requests
\* and identifiers: whatever ends the supervision passes the removal of the
\* entry, also when another request has taken the entry over.
THEOREM NoIdentifierBlocked == Spec => []MonitoredIsSupervised
<1>1. Init => MonitoredIsSupervised
  BY DEF Init, MonitoredIsSupervised
<1>2. TypeOK /\ MonitoredIsSupervised /\ [Next]_vars => MonitoredIsSupervised'
  <2> SUFFICES ASSUME TypeOK, MonitoredIsSupervised, [Next]_vars
               PROVE  MonitoredIsSupervised'
    OBVIOUS
  <2>tid. TidOf \in [Requests -> Tids]
    BY ConstantsAssumption
  <2>0. ASSUME UNCHANGED <<monitoredRequests, sup>>
        PROVE  MonitoredIsSupervised'
    BY <2>0 DEF MonitoredIsSupervised
  <2>1. ASSUME NEW r \in Requests,
               Send(r) \/ SendWindow(r) \/ PushNoResponse(r)
        PROVE  MonitoredIsSupervised'
    <3>1. sup[r] \in {"idle", "holdMon"} /\ UNCHANGED monitoredRequests
      BY <2>1 DEF Send, SendWindow, PushNoResponse, monVars
    <3>2. \A q \in Requests : q # r => sup'[q] = sup[q]
      BY <2>1 DEF Send, SendWindow, PushNoResponse, TypeOK
    <3> QED BY <3>1, <3>2, MonitoredKeep DEF Supervised
  <2>2. ASSUME NEW r \in Requests, SupRegister(r)
        PROVE  MonitoredIsSupervised'
    <3>1. sup'[r] \in {"push", "leave"} /\ \A q \in Requests : q # r => sup'[q] = sup[q]
      BY <2>2 DEF SupRegister, LoopHead, TypeOK
    <3>2. monitoredRequests' = [monitoredRequests EXCEPT ![TidOf[r]] = r]
      BY <2>2 DEF SupRegister
    <3> SUFFICES ASSUME NEW t \in Tids, monitoredRequests'[t] # None
                 PROVE  /\ TidOf[monitoredRequests'[t]] = t
                        /\ sup'[monitoredRequests'[t]] \in Supervised
      BY DEF MonitoredIsSupervised, Supervised
    <3>3. CASE t = TidOf[r]
      BY <2>tid, <3>1, <3>2, <3>3 DEF TypeOK, Supervised
    <3>4. CASE t # TidOf[r]
      <4>1. monitoredRequests'[t] = monitoredRequests[t] /\ monitoredRequests[t] \in Requests
        BY <3>2, <3>4 DEF TypeOK
      <4>2. TidOf[monitoredRequests[t]] = t /\ sup[monitoredRequests[t]] \in Supervised
        BY <4>1 DEF MonitoredIsSupervised, Supervised
      <4>3. monitoredRequests[t] # r
        BY <3>4, <4>2
      <4> QED BY <3>1, <4>1, <4>2, <4>3
    <3> QED BY <3>3, <3>4
  <2>3. ASSUME NEW r \in Requests,
               SupPush(r) \/ SupSelect(r) \/ SupRetry(r) \/ SupGiveUp(r) \/ SupCtxDone(r)
        PROVE  MonitoredIsSupervised'
    <3>1. /\ sup'[r] \in {"push", "register", "waiting", "leave"}
          /\ \A q \in Requests : q # r => sup'[q] = sup[q]
      BY <2>3 DEF SupPush, SupSelect, SupRetry, SupGiveUp, SupCtxDone, LoopHead, TypeOK
    <3>2. UNCHANGED monitoredRequests
      BY <2>3 DEF SupPush, SupSelect, SupRetry, SupGiveUp, SupCtxDone, monVars
    <3> QED BY <3>1, <3>2, MonitoredKeep DEF Supervised
  <2>4. ASSUME NEW r \in Requests, SupLeave(r)
        PROVE  MonitoredIsSupervised'
    <3>1. \A q \in Requests : q # r => sup'[q] = sup[q]
      BY <2>4 DEF SupLeave, TypeOK
    <3>2. monitoredRequests' = [monitoredRequests EXCEPT ![TidOf[r]] = None]
      BY <2>4 DEF SupLeave
    <3> SUFFICES ASSUME NEW t \in Tids, monitoredRequests'[t] # None
                 PROVE  /\ TidOf[monitoredRequests'[t]] = t
                        /\ sup'[monitoredRequests'[t]] \in Supervised
      BY DEF MonitoredIsSupervised, Supervised
    <3>3. CASE t = TidOf[r]
      BY <2>tid, <3>1, <3>2, <3>3 DEF TypeOK, Supervised
    <3>4. CASE t # TidOf[r]
      <4>1. monitoredRequests'[t] = monitoredRequests[t] /\ monitoredRequests[t] \in Requests
        BY <3>2, <3>4 DEF TypeOK
      <4>2. TidOf[monitoredRequests[t]] = t /\ sup[monitoredRequests[t]] \in Supervised
        BY <4>1 DEF MonitoredIsSupervised, Supervised
      <4>3. monitoredRequests[t] # r
        BY <3>4, <4>2
      <4> QED BY <3>1, <4>1, <4>2, <4>3
    <3> QED BY <3>3, <3>4
  <2>5. ASSUME NEW r \in Requests, Respond(r)
        PROVE  MonitoredIsSupervised'
    <3>1. \A q \in Requests : sup'[q] = sup[q] \/ sup'[q] = "leave"
      BY <2>5 DEF Respond, CbSignal, CbAbandon, CbVerify, CbVerifyDone, supVars, TypeOK
    <3>2. UNCHANGED monitoredRequests
      BY <2>5 DEF Respond, CbSignal, CbAbandon, CbVerify, CbVerifyDone, monVars
    <3> QED BY <3>1, <3>2, MonitoredKeep DEF Supervised
  <2>6. CASE CancelRequestMonitoring \/ DeleteCancel
    <3>1. \A q \in Requests : sup'[q] = sup[q] \/ sup'[q] = "leave"
      BY <2>6 DEF CancelRequestMonitoring, DeleteCancel, CancelWaiting, TypeOK
    <3>2. UNCHANGED monitoredRequests
      BY <2>6 DEF CancelRequestMonitoring, DeleteCancel, monVars
    <3> QED BY <3>1, <3>2, MonitoredKeep DEF Supervised
  <2>7. ASSUME NEW r \in Requests,
               ClientRead(r) \/ ReceiveMessage(r) \/ ReceiveGarbled(r)
        PROVE  MonitoredIsSupervised'
    BY <2>0, <2>7 DEF ClientRead, ReceiveMessage, ReceiveGarbled, monVars, supVars
  <2>8. ASSUME NEW t \in Tids, ReceiveAutonomous(t)
        PROVE  MonitoredIsSupervised'
    BY <2>0, <2>8 DEF ReceiveAutonomous, monVars, supVars
  <2>9. CASE DrainStart \/ Drain
    BY <2>0, <2>9 DEF DrainStart, Drain, HighEnd, HighSent, HighFailed, LowEnter,
       LowEnd, LowSent, LowFailed, LowUnregister, LowRelock, monVars, supVars
  <2>10. CASE DeleteDevice \/ PrepareForGarbageCollection \/ UNCHANGED vars
    BY <2>0, <2>10 DEF DeleteDevice, PrepareForGarbageCollection, monVars, supVars, vars
  <2> QED
    BY <2>1, <2>2, <2>3, <2>4, <2>5, <2>6, <2>7, <2>8, <2>9, <2>10 DEF Next, Supervise
<1> QED
  BY <1>1, <1>2, TypeCorrect, PTL DEF Spec
=============================================================================
