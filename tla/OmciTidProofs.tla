--------------------------- MODULE OmciTidProofs ----------------------------
(* Theorems about OmciTid for every size of the identifier space.           *)
EXTENDS OmciTid, TLAPS

\* Type correctness: the low counter stays between 1 and 0x8000, the high
\* one between 0x8000 and 0xFFFF, in spite of the uint16 overflow.  Both
\* ranges hold 0x8000, which the low counter may hand out.
THEOREM TidTypeCorrect == Spec => []TypeOK
<1> USE TidAssumption
<1>1. Init => TypeOK
  BY DEF Init, TypeOK
<1>2. TypeOK /\ [Next]_vars => TypeOK'
  <2> SUFFICES ASSUME TypeOK, [Next]_vars PROVE TypeOK'
    OBVIOUS
  <2>1. \A t \in 1 .. Half : Inc16(t) = t + 1
    BY DEF Inc16
  <2>2. \A t \in Half .. 2 * Half - 1 : WrapHigh(Inc16(t)) \in Half .. 2 * Half - 1
    <3>1. SUFFICES ASSUME NEW t \in Half .. 2 * Half - 1
                   PROVE  WrapHigh(Inc16(t)) \in Half .. 2 * Half - 1
      OBVIOUS
    <3>2. CASE t = 2 * Half - 1
      BY <3>2 DEF WrapHigh, Inc16
    <3>3. CASE t # 2 * Half - 1
      BY <3>3 DEF WrapHigh, Inc16
    <3> QED BY <3>2, <3>3
  <2>a. ASSUME NEW S, NEW s \in Seq(S), NEW t \in S PROVE Remember(s, t) \in Seq(S)
    <3>1. CASE Len(s) = Half - 1
      <4>1. s # <<>>
        BY <3>1
      <4>2. Append(Tail(s), t) \in Seq(S)
        BY <4>1
      <4> QED BY <3>1, <4>2 DEF Remember
    <3>2. CASE Len(s) # Half - 1
      BY <3>2 DEF Remember
    <3> QED BY <3>1, <3>2
  <2>3. /\ \A t \in 1 .. Half : Remember(low, t) \in Seq(1 .. Half)
        /\ \A t \in Half .. 2 * Half - 1 : Remember(high, t) \in Seq(Half .. 2 * Half - 1)
    BY <2>a DEF TypeOK
  <2>4. CASE GetNextTidHigh
    BY <2>4, <2>2, <2>3 DEF GetNextTidHigh, TypeOK
  <2>5. CASE GetNextTidLow
    <3>1. WrapLow(Inc16(tid)) \in 1 .. Half
      BY <2>1 DEF TypeOK, WrapLow
    <3>2. (low \in Seq(1 .. Half))'
      BY <2>5, <2>3 DEF GetNextTidLow, TypeOK
    <3> QED BY <3>1, <3>2, <2>5 DEF GetNextTidLow, TypeOK
  <2>6. CASE LockMutexTID \/ UnLockMutexTID
    BY <2>6 DEF LockMutexTID, UnLockMutexTID, TypeOK
  <2>7. CASE GetOnuSwSecNextTid
    <3>1. WrapLow(tid) \in 1 .. Half - 1
      BY DEF TypeOK, WrapLow
    <3>2. (low \in Seq(1 .. Half))'
      BY <3>1, <2>7, <2>3 DEF GetOnuSwSecNextTid
    <3>3. (tid \in 1 .. Half /\ lastSection \in 0 .. Half)'
      BY <3>1, <2>7, <2>1 DEF GetOnuSwSecNextTid
    <3>4. (sections \in 0 .. MaxSections)'
      BY <2>7 DEF GetOnuSwSecNextTid, TypeOK
    <3> QED BY <3>2, <3>3, <3>4, <2>7 DEF GetOnuSwSecNextTid, TypeOK
  <2> QED
    BY <2>4, <2>5, <2>6, <2>7 DEF Next, vars, TypeOK
<1> QED BY <1>1, <1>2, PTL DEF Spec

\* The identifier under which a window registers its callback is the one of
\* its last section, and a low priority one, wherever the counter wraps.
THEOREM WindowAckTidHolds == Spec => []WindowAckTid
<1> USE TidAssumption
<1> DEFINE Inv == mutexTid = "window" /\ sections > 0 => tid = lastSection + 1 /\ lastSection < Half
<1>1. Init => Inv
  BY DEF Init
<1>2. TypeOK /\ Inv /\ [Next]_vars => Inv'
  <2> SUFFICES ASSUME TypeOK, Inv, [Next]_vars PROVE Inv'
    OBVIOUS
  <2>1. CASE GetOnuSwSecNextTid
    <3>1. WrapLow(tid) \in 1 .. Half - 1
      BY DEF TypeOK, WrapLow
    <3> QED BY <3>1, <2>1 DEF GetOnuSwSecNextTid, Inc16
  <2>2. CASE GetNextTidHigh \/ GetNextTidLow \/ LockMutexTID \/ UnLockMutexTID
    BY <2>2 DEF GetNextTidHigh, GetNextTidLow, LockMutexTID, UnLockMutexTID
  <2> QED BY <2>1, <2>2 DEF Next, vars
<1>3. TypeOK /\ Inv => WindowAckTid
  BY DEF TypeOK, WindowAckTid, GetOnuSwSecLastTid
<1> QED BY <1>1, <1>2, <1>3, TidTypeCorrect, PTL DEF Spec
(***************************************************************************)
(* No early reuse                                                          *)
(*                                                                         *)
(* The histories are determined by the counters: the identifier given out  *)
(* k allocations ago is the counter less k, folded back into the round.    *)
(* The high counter always runs through Half identifiers.  A round of the  *)
(* low one has Half - 1 of them, or Half when a window left the counter at *)
(* Half and a single request was given that identifier; "round" says which *)
(* was the case when the counter last started again at 1.                  *)
(***************************************************************************)
HighAgo(t, k) == IF t - k >= Half THEN t - k ELSE t - k + Half
LowAgo(t, round, k) == IF k < t THEN t - k ELSE t - k + round

HighHistory ==
  /\ Len(high) <= Half - 1
  /\ \A i \in 1 .. Len(high) : high[i] = HighAgo(hpTid, Len(high) + 1 - i)

LowHistory(round) ==
  /\ Len(low) <= Half - 1
  /\ \A i \in 1 .. Len(low) : low[i] = LowAgo(tid, round, Len(low) + 1 - i)

HistoryInv == HighHistory /\ \E round \in {Half - 1, Half} : LowHistory(round)

\* What Remember leaves of a history: the new identifier is the last one,
\* and every other moves back by one, the oldest out of the history.
Moved(s, t, r) ==
  /\ Len(r) \in 1 .. Half - 1
  /\ r[Len(r)] = t
  /\ \A i \in 1 .. Len(r) - 1 :
       /\ Len(s) - (Len(r) - 1 - i) \in 1 .. Len(s)
       /\ r[i] = s[Len(s) - (Len(r) - 1 - i)]

LEMMA RememberLemma ==
  ASSUME NEW S, NEW s \in Seq(S), NEW t \in S, Len(s) <= Half - 1
  PROVE  Moved(s, t, Remember(s, t))
<1> USE TidAssumption
<1>1. CASE Len(s) = Half - 1
  <2>1. s # <<>> /\ Tail(s) \in Seq(S) /\ Len(Tail(s)) = Half - 2
    BY <1>1
  <2>2. \A i \in 1 .. Half - 2 : Tail(s)[i] = s[i + 1]
    BY <1>1, <2>1
  <2>3. Remember(s, t) = Append(Tail(s), t)
    BY <1>1 DEF Remember
  <2>4. Len(Append(Tail(s), t)) = Half - 1
    BY <2>1
  <2> QED BY <1>1, <2>1, <2>2, <2>3, <2>4 DEF Moved
<1>2. CASE Len(s) # Half - 1
  <2>1. Remember(s, t) = Append(s, t)
    BY <1>2 DEF Remember
  <2> QED BY <1>2, <2>1 DEF Moved
<1> QED BY <1>1, <1>2

\* An allocation of the high counter moves every identifier one back.
LEMMA HighStep ==
  ASSUME TypeOK, HighHistory, GetNextTidHigh PROVE HighHistory'
<1> USE TidAssumption
<1> PICK r : r = Remember(high, hpTid)
  OBVIOUS
<1>0. Moved(high, hpTid, r)
  <2>1. high \in Seq(Half .. 2 * Half - 1) /\ hpTid \in Half .. 2 * Half - 1 /\ Len(high) <= Half - 1
    BY DEF TypeOK, HighHistory
  <2> QED BY <2>1, RememberLemma
<1>1. /\ Len(r) \in 1 .. Half - 1
      /\ r[Len(r)] = hpTid
      /\ \A i \in 1 .. Len(r) - 1 :
           /\ Len(high) - (Len(r) - 1 - i) \in 1 .. Len(high)
           /\ r[i] = high[Len(high) - (Len(r) - 1 - i)]
  BY <1>0 DEF Moved
<1>2. Len(high) \in Nat /\ Len(high) <= Half - 1 /\ hpTid \in Half .. 2 * Half - 1
  BY DEF TypeOK, HighHistory
<1>3. hpTid' = IF hpTid = 2 * Half - 1 THEN Half ELSE hpTid + 1
  <2>1. CASE hpTid = 2 * Half - 1
    BY <2>1 DEF GetNextTidHigh, WrapHigh, Inc16
  <2>2. CASE hpTid # 2 * Half - 1
    <3>1. hpTid + 1 \in Half .. 2 * Half - 1
      BY <2>2, <1>2
    <3>2. Inc16(hpTid) = hpTid + 1
      BY <3>1 DEF Inc16
    <3> QED BY <3>1, <3>2, <2>2 DEF GetNextTidHigh, WrapHigh
  <2> QED BY <2>1, <2>2
<1>4. high' = r
  BY DEF GetNextTidHigh
<1>5. ASSUME NEW i \in 1 .. Len(r) PROVE r[i] = HighAgo(hpTid', Len(r) + 1 - i)
  <2> DEFINE k == Len(r) + 1 - i
  <2>1. CASE i = Len(r)
    BY <2>1, <1>1, <1>2, <1>3 DEF HighAgo
  <2>2. CASE i # Len(r)
    <3> DEFINE j == Len(high) - (Len(r) - 1 - i)
    <3>1. i \in 1 .. Len(r) - 1
      BY <2>2, <1>1
    <3>2. j \in 1 .. Len(high) /\ r[i] = high[j]
      BY <3>1, <1>1
    <3>3. high[j] = HighAgo(hpTid, Len(high) + 1 - j)
      BY <3>2 DEF HighHistory
    <3>4. Len(high) + 1 - j = k - 1
      BY <1>1, <1>2
    <3>5. k \in 2 .. Half - 1
      BY <3>1, <1>1
    <3>6. HighAgo(hpTid, k - 1) = HighAgo(hpTid', k)
      <4> HIDE DEF k
      <4> QED BY <3>5, <1>2, <1>3 DEF HighAgo
    <3> QED BY <3>2, <3>3, <3>4, <3>6
  <2> QED BY <2>1, <2>2
<1> QED BY <1>1, <1>4, <1>5 DEF HighHistory

\* An allocation of the low counter does too, whichever of the two functions
\* makes it; the round that counts from then on is the one in which the
\* counter started again at 1.
LEMMA LowStep ==
  ASSUME TypeOK, NEW round \in {Half - 1, Half}, LowHistory(round),
         NEW t \in 1 .. Half, low' = Remember(low, t), tid' \in 1 .. Half,
         NEW newRound \in {Half - 1, Half},
         \/ t = tid /\ tid' = tid + 1 /\ newRound = round
         \/ t = tid /\ tid' = 1 /\ newRound = tid
         \/ tid = Half /\ t = 1 /\ tid' = 2 /\ newRound = Half - 1
  PROVE  LowHistory(newRound)'
<1> USE TidAssumption
<1> PICK r : r = Remember(low, t)
  OBVIOUS
<1>0. Moved(low, t, r)
  <2>1. low \in Seq(1 .. Half) /\ Len(low) <= Half - 1
    BY DEF TypeOK, LowHistory
  <2> QED BY <2>1, RememberLemma
<1>1. /\ Len(r) \in 1 .. Half - 1
      /\ r[Len(r)] = t
      /\ \A i \in 1 .. Len(r) - 1 :
           /\ Len(low) - (Len(r) - 1 - i) \in 1 .. Len(low)
           /\ r[i] = low[Len(low) - (Len(r) - 1 - i)]
  BY <1>0 DEF Moved
<1>2. /\ Len(low) \in Nat /\ Len(low) <= Half - 1 /\ tid \in 1 .. Half
      /\ round \in Int /\ newRound \in Int
  BY DEF TypeOK, LowHistory
<1>3. \A k \in 2 .. Half - 1 : LowAgo(tid, round, k - 1) = LowAgo(tid', newRound, k)
  <2>1. CASE t = tid /\ tid' = tid + 1 /\ newRound = round
    BY <2>1, <1>2 DEF LowAgo
  <2>2. CASE t = tid /\ tid' = 1 /\ newRound = tid
    BY <2>2, <1>2 DEF LowAgo
  <2>3. CASE tid = Half /\ t = 1 /\ tid' = 2 /\ newRound = Half - 1
    BY <2>3, <1>2 DEF LowAgo
  <2> QED BY <2>1, <2>2, <2>3
<1>4. LowAgo(tid', newRound, 1) = t
  <2>1. CASE t = tid /\ tid' = tid + 1
    BY <2>1, <1>2 DEF LowAgo
  <2>2. CASE t = tid /\ tid' = 1 /\ newRound = tid
    BY <2>2, <1>2 DEF LowAgo
  <2>3. CASE t = 1 /\ tid' = 2
    BY <2>3, <1>2 DEF LowAgo
  <2> QED BY <2>1, <2>2, <2>3
<1>5. ASSUME NEW i \in 1 .. Len(r) PROVE r[i] = LowAgo(tid', newRound, Len(r) + 1 - i)
  <2> DEFINE k == Len(r) + 1 - i
  <2>1. CASE i = Len(r)
    BY <2>1, <1>1, <1>4
  <2>2. CASE i # Len(r)
    <3> DEFINE j == Len(low) - (Len(r) - 1 - i)
    <3>1. i \in 1 .. Len(r) - 1
      BY <2>2, <1>1
    <3>2. j \in 1 .. Len(low) /\ r[i] = low[j]
      BY <3>1, <1>1
    <3>3. low[j] = LowAgo(tid, round, Len(low) + 1 - j)
      BY <3>2 DEF LowHistory
    <3>4. Len(low) + 1 - j = k - 1
      BY <1>1, <1>2
    <3>5. k \in 2 .. Half - 1
      BY <3>1, <1>1
    <3> QED BY <3>2, <3>3, <3>4, <3>5, <1>3
  <2> QED BY <2>1, <2>2
<1> QED BY <1>1, <1>5 DEF LowHistory

\* An identifier is not given out again before Half - 1 others of its
\* priority were, and 0x8000 is the only one the two priorities share, for
\* every mixture of GetNextTid and GetOnuSwSecNextTid and wherever the
\* uint16 counters wrap.
THEOREM NoEarlyReuseHolds == Spec => []NoEarlyReuse
<1> USE TidAssumption
<1>1. Init => HistoryInv
  BY DEF Init, HistoryInv, HighHistory, LowHistory
<1>2. TypeOK /\ TypeOK' /\ HistoryInv /\ [Next]_vars => HistoryInv'
  <2> SUFFICES ASSUME TypeOK, TypeOK', HistoryInv, [Next]_vars PROVE HistoryInv'
    OBVIOUS
  <2> PICK round \in {Half - 1, Half} : LowHistory(round)
    BY DEF HistoryInv
  <2>0. HighHistory /\ tid \in 1 .. Half /\ tid' \in 1 .. Half
    BY DEF HistoryInv, TypeOK
  <2>1. CASE GetNextTidHigh
    <3>1. HighHistory'
      BY <2>0, <2>1, HighStep
    <3>2. LowHistory(round)'
      BY <2>1 DEF GetNextTidHigh, LowHistory, LowAgo
    <3> QED BY <3>1, <3>2 DEF HistoryInv
  <2>2. CASE GetNextTidLow
    <3>1. HighHistory'
      BY <2>0, <2>2 DEF GetNextTidLow, HighHistory, HighAgo
    <3>2. tid' = IF tid + 1 >= Half THEN 1 ELSE tid + 1
      BY <2>0, <2>2 DEF GetNextTidLow, WrapLow, Inc16
    <3>3. CASE tid + 1 >= Half
      <4>1. tid \in {Half - 1, Half}
        BY <2>0, <3>3
      <4> PICK newRound \in {Half - 1, Half} : newRound = tid
        BY <4>1
      <4>2. LowHistory(newRound)'
        BY <2>0, <2>2, <3>2, <3>3, <4>1, LowStep DEF GetNextTidLow
      <4> QED BY <3>1, <4>1, <4>2 DEF HistoryInv
    <3>4. CASE ~(tid + 1 >= Half)
      <4>1. LowHistory(round)'
        BY <2>0, <2>2, <3>2, <3>4, LowStep DEF GetNextTidLow
      <4> QED BY <3>1, <4>1 DEF HistoryInv
    <3> QED BY <3>3, <3>4
  <2>3. CASE GetOnuSwSecNextTid
    <3>1. HighHistory'
      BY <2>0, <2>3 DEF GetOnuSwSecNextTid, HighHistory, HighAgo
    <3>2. low' = Remember(low, WrapLow(tid)) /\ tid' = Inc16(WrapLow(tid))
      BY <2>3 DEF GetOnuSwSecNextTid
    <3>3. CASE tid = Half
      <4>1. WrapLow(tid) = 1 /\ Inc16(1) = 2
        BY <3>3 DEF WrapLow, Inc16
      <4>2. LowHistory(Half - 1)'
        BY <2>0, <3>2, <3>3, <4>1, LowStep
      <4> QED BY <3>1, <4>2 DEF HistoryInv
    <3>4. CASE tid # Half
      <4>1. WrapLow(tid) = tid /\ Inc16(tid) = tid + 1
        BY <2>0, <3>4 DEF WrapLow, Inc16
      <4>2. LowHistory(round)'
        BY <2>0, <3>2, <4>1, LowStep
      <4> QED BY <3>1, <4>2 DEF HistoryInv
    <3> QED BY <3>3, <3>4
  <2>4. CASE LockMutexTID \/ UnLockMutexTID \/ UNCHANGED vars
    BY <2>4 DEF LockMutexTID, UnLockMutexTID, vars, HistoryInv, HighHistory, HighAgo,
                LowHistory, LowAgo
  <2> QED BY <2>1, <2>2, <2>3, <2>4 DEF Next
<1>3. TypeOK /\ HistoryInv => NoEarlyReuse
  <2> SUFFICES ASSUME TypeOK, HistoryInv PROVE Distinct(low) /\ Distinct(high) /\ SharedIsHalf
    BY DEF NoEarlyReuse
  <2> PICK round \in {Half - 1, Half} : LowHistory(round)
    BY DEF HistoryInv
  <2>1. /\ DOMAIN low = 1 .. Len(low) /\ Len(low) \in Nat /\ tid \in 1 .. Half
        /\ DOMAIN high = 1 .. Len(high) /\ Len(high) \in Nat /\ hpTid \in Half .. 2 * Half - 1
    BY DEF TypeOK
  <2>2. ASSUME NEW i \in 1 .. Len(low), NEW j \in 1 .. Len(low), low[i] = low[j]
        PROVE  i = j
    BY <2>1, <2>2 DEF LowHistory, LowAgo
  <2>3. ASSUME NEW i \in 1 .. Len(high), NEW j \in 1 .. Len(high), high[i] = high[j]
        PROVE  i = j
    BY <2>1, <2>3 DEF HistoryInv, HighHistory, HighAgo
  <2>4. SharedIsHalf
    <3> SUFFICES ASSUME NEW i \in 1 .. Len(low), NEW j \in 1 .. Len(high), low[i] = high[j]
                 PROVE  low[i] = Half /\ (i > 1 => low[i - 1] = Half - 1)
      BY <2>1 DEF SharedIsHalf
    <3>1. low[i] \in 1 .. Half /\ high[j] \in Half .. 2 * Half - 1
      BY <2>1 DEF TypeOK
    <3>2. low[i] = Half
      BY <3>1
    <3>3. low[i] = LowAgo(tid, round, Len(low) + 1 - i)
      BY DEF LowHistory
    <3>4. round = Half /\ Len(low) + 1 - i = tid
      BY <2>1, <3>2, <3>3 DEF LowAgo
    <3>5. ASSUME i > 1 PROVE low[i - 1] = Half - 1
      <4>1. i - 1 \in 1 .. Len(low)
        BY <3>5, <2>1
      <4>2. low[i - 1] = LowAgo(tid, round, Len(low) + 1 - (i - 1))
        BY <4>1 DEF LowHistory
      <4> QED BY <2>1, <3>4, <4>2 DEF LowAgo
    <3> QED BY <3>2, <3>5
  <2> QED BY <2>1, <2>2, <2>3, <2>4 DEF Distinct
<1> QED BY <1>1, <1>2, <1>3, TidTypeCorrect, PTL DEF Spec
=============================================================================
