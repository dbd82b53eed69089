------------------------------ MODULE OmciTid -------------------------------
(***************************************************************************)
(* Allocation of OMCI transaction identifiers (internal/pkg/common/        *)
(* omci_cc.go): GetNextTid for single requests of either priority, and     *)
(* GetOnuSwSecNextTid for the sections of a software download window,      *)
(* which are numbered consecutively under mutexTid.  Identifiers are       *)
(* uint16; the code splits them at Half = 0x8000.                          *)
(***************************************************************************)
EXTENDS Integers, Sequences

CONSTANTS
  Half,        \* 0x8000: the first high priority identifier
  MaxSections  \* the sections of a window

ASSUME TidAssumption == Half \in Nat /\ Half > 2 /\ MaxSections \in Nat \ {0}

VARIABLES
  tid, hpTid,  \* the next identifiers
  mutexTid,    \* "free", or "window" while a window is prepared and sent
  sections,    \* sections numbered in this window
  lastSection, \* the identifier of the last one, 0 if there is none
  low, high    \* history: the last Half - 1 identifiers of each priority

vars == <<tid, hpTid, mutexTid, sections, lastSection, low, high>>

TypeOK ==
  /\ tid \in 1 .. Half /\ hpTid \in Half .. 2 * Half - 1
  /\ mutexTid \in {"free", "window"}
  /\ sections \in 0 .. MaxSections /\ lastSection \in 0 .. Half
  /\ low \in Seq(1 .. Half) /\ high \in Seq(Half .. 2 * Half - 1)

Init ==
  /\ tid = 1 /\ hpTid = Half
  /\ mutexTid = "free" /\ sections = 0 /\ lastSection = 0
  /\ low = <<>> /\ high = <<>>

\* The history keeps what was given out during one round of the counter.
Remember(s, t) == IF Len(s) = Half - 1 THEN Append(Tail(s), t) ELSE Append(s, t)

\* A uint16 that overflows starts again at 0.
Inc16(t) == (t + 1) % (2 * Half)

\* The counter after an allocation.
WrapHighMissing(t) == t
WrapHigh(t) == IF t < Half THEN Half ELSE t
WrapLowEarly(t) == IF t >= Half - 1 THEN 1 ELSE t
WrapLow(t)  == IF t >= Half THEN 1 ELSE t

GetNextTidHigh ==
  /\ hpTid' = WrapHigh(Inc16(hpTid))
  /\ high' = Remember(high, hpTid)
  /\ UNCHANGED <<tid, mutexTid, sections, lastSection, low>>

GetNextTidLow ==
  /\ mutexTid = "free"
  /\ tid' = WrapLow(Inc16(tid))
  /\ low' = Remember(low, tid)
  /\ UNCHANGED <<hpTid, mutexTid, sections, lastSection, high>>

\* runSwDlSectionWindow takes the mutex before the first section and keeps
\* it until the window is acknowledged or given up.
LockMutexTID ==
  /\ mutexTid = "free"
  /\ mutexTid' = "window" /\ sections' = 0 /\ lastSection' = 0
  /\ UNCHANGED <<tid, hpTid, low, high>>

\* Here the counter is wrapped before it is used, not after, so that it may
\* be left at Half for the next caller.
GetOnuSwSecNextTidLateWrap ==
  /\ mutexTid = "window" /\ sections < MaxSections
  /\ lastSection' = tid
  /\ tid' = WrapLow(Inc16(tid))
  /\ low' = Remember(low, lastSection')
  /\ sections' = sections + 1
  /\ UNCHANGED <<hpTid, mutexTid, high>>

GetOnuSwSecNextTid ==
  /\ mutexTid = "window" /\ sections < MaxSections
  /\ lastSection' = WrapLow(tid)
  /\ tid' = Inc16(WrapLow(tid))
  /\ low' = Remember(low, lastSection')
  /\ sections' = sections + 1
  /\ UNCHANGED <<hpTid, mutexTid, high>>

UnLockMutexTID ==
  /\ mutexTid = "window"
  /\ mutexTid' = "free"
  /\ UNCHANGED <<tid, hpTid, sections, lastSection, low, high>>

\* The identifier whose acknowledgement the window waits for.
GetOnuSwSecLastTid == tid - 1

Next ==
  \/ GetNextTidHigh \/ GetNextTidLow
  \/ LockMutexTID \/ GetOnuSwSecNextTid \/ UnLockMutexTID

Spec == Init /\ [][Next]_vars

Distinct(s) == \A i, j \in DOMAIN s : s[i] = s[j] => i = j

\* An identifier is not given out again before Half - 1 others of its
\* priority were, whatever mixture of single requests and windows uses the
\* counter: a late response cannot meet the callback of a younger request
\* of that priority unless a whole round has passed.  The two priorities
\* share no identifier but Half: GetNextTid hands it out as a low priority
\* one after a window that ended with Half - 1, once in a round of the low
\* counter, and then it may meet a high priority request with the same one.
SharedIsHalf ==
  \A i \in DOMAIN low, j \in DOMAIN high :
    low[i] = high[j] => low[i] = Half /\ (i > 1 => low[i - 1] = Half - 1)

NoEarlyReuse == Distinct(low) /\ Distinct(high) /\ SharedIsHalf

\* The callback of a window is registered under GetOnuSwSecLastTid, which
\* must be the identifier its last section carries, also across a wrap, and
\* that identifier is a low priority one.
WindowAckTid ==
  mutexTid = "window" /\ sections > 0
    => GetOnuSwSecLastTid = lastSection /\ lastSection < Half
=============================================================================
