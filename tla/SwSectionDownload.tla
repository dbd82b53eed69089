-------------------------- MODULE SwSectionDownload -------------------------
(***************************************************************************)
(* The transfer of a software image to the ONU, cut into sections that are *)
(* sent in windows (internal/pkg/swupg/omci_onu_upgrade.go, the states     *)
(* PreparingDL, DLSection, VerifyWindow and FinalizeDL of OnuUpgradeFsm).  *)
(*                                                                         *)
(* The bytes of the image are stood for by their offsets, so the data that *)
(* the ONU has put together can be compared with the image.  The routine   *)
(* runSwDlSectionWindow takes one step for each section and one for        *)
(* handing the window to omci_cc; a cancellation may come in between.      *)
(*                                                                         *)
(* The ONU (external) acknowledges the last section of a window: it keeps  *)
(* the window if all its sections have arrived and discards it otherwise.  *)
(* It may only reduce the window size it was offered.                      *)
(***************************************************************************)
EXTENDS Integers, Sequences

CONSTANTS
  FileLens,     \* the lengths of image files that are tried
  SectionSize,  \* omciDownloadSectionSize, in bytes
  WindowLimit,  \* the omciDownloadWindowSizeLimit offered to the ONU
  Formats,      \* the OMCI message formats that are tried
  MaxRetries    \* cMaxRetryAttemptsForDownloadWindow

ASSUME SectionAssumption ==
  /\ FileLens \subseteq Nat \ {0}
  /\ SectionSize \in Nat \ {0}
  /\ WindowLimit \in 0 .. 254
  /\ Formats \subseteq {"baseline", "extended"}
  /\ MaxRetries \in Nat

VARIABLES
  st,         \* the state of the FSM
  loop,       \* where runSwDlSectionWindow stands
  aborting,   \* what is known of an abort: "no", "requested", "reset"
  format,     \* isExtendedOmci
  fileLen,    \* origImageLength
  imageLength, noOfSections, noOfWindows,
  limit,      \* omciDownloadWindowSizeLimit
  nextAbs,    \* nextDownloadSectionsAbsolute
  nextSec,    \* nextDownloadSectionsWindow
  nextWin,    \* nextDownloadWindow
  sizeLast,   \* omciDownloadWindowSizeLast
  retries,    \* maxRetryAttemptsForDownloadWindow
  window,     \* the data of omciMsgsPerSection
  flash,      \* the data the ONU has accepted
  answer      \* the open request ("start", "window") or the ONU's answer to it

sizeVars == <<format, fileLen, imageLength, noOfSections, noOfWindows, limit>>
posVars  == <<nextAbs, nextSec, nextWin, sizeLast>>
vars == <<st, loop, aborting, sizeVars, posVars, retries, window, flash, answer>>

-----------------------------------------------------------------------------
\* n bytes of the image from offset a on.
Bytes(a, n) == [i \in 1 .. n |-> a + i - 1]

\* Mutant: one section too many if the file fills its last section.
CeilDivOver(a, b) == a \div b + 1

\* uint8 arithmetic of omciDownloadWindowSizeLimit+1.
WindowSize(l) == (l + 1) % 256

CeilDiv(a, b) == IF a % b > 0 THEN a \div b + 1 ELSE a \div b

NoAnswer == [kind |-> "none", sec |-> 0]

TypeOK ==
  /\ st \in {"PreparingDL", "DLSection", "VerifyWindow", "FinalizeDL", "Resetting"}
  /\ loop \in {"none", "section", "window"}
  /\ aborting \in {"no", "requested", "reset"}
  /\ format \in {"baseline", "extended"}
  /\ fileLen \in Nat /\ imageLength \in Nat
  /\ noOfSections \in Nat /\ noOfWindows \in Nat
  /\ limit \in 0 .. 254
  /\ nextAbs \in Nat /\ nextSec \in Nat /\ nextWin \in Nat /\ sizeLast \in Nat
  /\ retries \in 0 .. MaxRetries
  /\ window \in Seq(Nat) /\ flash \in Seq(Nat)
  /\ answer \in [kind : {"none", "start", "window", "ok", "processingError", "error"}, sec : Nat]

\* enterPreparingDL: the file is read and, with baseline messages, padded to
\* whole sections; StartSwDl is sent.
Init ==
  /\ st = "PreparingDL" /\ loop = "none" /\ aborting = "no"
  /\ fileLen \in FileLens /\ format \in Formats
  /\ noOfSections = CeilDiv(fileLen, SectionSize)
  /\ imageLength = IF format = "extended" THEN fileLen ELSE noOfSections * SectionSize
  /\ limit = WindowLimit /\ noOfWindows = 0
  /\ nextAbs = 0 /\ nextSec = 0 /\ nextWin = 0 /\ sizeLast = 0
  /\ retries = MaxRetries
  /\ window = <<>> /\ flash = <<>>
  /\ answer = [kind |-> "start", sec |-> 0]

-----------------------------------------------------------------------------
Answered(kind) == answer.kind = kind /\ answer' = NoAnswer

\* Event UpgradeEvAbort: enterResetting stops the section loop, too.
AbortEvent == st' = "Resetting" /\ aborting' = "reset"

\* CancelProcessing announces the abort to the section loop before its
\* goroutine takes the event to the FSM.
CancelProcessing ==
  /\ aborting = "no"
  /\ aborting' = "requested"
  /\ UNCHANGED <<st, loop, sizeVars, posVars, retries, window, flash, answer>>

\* The event of CancelProcessing, or of waitOnDownloadToOnuReady whose time
\* is over (abortOnOmciError).
Abort ==
  /\ st \in {"PreparingDL", "DLSection", "VerifyWindow", "FinalizeDL"}
  /\ AbortEvent
  /\ UNCHANGED <<loop, sizeVars, posVars, retries, window, flash, answer>>

\* handleRxStartSwDownloadResponse: the ONU has answered with window size l.
\* A reset FSM does not take the event UpgradeEvRxStartSwDownload.
StartSwDownloadResponse(l) ==
  /\ Answered("start")
  /\ limit' = l
  /\ noOfWindows' = CeilDiv(noOfSections, WindowSize(l))
  /\ nextAbs' = 0 /\ nextSec' = 0 /\ nextWin' = 0
  /\ IF st = "PreparingDL"
     THEN st' = "DLSection" /\ loop' = "section" /\ window' = <<>>
     ELSE UNCHANGED <<st, loop, window>>
  /\ UNCHANGED <<aborting, format, fileLen, imageLength, noOfSections, sizeLast, retries,
                 flash>>

StartSwDownloadError ==
  /\ Answered("start")
  /\ AbortEvent
  /\ UNCHANGED <<loop, sizeVars, posVars, retries, window, flash>>

-----------------------------------------------------------------------------
(***************************************************************************)
(* runSwDlSectionWindow                                                    *)
(***************************************************************************)
BufferStart == nextAbs * SectionSize
BufferEnd ==
  LET end == BufferStart + SectionSize - 1
  IN  IF format = "extended" /\ end > fileLen - 1 THEN fileLen - 1 ELSE end

OutOfBuffer == BufferStart + 1 > imageLength \/ BufferEnd + 1 > imageLength

AckRequested == nextSec = limit \/ nextAbs + 1 >= noOfSections

\* The loop ends: an abort is requested, or the section would lie outside of
\* the buffer ("should never occur").
SectionLoopAborted ==
  /\ loop = "section"
  /\ aborting # "no" \/ OutOfBuffer
  /\ loop' = "none"
  /\ IF st = "Resetting" THEN UNCHANGED <<st, aborting>> ELSE AbortEvent
  /\ UNCHANGED <<sizeVars, posVars, retries, window, flash, answer>>

\* Mutant: the short last window is noted one section late.
NextSectionLate ==
  /\ loop = "section" /\ aborting = "no" /\ ~OutOfBuffer
  /\ window' = window \o Bytes(BufferStart, BufferEnd + 1 - BufferStart)
  /\ sizeLast' = IF nextAbs + 1 > noOfSections THEN nextSec ELSE sizeLast
  /\ nextAbs' = nextAbs + 1
  /\ nextSec' = IF AckRequested THEN nextSec ELSE nextSec + 1
  /\ loop' = IF AckRequested THEN "window" ELSE "section"
  /\ UNCHANGED <<st, aborting, sizeVars, nextWin, retries, flash, answer>>

\* PrepareOnuSectionsOfWindow for one section.
NextSection ==
  /\ loop = "section" /\ aborting = "no" /\ ~OutOfBuffer
  /\ window' = window \o Bytes(BufferStart, BufferEnd + 1 - BufferStart)
  /\ sizeLast' = IF nextAbs + 1 >= noOfSections THEN nextSec ELSE sizeLast
  /\ nextAbs' = nextAbs + 1
  /\ nextSec' = IF AckRequested THEN nextSec ELSE nextSec + 1
  /\ loop' = IF AckRequested THEN "window" ELSE "section"
  /\ UNCHANGED <<st, aborting, sizeVars, nextWin, retries, flash, answer>>

\* Event UpgradeEvWaitWindowAck, which a reset FSM does not take, then
\* SendOnuSwSectionsWindowWithRxSupervision in any case.
SendWindow ==
  /\ loop = "window"
  /\ loop' = "none"
  /\ st' = IF st = "DLSection" THEN "VerifyWindow" ELSE st
  /\ answer' = [kind |-> "window", sec |-> nextSec]
  /\ UNCHANGED <<aborting, sizeVars, posVars, retries, window, flash>>

-----------------------------------------------------------------------------
\* The ONU receives the window, or not all of it, or refuses it.  Its answer
\* may carry another section number than that of the request.
OnuWindow(kind) ==
  /\ answer.kind = "window"
  /\ \E n \in {answer.sec, answer.sec + 1} : answer' = [kind |-> kind, sec |-> n]
  /\ flash' = IF kind = "ok" THEN flash \o window ELSE flash
  /\ UNCHANGED <<st, loop, aborting, sizeVars, posVars, retries, window>>

\* handleRxSwSectionResponse in another state than VerifyWindow.
SectionResponseIgnored ==
  /\ st # "VerifyWindow"
  /\ answer.kind \in {"ok", "processingError", "error"} /\ answer' = NoAnswer
  /\ UNCHANGED <<st, loop, aborting, sizeVars, posVars, retries, window, flash>>

\* Mutant: the download is ended with the last but one window.
SectionResponseEarly ==
  /\ st = "VerifyWindow" /\ Answered("ok")
  /\ nextWin' = nextWin + 1
  /\ \/ /\ nextWin' + 1 >= noOfWindows
        /\ st' = "FinalizeDL"
        /\ UNCHANGED <<loop, aborting, nextSec, window>>
     \/ /\ nextWin' + 1 < noOfWindows /\ answer.sec = limit
        /\ nextSec' = 0 /\ st' = "DLSection" /\ loop' = "section" /\ window' = <<>>
        /\ UNCHANGED aborting
  /\ UNCHANGED <<sizeVars, nextAbs, sizeLast, retries, flash>>

\* The window is acknowledged: the next one, or EndSwDl after the last one.
\* The section number of the answer must be that of the window's last section.
SectionResponseOk ==
  /\ st = "VerifyWindow" /\ Answered("ok")
  /\ nextWin' = nextWin + 1
  /\ \/ /\ nextWin' >= noOfWindows /\ answer.sec = sizeLast
        /\ st' = "FinalizeDL"
        /\ UNCHANGED <<loop, aborting, nextSec, window>>
     \/ /\ nextWin' < noOfWindows /\ answer.sec = limit
        /\ nextSec' = 0 /\ st' = "DLSection" /\ loop' = "section" /\ window' = <<>>
        /\ UNCHANGED aborting
     \/ /\ answer.sec # IF nextWin' >= noOfWindows THEN sizeLast ELSE limit
        /\ AbortEvent
        /\ UNCHANGED <<loop, nextSec, window>>
  /\ UNCHANGED <<sizeVars, nextAbs, sizeLast, retries, flash>>

\* Mutant: back to the start of the image.
RetryFromStart ==
  /\ st = "VerifyWindow" /\ Answered("processingError")
  /\ retries > 0
  /\ retries' = retries - 1
  /\ nextSec' = 0 /\ nextAbs' = 0
  /\ st' = "DLSection" /\ loop' = "section" /\ window' = <<>>
  /\ UNCHANGED <<aborting, sizeVars, nextWin, sizeLast, flash>>

\* retrySoftwareDownload: back to the start of the window.  The attempts are
\* counted over the whole download.
RetrySoftwareDownload ==
  /\ st = "VerifyWindow" /\ Answered("processingError")
  /\ retries > 0
  /\ retries' = retries - 1
  /\ nextSec' = 0
  /\ nextAbs' = nextWin * WindowSize(limit)
  /\ st' = "DLSection" /\ loop' = "section" /\ window' = <<>>
  /\ UNCHANGED <<aborting, sizeVars, nextWin, sizeLast, flash>>

SectionResponseError ==
  /\ st = "VerifyWindow"
  /\ \/ Answered("error")
     \/ Answered("processingError") /\ retries = 0
  /\ AbortEvent
  /\ UNCHANGED <<loop, sizeVars, posVars, retries, window, flash>>

Next ==
  \/ CancelProcessing \/ Abort
  \/ \E l \in 0 .. WindowLimit : StartSwDownloadResponse(l)
  \/ StartSwDownloadError
  \/ SectionLoopAborted \/ NextSection \/ SendWindow
  \/ \E kind \in {"ok", "processingError", "error"} : OnuWindow(kind)
  \/ SectionResponseIgnored \/ SectionResponseOk
  \/ RetrySoftwareDownload \/ SectionResponseError

Spec == Init /\ [][Next]_vars

-----------------------------------------------------------------------------
(***************************************************************************)
(* Properties                                                              *)
(***************************************************************************)
\* Whatever windows were repeated, when the FSM goes on to EndSwDl
\* (handleRxSwSectionResponse) the ONU has the bytes of the file once, in
\* order, followed by less than one section of padding, and none of it with
\* extended messages.
ImageIntegrity ==
  st = "FinalizeDL" =>
    /\ flash = Bytes(0, imageLength)
    /\ fileLen <= imageLength /\ imageLength < fileLen + SectionSize
    /\ format = "extended" => imageLength = fileLen

\* The check of runSwDlSectionWindow on the bounds of the image buffer
\* (omci_onu_upgrade.go:806, "should never occur in this state") never fails
\* while a section is to be sent.
SectionInBuffer == loop = "section" /\ aborting = "no" => ~OutOfBuffer

\* An ONU that repeats the section number of the request is not refused for
\* it: what handleRxSwSectionResponse will compare the number with is the
\* number of the section that was sent with the request for the answer.
AckNumberExpected ==
  st = "VerifyWindow" =>
    nextSec = IF nextWin + 1 >= noOfWindows THEN sizeLast ELSE limit

\* At any time the ONU holds a prefix of the image: a window that is sent
\* again does not overlap what was accepted.
NoOverlap == flash = Bytes(0, Len(flash))

=============================================================================
