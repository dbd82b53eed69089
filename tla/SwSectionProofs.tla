--------------------------- MODULE SwSectionProofs --------------------------
(***************************************************************************)
(* Proof that the ONU has the whole image, in order, when the transfer of  *)
(* SwSectionDownload is ended, for every file length, section size, window *)
(* size, number of retries and message format.                             *)
(*                                                                         *)
(* The argument: the sections before the current window have been accepted *)
(* (flash ends at Base), those of the current window that have been        *)
(* prepared follow them without a gap (window starts at Base), and the     *)
(* position in the image, nextAbs, is the window's number times the window *)
(* size plus the position in the window.                                   *)
(***************************************************************************)
EXTENDS SwSectionDownload, TLAPS

W == limit + 1
Base == (nextWin * W) * SectionSize
\* Where the data prepared so far ends.
Reached == IF nextAbs < noOfSections THEN nextAbs * SectionSize ELSE imageLength

\* The number of sections covers the image, with less than one to spare.
SizesFit ==
  /\ fileLen > 0 /\ noOfSections > 0
  /\ (noOfSections - 1) * SectionSize < fileLen
  /\ fileLen <= noOfSections * SectionSize
  /\ format = "extended" => imageLength = fileLen
  /\ format = "baseline" => imageLength = noOfSections * SectionSize

\* The number of windows covers the sections.
WindowsFit ==
  st \in {"DLSection", "VerifyWindow", "FinalizeDL"} \/ loop # "none" =>
    /\ noOfWindows > 0
    /\ (noOfWindows - 1) * W < noOfSections
    /\ noOfSections <= noOfWindows * W

\* One activity at a time: the section loop, the open request or neither.
Phases ==
  /\ st = "PreparingDL" => answer.kind = "start"
  /\ answer.kind = "start" => loop = "none" /\ st \in {"PreparingDL", "Resetting"}
  /\ loop # "none" => answer.kind = "none" /\ st \in {"DLSection", "Resetting"}
  /\ st = "DLSection" => loop # "none"
  /\ st = "VerifyWindow" => loop = "none" /\ answer.kind # "none"
  /\ st = "FinalizeDL" => loop = "none" /\ answer.kind = "none"
  /\ st = "Resetting" => aborting = "reset"

\* A section of the window is to be prepared.
InWindow ==
  loop = "section" =>
    /\ nextWin < noOfWindows /\ nextSec <= limit
    /\ nextAbs = nextWin * W + nextSec /\ nextAbs < noOfSections
    /\ flash = Bytes(0, Base)
    /\ window = Bytes(Base, nextSec * SectionSize)

\* The window is complete.
AtWindowEnd ==
  loop = "window" \/ answer.kind = "window" \/ st = "VerifyWindow" =>
    /\ nextWin < noOfWindows /\ nextSec <= limit
    /\ nextAbs = nextWin * W + nextSec + 1 /\ nextAbs <= noOfSections
    /\ nextSec = limit \/ nextAbs = noOfSections
    /\ nextAbs = noOfSections => sizeLast = nextSec

\* ... and its data follows what the ONU has.
WindowData ==
  loop = "window" \/ answer.kind = "window" =>
    /\ flash = Bytes(0, Base)
    /\ Base <= Reached
    /\ window = Bytes(Base, Reached - Base)

\* The ONU has answered.
AfterAnswer ==
  st = "VerifyWindow" =>
    /\ answer.kind = "ok" => flash = Bytes(0, Reached)
    /\ answer.kind \in {"processingError", "error"} => flash = Bytes(0, Base)

AtEnd == st = "FinalizeDL" => flash = Bytes(0, imageLength)

Prefix == \E n \in Nat : flash = Bytes(0, n)

IInv ==
  /\ TypeOK /\ SizesFit /\ WindowsFit /\ Phases /\ InWindow
  /\ AtWindowEnd /\ WindowData /\ AfterAnswer /\ AtEnd
  /\ answer.kind = "start" => flash = <<>>
  /\ Prefix

-----------------------------------------------------------------------------
(***************************************************************************)
(* Arithmetic and sequences                                                *)
(***************************************************************************)
\* CeilDiv, by which the sections and the windows are counted, rounds up.
LEMMA CeilDivBounds ==
  ASSUME NEW a \in Nat \ {0}, NEW b \in Nat \ {0}
  PROVE  /\ CeilDiv(a, b) \in Nat \ {0}
         /\ (CeilDiv(a, b) - 1) * b < a
         /\ a <= CeilDiv(a, b) * b
<1> DEFINE q == a \div b
           r == a % b
<1>1. q \in Nat /\ r \in Nat /\ r < b /\ a = b * q + r
  BY SMT
<1> HIDE DEF q, r
<1>2. CASE r > 0
  <2>1. CeilDiv(a, b) = q + 1  BY <1>1, <1>2 DEF CeilDiv, q, r
  <2>2. (q + 1) * b = b * q + b  BY <1>1
  <2>3. q * b = b * q  BY <1>1
  <2>4. q + 1 - 1 = q  BY <1>1
  <2> QED  BY <2>1, <2>2, <2>3, <2>4, <1>1, <1>2
<1>3. CASE r = 0
  <2>1. CeilDiv(a, b) = q  BY <1>1, <1>3 DEF CeilDiv, q, r
  <2>2. (q - 1) * b = b * q - b  BY <1>1
  <2>3. q * b = b * q  BY <1>1
  <2>4. q # 0  BY <1>1, <1>3
  <2> QED  BY <2>1, <2>2, <2>3, <2>4, <1>1, <1>3
<1> QED  BY <1>1, <1>2, <1>3

\* A product grows with its first factor.
LEMMA ProductMonotone ==
  ASSUME NEW a \in Nat, NEW b \in Nat, NEW c \in Nat, a <= b
  PROVE  a * c \in Nat /\ b * c \in Nat /\ a * c <= b * c
<1>1. PICK d \in Nat : b = a + d  BY b - a \in Nat
<1>2. b * c = a * c + d * c  BY <1>1
<1>3. d * c \in Nat /\ a * c \in Nat  BY <1>1
<1> QED  BY <1>2, <1>3

\* Two adjoining pieces of the image make one.
LEMMA BytesConcat ==
  ASSUME NEW a \in Nat, NEW m \in Nat, NEW n \in Nat
  PROVE  Bytes(a, m) \o Bytes(a + m, n) = Bytes(a, m + n)
BY DEF Bytes

\* A piece of the image is a sequence of as many bytes as it says.
LEMMA BytesType ==
  ASSUME NEW a \in Nat, NEW n \in Nat
  PROVE  Bytes(a, n) \in Seq(Nat) /\ Len(Bytes(a, n)) = n
BY DEF Bytes

\* An empty piece of the image.
LEMMA BytesEmpty == \A a \in Nat : Bytes(a, 0) = <<>>
BY DEF Bytes

-----------------------------------------------------------------------------
(***************************************************************************)
(* The inductive invariant                                                 *)
(***************************************************************************)
\* Where the next section ends: at a multiple of the section size, the last
\* one at the end of the image.  So no section lies outside of the buffer.
LEMMA SectionEnd ==
  ASSUME IInv, loop = "section"
  PROVE  /\ BufferStart = Base + nextSec * SectionSize
         /\ BufferEnd + 1 = IF nextAbs + 1 < noOfSections
                            THEN (nextAbs + 1) * SectionSize ELSE imageLength
         /\ BufferStart \in Nat /\ Base \in Nat /\ nextSec * SectionSize \in Nat
         /\ BufferStart < BufferEnd + 1 /\ BufferEnd + 1 <= imageLength
         /\ BufferEnd \in Int /\ W \in Nat
<1> DEFINE k == nextAbs
           S == SectionSize
           N == noOfSections
<1>1. k \in Nat /\ S \in Nat \ {0} /\ N \in Nat /\ k < N /\ fileLen \in Nat
      /\ imageLength \in Nat /\ nextWin \in Nat /\ nextSec \in Nat /\ W \in Nat
  BY SectionAssumption DEF IInv, TypeOK, InWindow, W
<1>2. nextWin * W \in Nat  BY <1>1
<1>3. k = nextWin * W + nextSec  BY DEF IInv, InWindow
<1>4. k * S = (nextWin * W) * S + nextSec * S  BY <1>1, <1>2, <1>3
<1>5. k * S \in Nat /\ nextSec * S \in Nat /\ (nextWin * W) * S \in Nat  BY <1>1, <1>2
<1>6. (k + 1) * S = k * S + S  BY <1>1
<1>7. k * S <= (N - 1) * S /\ (N - 1) * S \in Nat
  BY <1>1, ProductMonotone, N - 1 \in Nat, k <= N - 1
<1>8. (N - 1) * S < fileLen /\ fileLen <= N * S
      /\ (format = "extended" => imageLength = fileLen)
      /\ (format = "baseline" => imageLength = N * S)
      /\ format \in {"baseline", "extended"}
  BY DEF IInv, SizesFit, TypeOK
<1>9. CASE k + 1 < N
  <2>1. (k + 1) * S <= (N - 1) * S
    BY <1>1, <1>9, ProductMonotone, N - 1 \in Nat, k + 1 <= N - 1, k + 1 \in Nat
  <2>2. (N - 1) * S <= N * S
    BY <1>1, ProductMonotone, N - 1 \in Nat
  <2>3. N * S \in Nat  BY <1>1
  <2>4. BufferEnd + 1 = k * S + S
    BY <1>1, <1>5, <1>6, <1>8, <2>1 DEF BufferEnd, BufferStart
  <2> QED
    BY <1>1, <1>4, <1>5, <1>6, <1>7, <1>8, <1>9, <2>1, <2>2, <2>3, <2>4
    DEF BufferStart, Base, BufferEnd
<1>10. CASE k + 1 = N
  <2>1. N * S = k * S + S  BY <1>1, <1>6, <1>10
  <2>2. BufferEnd + 1 = imageLength
    <3>1. CASE format = "extended"
      BY <1>1, <1>5, <1>8, <2>1, <3>1 DEF BufferEnd, BufferStart
    <3>2. CASE format = "baseline"
      BY <1>1, <1>5, <1>8, <2>1, <3>2 DEF BufferEnd, BufferStart
    <3> QED  BY <1>8, <3>1, <3>2
  <2>3. k * S < imageLength
    BY <1>1, <1>5, <1>7, <1>8, <2>1
  <2> QED
    BY <1>1, <1>4, <1>5, <1>10, <2>2, <2>3 DEF BufferStart, Base, BufferEnd
<1> QED  BY <1>1, <1>9, <1>10

\* The initial states satisfy the invariant.
LEMMA InitInv == Init => IInv
<1> SUFFICES ASSUME Init PROVE IInv  OBVIOUS
<1>1. fileLen \in Nat \ {0} /\ SectionSize \in Nat \ {0}
      /\ format \in {"baseline", "extended"}
  BY SectionAssumption DEF Init
<1>2. /\ noOfSections \in Nat \ {0}
      /\ (noOfSections - 1) * SectionSize < fileLen
      /\ fileLen <= noOfSections * SectionSize
  BY <1>1, CeilDivBounds DEF Init
<1>3. noOfSections * SectionSize \in Nat  BY <1>1, <1>2
<1>4. TypeOK  BY <1>1, <1>2, <1>3, SectionAssumption DEF Init, TypeOK
<1>5. SizesFit  BY <1>1, <1>2 DEF Init, SizesFit
<1>6. Prefix  BY BytesEmpty DEF Init, Prefix
<1> QED
  BY <1>4, <1>5, <1>6
  DEF IInv, Init, WindowsFit, Phases, InWindow, AtWindowEnd, WindowData, AfterAnswer, AtEnd

\* The ONU's first answer fixes the number of windows.
LEMMA StartStep ==
  ASSUME IInv, NEW l \in 0 .. WindowLimit, StartSwDownloadResponse(l)
  PROVE  IInv'
<1>1. l \in Nat /\ l + 1 \in Nat \ {0} /\ l \in 0 .. 254 /\ WindowSize(l) = l + 1
  BY SectionAssumption DEF WindowSize
<1>2. noOfSections \in Nat \ {0} /\ SectionSize \in Nat \ {0}
  BY SectionAssumption DEF IInv, TypeOK, SizesFit
<1>3. /\ noOfWindows' \in Nat \ {0}
      /\ (noOfWindows' - 1) * W' < noOfSections
      /\ noOfSections <= noOfWindows' * W'
  BY <1>1, <1>2, CeilDivBounds DEF StartSwDownloadResponse, W
<1>4. TypeOK'
  BY <1>1, <1>3 DEF IInv, TypeOK, StartSwDownloadResponse, Answered, NoAnswer
<1>5. SizesFit'  BY DEF IInv, SizesFit, StartSwDownloadResponse
<1>6. WindowsFit'
  BY <1>3 DEF WindowsFit, StartSwDownloadResponse
<1>7. Phases'
  BY DEF IInv, TypeOK, Phases, StartSwDownloadResponse, Answered, NoAnswer
<1>8. Base' = 0 /\ nextSec' * SectionSize = 0 /\ nextWin' * W' = 0
  BY <1>1, <1>2 DEF Base, W, StartSwDownloadResponse
<1>9. flash = <<>> /\ flash' = <<>>
  BY DEF IInv, StartSwDownloadResponse, Answered
<1>10. Bytes(0, 0) = <<>>  BY BytesEmpty
<1>11. InWindow'
  BY <1>1, <1>2, <1>3, <1>8, <1>9, <1>10
  DEF IInv, Phases, InWindow, StartSwDownloadResponse, Answered
<1>12. AtWindowEnd' /\ WindowData' /\ AfterAnswer' /\ AtEnd'
  BY DEF IInv, Phases, AtWindowEnd, WindowData, AfterAnswer, AtEnd,
         StartSwDownloadResponse, Answered, NoAnswer
<1>13. Prefix'  BY <1>9, <1>10 DEF Prefix
<1> QED
  BY <1>4, <1>5, <1>6, <1>7, <1>9, <1>11, <1>12, <1>13 DEF IInv

\* A section is added to the window.
LEMMA NextSectionStep ==
  ASSUME IInv, NextSection
  PROVE  IInv'
<1> DEFINE S == SectionSize
           len == BufferEnd + 1 - BufferStart
<1>1. loop = "section"  BY DEF NextSection
<1>2. /\ BufferStart = Base + nextSec * S
      /\ BufferEnd + 1 = IF nextAbs + 1 < noOfSections
                         THEN (nextAbs + 1) * S ELSE imageLength
      /\ BufferStart \in Nat /\ Base \in Nat /\ nextSec * S \in Nat
      /\ BufferStart < BufferEnd + 1 /\ BufferEnd \in Int /\ W \in Nat
  BY <1>1, SectionEnd
<1>3. /\ S \in Nat \ {0} /\ nextAbs \in Nat /\ nextSec \in Nat /\ noOfSections \in Nat
      /\ nextWin \in Nat /\ limit \in Nat /\ imageLength \in Nat
  BY SectionAssumption DEF IInv, TypeOK
<1>4. /\ nextWin < noOfWindows /\ nextSec <= limit
      /\ nextAbs = nextWin * W + nextSec /\ nextAbs < noOfSections
      /\ flash = Bytes(0, Base)
      /\ window = Bytes(Base, nextSec * S)
  BY <1>1 DEF IInv, InWindow
<1>5. len \in Nat  BY <1>2
<1>6. window' = Bytes(Base, nextSec * S + len)
  <2>1. window' = Bytes(Base, nextSec * S) \o Bytes(Base + nextSec * S, len)
    BY <1>2, <1>4 DEF NextSection
  <2> QED  BY <1>2, <1>5, <2>1, BytesConcat
<1>7. nextSec * S + len = BufferEnd + 1 - Base /\ nextSec * S + len \in Nat
  BY <1>2, <1>5
<1>8. Base' = Base /\ W' = W /\ flash' = flash /\ nextAbs' = nextAbs + 1
      /\ noOfSections' = noOfSections /\ imageLength' = imageLength
      /\ limit' = limit /\ nextWin' = nextWin /\ noOfWindows' = noOfWindows
      /\ answer' = answer /\ st' = st
  BY DEF Base, W, NextSection, sizeVars
<1>9. TypeOK'
  <2>1. window' \in Seq(Nat)  BY <1>2, <1>6, <1>7, BytesType
  <2> QED  BY <1>3, <2>1 DEF IInv, TypeOK, NextSection, sizeVars
<1>10. SizesFit' /\ WindowsFit'
  BY <1>1, <1>8 DEF IInv, SizesFit, WindowsFit, NextSection, sizeVars
<1>11. Phases'
  BY <1>1 DEF IInv, Phases, NextSection
<1>12. answer.kind = "none" /\ st \in {"DLSection", "Resetting"}
  BY <1>1 DEF IInv, Phases
<1>13. InWindow'
  <2>1. SUFFICES ASSUME loop' = "section" PROVE InWindow'  BY DEF InWindow
  <2>2. ~AckRequested /\ nextSec' = nextSec + 1  BY <2>1 DEF NextSection
  <2>3. nextSec + 1 <= limit /\ nextAbs + 1 < noOfSections
    BY <1>3, <1>4, <2>2 DEF AckRequested
  <2>4. nextAbs + 1 = nextWin * W + (nextSec + 1)  BY <1>2, <1>3, <1>4
  <2>5. nextSec * S + len = (nextSec + 1) * S
    <3>1. (nextAbs + 1) * S = nextAbs * S + S  BY <1>3
    <3>2. (nextSec + 1) * S = nextSec * S + S  BY <1>3
    <3>3. nextAbs * S = BufferStart  BY DEF BufferStart
    <3> QED  BY <1>2, <1>3, <1>7, <2>3, <3>1, <3>2, <3>3
  <2>6. window' = Bytes(Base', nextSec' * S)  BY <1>6, <1>8, <2>2, <2>5
  <2>7. flash' = Bytes(0, Base')  BY <1>4, <1>8
  <2> QED  BY <1>4, <1>8, <2>2, <2>3, <2>4, <2>6, <2>7 DEF InWindow
<1>14. ASSUME loop' = "window" PROVE AtWindowEnd' /\ WindowData'
  <2>1. AckRequested /\ nextSec' = nextSec  BY <1>14 DEF NextSection
  <2>2. nextAbs' = nextWin * W + nextSec' + 1 /\ nextAbs' <= noOfSections
    BY <1>2, <1>3, <1>4, <1>8, <2>1
  <2>3. nextSec' = limit \/ nextAbs' = noOfSections
    BY <1>3, <1>4, <1>8, <2>1 DEF AckRequested
  <2>4. nextAbs' = noOfSections => sizeLast' = nextSec'
    BY <1>3, <1>8, <2>1 DEF NextSection
  <2>5. AtWindowEnd'  BY <1>4, <1>8, <2>1, <2>2, <2>3, <2>4 DEF AtWindowEnd
  <2>6. Reached' = BufferEnd + 1
    BY <1>2, <1>3, <1>8 DEF Reached
  <2>7. WindowData'
    BY <1>2, <1>4, <1>6, <1>7, <1>8, <2>6 DEF WindowData
  <2> QED  BY <2>5, <2>7
<1>15. AtWindowEnd' /\ WindowData'
  <2>1. loop' \in {"section", "window"}  BY DEF NextSection
  <2>2. CASE loop' = "section"
    BY <1>8, <1>12, <2>2 DEF AtWindowEnd, WindowData
  <2> QED  BY <1>14, <2>1, <2>2
<1>16. AfterAnswer' /\ AtEnd'  BY <1>8, <1>12 DEF AfterAnswer, AtEnd
<1>17. Prefix'  BY <1>8 DEF IInv, Prefix
<1> QED
  BY <1>8, <1>9, <1>10, <1>11, <1>12, <1>13, <1>15, <1>16, <1>17 DEF IInv

\* The window is handed to omci_cc.
LEMMA SendWindowStep ==
  ASSUME IInv, SendWindow
  PROVE  IInv'
<1>1. /\ loop = "window" /\ loop' = "none" /\ answer'.kind = "window"
      /\ st' = (IF st = "DLSection" THEN "VerifyWindow" ELSE st)
  BY DEF SendWindow
<1>2. st \in {"DLSection", "Resetting"}  BY <1>1 DEF IInv, Phases
<1>3. Base' = Base /\ W' = W /\ Reached' = Reached
  BY DEF SendWindow, sizeVars, posVars, Base, W, Reached
<1>4. TypeOK'  BY <1>2 DEF IInv, TypeOK, SendWindow, sizeVars, posVars
<1>5. SizesFit' /\ WindowsFit' /\ Prefix'
  BY <1>1, <1>2, <1>3
  DEF IInv, SizesFit, WindowsFit, Prefix, SendWindow, sizeVars, posVars
<1>6. Phases'  BY <1>1, <1>2 DEF IInv, Phases, SendWindow
<1>7. AtWindowEnd'
  BY <1>1, <1>3 DEF IInv, AtWindowEnd, SendWindow, sizeVars, posVars
<1>8. WindowData'
  BY <1>1, <1>3 DEF IInv, WindowData, SendWindow
<1> QED
  BY <1>1, <1>2, <1>4, <1>5, <1>6, <1>7, <1>8
  DEF IInv, InWindow, AfterAnswer, AtEnd

\* The ONU keeps or discards the window.
LEMMA OnuWindowStep ==
  ASSUME IInv, NEW kind \in {"ok", "processingError", "error"}, OnuWindow(kind)
  PROVE  IInv'
<1>1. /\ answer.kind = "window" /\ answer'.kind = kind
      /\ answer' \in [kind : {"none", "start", "window", "ok", "processingError", "error"},
                      sec : Nat]
      /\ flash' = (IF kind = "ok" THEN flash \o window ELSE flash)
  BY DEF OnuWindow, IInv, TypeOK
<1>2. Base' = Base /\ W' = W /\ Reached' = Reached
  BY DEF OnuWindow, sizeVars, posVars, Base, W, Reached
<1>3. loop = "none" /\ st \in {"VerifyWindow", "Resetting"}
  <2>1. loop = "none"  BY <1>1 DEF IInv, Phases
  <2>2. st \in {"PreparingDL", "DLSection", "VerifyWindow", "FinalizeDL", "Resetting"}
    BY DEF IInv, TypeOK
  <2> QED  BY <1>1, <2>1, <2>2 DEF IInv, Phases
<1>4. /\ flash = Bytes(0, Base) /\ Base <= Reached
      /\ window = Bytes(Base, Reached - Base)
  BY <1>1 DEF IInv, WindowData
<1>5. Base \in Nat /\ Reached \in Nat
  <2>1. nextWin \in Nat /\ W \in Nat /\ SectionSize \in Nat /\ nextAbs \in Nat
        /\ imageLength \in Nat /\ noOfSections \in Nat
    BY SectionAssumption DEF IInv, TypeOK, W
  <2>2. nextWin * W \in Nat /\ nextAbs * SectionSize \in Nat  BY <2>1
  <2> QED  BY <2>1, <2>2 DEF Base, Reached
<1>6. flash \o window = Bytes(0, Reached)
  <2>1. Reached - Base \in Nat /\ 0 + Base = Base /\ Base + (Reached - Base) = Reached
    BY <1>4, <1>5
  <2>2. Bytes(0, Base) \o Bytes(0 + Base, Reached - Base) = Bytes(0, Base + (Reached - Base))
    BY <1>5, <2>1, BytesConcat
  <2> QED  BY <1>4, <2>1, <2>2
<1>7. flash' \in Seq(Nat) /\ Prefix'
  <2>1. PICK n \in Nat : flash' = Bytes(0, n)
    <3>1. CASE kind = "ok"  BY <1>1, <1>5, <1>6, <3>1
    <3>2. CASE kind # "ok"  BY <1>1, <1>4, <1>5, <3>2
    <3> QED  BY <3>1, <3>2
  <2> QED  BY <2>1, BytesType DEF Prefix
<1>8. TypeOK'  BY <1>1, <1>7 DEF IInv, TypeOK, OnuWindow, sizeVars, posVars
<1>9. SizesFit' /\ WindowsFit'
  BY <1>2 DEF IInv, SizesFit, WindowsFit, OnuWindow, sizeVars, posVars
<1>10. Phases'  BY <1>1, <1>3 DEF IInv, Phases, OnuWindow
<1>11. InWindow'  BY <1>3 DEF InWindow, OnuWindow
<1>12. AtWindowEnd'
  BY <1>1, <1>2 DEF IInv, AtWindowEnd, OnuWindow, sizeVars, posVars
<1>13. WindowData'  BY <1>1, <1>3 DEF WindowData, OnuWindow
<1>14. AfterAnswer'
  BY <1>1, <1>2, <1>4, <1>6 DEF AfterAnswer, OnuWindow
<1>15. AtEnd'  BY <1>3 DEF AtEnd, OnuWindow
<1> QED
  BY <1>1, <1>7, <1>8, <1>9, <1>10, <1>11, <1>12, <1>13, <1>14, <1>15 DEF IInv

\* The window is acknowledged.  If it is not the last one then all its
\* sections were sent, if it is the last one then the image is complete.
LEMMA ResponseOkStep ==
  ASSUME IInv, SectionResponseOk
  PROVE  IInv'
<1> DEFINE S == SectionSize
           N == noOfSections
<1>1. /\ st = "VerifyWindow" /\ answer.kind = "ok" /\ answer'.kind = "none"
      /\ answer' = NoAnswer
      /\ nextWin' = nextWin + 1 /\ nextAbs' = nextAbs /\ flash' = flash
      /\ limit' = limit /\ noOfWindows' = noOfWindows /\ noOfSections' = N
      /\ imageLength' = imageLength /\ sizeLast' = sizeLast
  BY DEF SectionResponseOk, Answered, NoAnswer, sizeVars
<1>2. loop = "none"  BY <1>1 DEF IInv, Phases
<1>3. /\ S \in Nat \ {0} /\ nextAbs \in Nat /\ nextSec \in Nat /\ N \in Nat
      /\ nextWin \in Nat /\ limit \in Nat /\ imageLength \in Nat /\ W \in Nat
      /\ noOfWindows \in Nat
  BY SectionAssumption DEF IInv, TypeOK, W
<1>4. /\ nextWin < noOfWindows /\ nextSec <= limit
      /\ nextAbs = nextWin * W + nextSec + 1 /\ nextAbs <= N
      /\ nextSec = limit \/ nextAbs = N
      /\ nextAbs = N => sizeLast = nextSec
  BY <1>1 DEF IInv, AtWindowEnd
<1>5. flash = Bytes(0, Reached)  BY <1>1 DEF IInv, AfterAnswer
<1>6. (nextWin + 1) * W = nextWin * W + W /\ nextWin * W \in Nat  BY <1>3
<1>7. (noOfWindows - 1) * W < N /\ N <= noOfWindows * W
  BY <1>1 DEF IInv, WindowsFit
<1>8. CASE nextWin + 1 >= noOfWindows
  <2>1. nextWin + 1 = noOfWindows  BY <1>3, <1>4, <1>8
  <2>2. nextAbs = N  BY <1>3, <1>4, <1>6, <1>7, <2>1 DEF W
  <2>3. flash' = Bytes(0, imageLength)  BY <1>1, <1>5, <2>2, <1>3 DEF Reached
  <2>4. st' \in {"FinalizeDL", "Resetting"} /\ loop' = "none"
        /\ (st' = "Resetting" => aborting' = "reset")
    BY <1>1, <1>2, <1>3, <1>8 DEF SectionResponseOk, AbortEvent
  <2>5. TypeOK'
    <3>1. nextSec' = nextSec /\ window' = window
      BY <1>1, <1>3, <1>8 DEF SectionResponseOk
    <3>2. aborting' \in {"no", "requested", "reset"}
      BY DEF SectionResponseOk, AbortEvent, IInv, TypeOK
    <3> QED
      BY <1>1, <1>3, <2>4, <3>1, <3>2
      DEF IInv, TypeOK, SectionResponseOk, NoAnswer, sizeVars
  <2>6. SizesFit' /\ WindowsFit' /\ Prefix'
    BY <1>1, <2>4
    DEF IInv, SizesFit, WindowsFit, Prefix, W, SectionResponseOk, sizeVars
  <2>7. Phases'  BY <1>1, <2>4 DEF Phases
  <2> QED
    BY <1>1, <2>3, <2>4, <2>5, <2>6, <2>7
    DEF IInv, InWindow, AtWindowEnd, WindowData, AfterAnswer, AtEnd
<1>9. CASE nextWin + 1 < noOfWindows
  <2>1. (nextWin + 1) * W <= (noOfWindows - 1) * W
    BY <1>3, <1>9, ProductMonotone, nextWin + 1 \in Nat, noOfWindows - 1 \in Nat,
       nextWin + 1 <= noOfWindows - 1
  <2>2. (noOfWindows - 1) * W \in Nat  BY <1>3, <1>9
  <2>3. nextSec = limit /\ nextAbs = (nextWin + 1) * W /\ nextAbs < N
    BY <1>3, <1>4, <1>6, <1>7, <2>1, <2>2 DEF W
  <2>4. Base' = nextAbs * S
    BY <1>1, <2>3 DEF Base, W
  <2>5. flash' = Bytes(0, Base')  BY <1>1, <1>3, <1>5, <2>3, <2>4 DEF Reached
  <2>6. CASE answer.sec # limit
    <3>1. st' = "Resetting" /\ loop' = "none" /\ aborting' = "reset"
          /\ nextSec' = nextSec /\ window' = window
      BY <1>1, <1>2, <1>3, <1>9, <2>6 DEF SectionResponseOk, AbortEvent
    <3>2. TypeOK'
      BY <1>1, <1>3, <3>1 DEF IInv, TypeOK, SectionResponseOk, NoAnswer, sizeVars
    <3>3. SizesFit' /\ WindowsFit' /\ Prefix'
      BY <1>1, <3>1
      DEF IInv, SizesFit, WindowsFit, Prefix, SectionResponseOk, sizeVars
    <3>4. Phases'  BY <1>1, <3>1 DEF Phases
    <3> QED
      BY <1>1, <3>1, <3>2, <3>3, <3>4
      DEF IInv, InWindow, AtWindowEnd, WindowData, AfterAnswer, AtEnd
  <2>7. CASE answer.sec = limit
    <3>1. st' = "DLSection" /\ loop' = "section" /\ aborting' = aborting
          /\ nextSec' = 0 /\ window' = <<>>
      BY <1>1, <1>3, <1>9, <2>7 DEF SectionResponseOk
    <3>2. TypeOK'
      BY <1>1, <1>3, <3>1 DEF IInv, TypeOK, SectionResponseOk, NoAnswer, sizeVars
    <3>3. SizesFit' /\ WindowsFit' /\ Prefix'
      BY <1>1, <1>7, <1>3, <1>9
      DEF IInv, SizesFit, WindowsFit, Prefix, W, SectionResponseOk, sizeVars
    <3>4. Phases'  BY <1>1, <3>1 DEF Phases
    <3>5. InWindow'
      <4>1. nextSec' * S = 0  BY <1>3, <3>1
      <4>2. Base' \in Nat  BY <1>3, <2>4
      <4>3. window' = Bytes(Base', nextSec' * S)  BY <3>1, <4>1, <4>2, BytesEmpty
      <4>4. nextAbs' = nextWin' * W' + nextSec'
        BY <1>1, <1>3, <2>3, <3>1 DEF W
      <4> QED
        BY <1>1, <1>3, <1>9, <2>3, <2>5, <3>1, <4>3, <4>4 DEF InWindow
    <3> QED
      BY <1>1, <3>1, <3>2, <3>3, <3>4, <3>5
      DEF IInv, AtWindowEnd, WindowData, AfterAnswer, AtEnd
  <2> QED  BY <2>6, <2>7
<1> QED  BY <1>3, <1>8, <1>9

\* Back to the start of the window: what the ONU has accepted is kept.
LEMMA RetryStep ==
  ASSUME IInv, RetrySoftwareDownload
  PROVE  IInv'
<1> DEFINE S == SectionSize
<1>1. /\ st = "VerifyWindow" /\ answer.kind = "processingError" /\ answer'.kind = "none"
      /\ answer' = NoAnswer /\ st' = "DLSection" /\ loop' = "section"
      /\ nextSec' = 0 /\ window' = <<>> /\ nextWin' = nextWin /\ flash' = flash
      /\ limit' = limit /\ noOfWindows' = noOfWindows /\ noOfSections' = noOfSections
  BY DEF RetrySoftwareDownload, Answered, NoAnswer, sizeVars
<1>2. limit \in 0 .. 254 /\ W \in Nat \ {0} /\ WindowSize(limit) = W /\ limit \in Nat
  <2>1. limit \in 0 .. 254  BY DEF IInv, TypeOK
  <2>2. \A l \in 0 .. 254 : (l + 1) % 256 = l + 1 /\ l \in Nat  OBVIOUS
  <2> QED  BY <2>1, <2>2 DEF W, WindowSize
<1>3. /\ S \in Nat \ {0} /\ nextWin \in Nat /\ noOfSections \in Nat /\ noOfWindows \in Nat
      /\ retries \in 0 .. MaxRetries /\ MaxRetries \in Nat
  BY SectionAssumption DEF IInv, TypeOK
<1>4. nextAbs' = nextWin * W /\ nextWin * W \in Nat
  BY <1>2, <1>3 DEF RetrySoftwareDownload
<1>5. nextWin < noOfWindows /\ (noOfWindows - 1) * W < noOfSections
  BY <1>1 DEF IInv, AtWindowEnd, WindowsFit
<1>6. nextWin * W <= (noOfWindows - 1) * W /\ (noOfWindows - 1) * W \in Nat
  BY <1>2, <1>3, <1>5, ProductMonotone, noOfWindows - 1 \in Nat, nextWin <= noOfWindows - 1
<1>7. Base' = Base /\ W' = W  BY <1>1 DEF Base, W
<1>8. TypeOK'
  <2>1. retries' \in 0 .. MaxRetries  BY <1>3 DEF RetrySoftwareDownload
  <2> QED
    BY <1>1, <1>4, <2>1 DEF IInv, TypeOK, RetrySoftwareDownload, NoAnswer, sizeVars
<1>9. SizesFit' /\ WindowsFit' /\ Prefix'
  BY <1>1, <1>7
  DEF IInv, SizesFit, WindowsFit, Prefix, RetrySoftwareDownload, sizeVars
<1>10. Phases'  BY <1>1 DEF Phases
<1>11. InWindow'
  <2>1. nextSec' * S = 0  BY <1>1, <1>3
  <2>2. Base' \in Nat  BY <1>3, <1>4, <1>7 DEF Base
  <2>3. window' = Bytes(Base', nextSec' * S)  BY <1>1, <2>1, <2>2, BytesEmpty
  <2>4. flash' = Bytes(0, Base')  BY <1>1, <1>7 DEF IInv, AfterAnswer
  <2>5. nextAbs' = nextWin' * W' + nextSec'  BY <1>1, <1>4, <1>7
  <2>6. nextAbs' < noOfSections'  BY <1>1, <1>3, <1>4, <1>5, <1>6
  <2> QED  BY <1>1, <1>2, <1>5, <2>3, <2>4, <2>5, <2>6 DEF InWindow
<1> QED
  BY <1>1, <1>8, <1>9, <1>10, <1>11
  DEF IInv, AtWindowEnd, WindowData, AfterAnswer, AtEnd

\* The steps that only end the transfer or announce its end.
LEMMA EndSteps ==
  ASSUME IInv,
         \/ CancelProcessing \/ Abort \/ StartSwDownloadError \/ SectionLoopAborted
         \/ SectionResponseIgnored \/ SectionResponseError
  PROVE  IInv'
<1>1. /\ fileLen' = fileLen /\ imageLength' = imageLength /\ noOfSections' = noOfSections
      /\ noOfWindows' = noOfWindows /\ limit' = limit /\ nextAbs' = nextAbs
      /\ nextSec' = nextSec /\ nextWin' = nextWin /\ sizeLast' = sizeLast
      /\ format' = format /\ retries' = retries /\ window' = window /\ flash' = flash
  BY DEF CancelProcessing, Abort, StartSwDownloadError, SectionLoopAborted,
         SectionResponseIgnored, SectionResponseError, sizeVars, posVars
<1>2. Base' = Base /\ W' = W /\ Reached' = Reached
  BY <1>1 DEF Base, W, Reached
<1>3. SizesFit' /\ Prefix'  BY <1>1 DEF IInv, SizesFit, Prefix
<1>4. CASE CancelProcessing
  <2>1. st' = st /\ loop' = loop /\ answer' = answer /\ aborting' = "requested"
        /\ aborting = "no"
    BY <1>4 DEF CancelProcessing
  <2>2. TypeOK'  BY <1>1, <2>1 DEF IInv, TypeOK
  <2>3. Phases'  BY <2>1 DEF IInv, Phases
  <2>4. WindowsFit' /\ InWindow' /\ AtWindowEnd'
    BY <1>1, <1>2, <2>1 DEF IInv, WindowsFit, InWindow, AtWindowEnd
  <2>5. WindowData' /\ AfterAnswer' /\ AtEnd'
    BY <1>1, <1>2, <2>1 DEF IInv, WindowData, AfterAnswer, AtEnd
  <2> QED  BY <1>1, <1>3, <2>1, <2>2, <2>3, <2>4, <2>5 DEF IInv
<1>5. CASE SectionResponseIgnored
  <2>1. st' = st /\ loop' = loop /\ answer' = NoAnswer /\ aborting' = aborting
        /\ st # "VerifyWindow" /\ answer.kind \in {"ok", "processingError", "error"}
        /\ answer'.kind = "none"
    BY <1>5 DEF SectionResponseIgnored, NoAnswer
  <2>2. TypeOK'  BY <1>1, <2>1 DEF IInv, TypeOK, NoAnswer
  <2>3. Phases'  BY <2>1 DEF IInv, Phases
  <2>4. WindowsFit' /\ InWindow' /\ AtWindowEnd'
    BY <1>1, <1>2, <2>1 DEF IInv, WindowsFit, InWindow, AtWindowEnd
  <2>5. WindowData' /\ AfterAnswer' /\ AtEnd'
    BY <1>1, <1>2, <2>1 DEF IInv, WindowData, AfterAnswer, AtEnd
  <2> QED  BY <1>1, <1>3, <2>1, <2>2, <2>3, <2>4, <2>5 DEF IInv
<1>6. CASE Abort \/ StartSwDownloadError \/ SectionLoopAborted \/ SectionResponseError
  <2>1. st' = "Resetting" /\ aborting' = "reset"
        /\ (loop' = loop \/ loop' = "none")
        /\ (answer' = answer \/ answer' = NoAnswer)
    BY <1>6 DEF Abort, StartSwDownloadError, SectionLoopAborted, SectionResponseError,
                AbortEvent, Answered, IInv, Phases
  <2>2. answer'.kind = answer.kind \/ answer'.kind = "none"  BY <2>1 DEF NoAnswer
  <2>3. TypeOK'  BY <1>1, <2>1 DEF IInv, TypeOK, NoAnswer
  <2>4. Phases'  BY <2>1, <2>2 DEF IInv, Phases
  <2>5. WindowsFit' /\ InWindow' /\ AtWindowEnd'
    BY <1>1, <1>2, <2>1, <2>2 DEF IInv, WindowsFit, InWindow, AtWindowEnd
  <2>6. WindowData' /\ AfterAnswer' /\ AtEnd'
    BY <1>1, <1>2, <2>1, <2>2 DEF IInv, WindowData, AfterAnswer, AtEnd
  <2> QED  BY <1>1, <1>3, <2>1, <2>2, <2>3, <2>4, <2>5, <2>6 DEF IInv
<1> QED  BY <1>4, <1>5, <1>6

\* Every step preserves the invariant.
LEMMA InvStep == IInv /\ [Next]_vars => IInv'
<1> SUFFICES ASSUME IInv, [Next]_vars PROVE IInv'  OBVIOUS
<1>1. CASE UNCHANGED vars
  BY <1>1 DEF vars, sizeVars, posVars, IInv, TypeOK, SizesFit, WindowsFit, Phases,
     InWindow, AtWindowEnd, WindowData, AfterAnswer, AtEnd, Prefix, Base, W, Reached
<1>2. CASE Next
  BY <1>2, StartStep, NextSectionStep, SendWindowStep, OnuWindowStep, ResponseOkStep,
     RetryStep, EndSteps DEF Next
<1> QED  BY <1>1, <1>2

\* The invariant implies the properties.
LEMMA InvImplies ==
  IInv => ImageIntegrity /\ SectionInBuffer /\ AckNumberExpected /\ NoOverlap
<1> SUFFICES ASSUME IInv
    PROVE ImageIntegrity /\ SectionInBuffer /\ AckNumberExpected /\ NoOverlap  OBVIOUS
<1>1. /\ SectionSize \in Nat \ {0} /\ nextAbs \in Nat /\ nextSec \in Nat
      /\ noOfSections \in Nat /\ fileLen \in Nat /\ imageLength \in Nat
      /\ nextWin \in Nat /\ limit \in Nat /\ W \in Nat /\ noOfWindows \in Nat
  BY SectionAssumption DEF IInv, TypeOK, W
<1>2. ImageIntegrity
  <2>1. /\ (noOfSections - 1) * SectionSize < fileLen
        /\ fileLen <= noOfSections * SectionSize
        /\ format = "extended" => imageLength = fileLen
        /\ format = "baseline" => imageLength = noOfSections * SectionSize
        /\ format \in {"baseline", "extended"}
    BY DEF IInv, SizesFit, TypeOK
  <2>2. noOfSections * SectionSize = (noOfSections - 1) * SectionSize + SectionSize
    BY <1>1
  <2>3. (noOfSections - 1) * SectionSize \in Int  BY <1>1
  <2>4. fileLen <= imageLength /\ imageLength < fileLen + SectionSize
    BY <1>1, <2>1, <2>2, <2>3
  <2> QED  BY <2>1, <2>4 DEF ImageIntegrity, IInv, AtEnd
<1>3. SectionInBuffer
  BY <1>1, SectionEnd DEF SectionInBuffer, OutOfBuffer
<1>4. AckNumberExpected
  <2> SUFFICES ASSUME st = "VerifyWindow"
      PROVE nextSec = IF nextWin + 1 >= noOfWindows THEN sizeLast ELSE limit
    BY DEF AckNumberExpected
  <2>1. /\ nextWin < noOfWindows /\ nextSec <= limit
        /\ nextAbs = nextWin * W + nextSec + 1 /\ nextAbs <= noOfSections
        /\ nextSec = limit \/ nextAbs = noOfSections
        /\ nextAbs = noOfSections => sizeLast = nextSec
        /\ (noOfWindows - 1) * W < noOfSections /\ noOfSections <= noOfWindows * W
    BY DEF IInv, AtWindowEnd, WindowsFit
  <2>2. (nextWin + 1) * W = nextWin * W + W /\ nextWin * W \in Nat  BY <1>1
  <2>3. CASE nextWin + 1 >= noOfWindows
    <3>1. nextWin + 1 = noOfWindows  BY <1>1, <2>1, <2>3
    <3>2. nextAbs = noOfSections  BY <1>1, <2>1, <2>2, <3>1 DEF W
    <3> QED  BY <2>1, <2>3, <3>2
  <2>4. CASE nextWin + 1 < noOfWindows
    <3>1. (nextWin + 1) * W <= (noOfWindows - 1) * W
      BY <1>1, <2>4, ProductMonotone, nextWin + 1 \in Nat, noOfWindows - 1 \in Nat,
         nextWin + 1 <= noOfWindows - 1
    <3>2. (noOfWindows - 1) * W \in Nat  BY <1>1, <2>4
    <3>3. nextSec = limit  BY <1>1, <2>1, <2>2, <3>1, <3>2 DEF W
    <3> QED  BY <1>1, <2>4, <3>3
  <2> QED  BY <1>1, <2>3, <2>4
<1>5. NoOverlap
  <2>1. PICK n \in Nat : flash = Bytes(0, n)  BY DEF IInv, Prefix
  <2>2. Len(flash) = n  BY <2>1, BytesType
  <2> QED  BY <2>1, <2>2 DEF NoOverlap
<1> QED  BY <1>2, <1>3, <1>4, <1>5

-----------------------------------------------------------------------------
(***************************************************************************)
(* Theorems                                                                *)
(***************************************************************************)
\* IInv is an invariant of the transfer.
THEOREM SectionInvariant == Spec => []IInv
BY InitInv, InvStep, PTL DEF Spec

\* When the FSM ends the download (EndSwDl after handleRxSwSectionResponse)
\* the ONU has accepted the bytes of the file once and in order, whatever
\* windows had to be repeated.
THEOREM ImageArrives == Spec => []ImageIntegrity
BY SectionInvariant, InvImplies, PTL

\* The error "should never occur in this state" of runSwDlSectionWindow does
\* not occur: no section lies outside of the image buffer.
THEOREM NeverOutOfBuffer == Spec => []SectionInBuffer
BY SectionInvariant, InvImplies, PTL

\* The section number handleRxSwSectionResponse expects in an acknowledgement
\* is the one that was sent.
THEOREM AckNumbersAgree == Spec => []AckNumberExpected
BY SectionInvariant, InvImplies, PTL

\* A repeated window never overlaps the data the ONU has accepted.
THEOREM RetryKeepsPrefix == Spec => []NoOverlap
BY SectionInvariant, InvImplies, PTL
=============================================================================
