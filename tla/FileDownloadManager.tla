------------------------ MODULE FileDownloadManager -------------------------
(***************************************************************************)
(* Download of software images to the adapter (internal/pkg/swupg/         *)
(* file_download_manager.go), shared by the upgrade FSMs of all ONUs, with *)
(* the routines of the upgrade FSM that wait for an image                  *)
(* (omci_onu_upgrade.go: waitOnDownloadToAdapterReady, CancelProcessing).  *)
(*                                                                         *)
(* A download is one call of downloadFile and the goroutine it starts.     *)
(* The HTTP server may fail at any step or hang.  The context with the     *)
(* download timeout is attached to a copy of the request that is thrown    *)
(* away, so neither the timeout nor a cancellation stops a download.       *)
(***************************************************************************)
EXTENDS Integers, Sequences, FiniteSets

CONSTANTS
  Images,      \* image names, with the vendor put in front
  URLs,        \* the URLs an image may be requested from
  Devices,     \* the ONUs
  None,        \* no URL, no device, no image
  MaxDl,       \* bound on the number of downloads
  MayTimeout,  \* whether waiting for the image may time out
  MayAbort     \* whether the operator may abort an upgrade

ASSUME FileAssumption ==
  /\ MaxDl \in Nat
  /\ None \notin URLs /\ None \notin Devices /\ None \notin Images
  /\ MayTimeout \in BOOLEAN /\ MayAbort \in BOOLEAN

Dls == 1 .. MaxDl

VARIABLES
  downloadImageDsc,    \* image -> its descriptor (at most one per name)
  dnldImgReadyWaiting, \* image -> the devices whose channels are registered
  mutexFileState,      \* the download whose HEAD request is open, 0: unlocked
  holder,              \* who keeps mutexDownloadImageDsc locked in a send
  removing,            \* removeImage calls inside the read lock
  cancels,             \* image -> removeImage goroutines that have not begun
  dl,                  \* the downloads
  file,                \* image -> what is in the local directory
  wait,                \* device -> where its waiting routine stands
  request,             \* device -> its goroutine RequestDownloadReady
  abort,               \* device -> the operator's abort of its upgrade
  img                  \* device -> the image of its upgrade

devVars == <<wait, request, abort, img>>
vars == <<downloadImageDsc, dnldImgReadyWaiting, mutexFileState, holder,
          removing, cancels, dl, file, devVars>>

-----------------------------------------------------------------------------
NoDsc  == [st |-> "none", url |-> None]
NoFile == [st |-> "absent", by |-> 0]
Free   == [by |-> "none", dl |-> 0, dev |-> None]

Descriptors == {NoDsc} \cup [st : {"started", "succeeded"}, url : URLs]

DlStates == {"unused", "head", "headFailed", "start", "get", "copy", "update",
             "serve", "remove", "removeFs", "statFailed", "ended"}

TypeOK ==
  /\ downloadImageDsc \in [Images -> Descriptors]
  /\ dnldImgReadyWaiting \in [Images -> SUBSET Devices]
  /\ mutexFileState \in Dls \cup {0}
  /\ holder \in [by : {"none", "update", "request"}, dl : Dls \cup {0},
                 dev : Devices \cup {None}]
  /\ cancels \in [Images -> Nat]
  /\ \A m \in removing : m.img \in Images /\ m.keep \in [Images -> Descriptors]
  /\ dl \in [Dls -> [st : DlStates, img : Images \cup {None},
                     url : URLs \cup {None}, dev : Devices \cup {None}]]
  /\ file \in [Images -> [st : {"absent", "partial", "complete", "mixed"},
                          by : Dls \cup {0}]]
  /\ wait \in [Devices -> {"idle", "entering", "waiting", "timedOut", "cancel",
                           "aborted", "ready", "ended"}]
  /\ request \in [Devices -> {"none", "pending", "sending"}]
  /\ abort \in [Devices -> {"none", "sending", "cancel", "ended"}]
  /\ img \in [Devices -> Images \cup {None}]

Init ==
  /\ downloadImageDsc = [i \in Images |-> NoDsc]
  /\ dnldImgReadyWaiting = [i \in Images |-> {}]
  /\ mutexFileState = 0 /\ holder = Free /\ removing = {}
  /\ cancels = [i \in Images |-> 0]
  /\ dl = [g \in Dls |-> [st |-> "unused", img |-> None, url |-> None, dev |-> None]]
  /\ file = [i \in Images |-> NoFile]
  /\ wait = [d \in Devices |-> "idle"]
  /\ request = [d \in Devices |-> "none"]
  /\ abort = [d \in Devices |-> "none"]
  /\ img = [d \in Devices |-> None]

\* mutexDownloadImageDsc: removeImage and CancelDownload only read-lock it.
CanRead  == holder = Free
CanWrite == holder = Free /\ removing = {}

Exists(i) == downloadImageDsc[i] # NoDsc
Set(g, st) == dl' = [dl EXCEPT ![g].st = st]

-----------------------------------------------------------------------------
(***************************************************************************)
(* StartDownload and downloadFile                                          *)
(***************************************************************************)
\* The image exists: its state is returned, or an error if the URL differs.
StartDownloadExisting(d, i, u) ==
  /\ wait[d] = "idle" /\ abort[d] = "none"
  /\ mutexFileState = 0 /\ CanWrite
  /\ Exists(i)
  /\ img' = [img EXCEPT ![d] = i]
  /\ wait' = [wait EXCEPT ![d] = IF downloadImageDsc[i].url = u
                                 THEN "entering" ELSE "ended"]
  /\ UNCHANGED <<downloadImageDsc, dnldImgReadyWaiting, mutexFileState, holder,
                 removing, cancels, dl, file, request, abort>>

\* A new image: add its descriptor, then check the URL with mutexFileState
\* still locked.
StartDownload(d, i, u) ==
  /\ wait[d] = "idle" /\ abort[d] = "none"
  /\ mutexFileState = 0 /\ CanWrite
  /\ ~Exists(i)
  /\ downloadImageDsc' = [downloadImageDsc EXCEPT ![i] = [st |-> "started", url |-> u]]
  /\ img' = [img EXCEPT ![d] = i]
  /\ \E g \in Dls :
       /\ dl[g].st = "unused" /\ \A h \in 1 .. g - 1 : dl[h].st # "unused"
       /\ dl' = [dl EXCEPT ![g] = [st |-> "head", img |-> i, url |-> u, dev |-> d]]
       /\ mutexFileState' = g
  /\ wait' = [wait EXCEPT ![d] = "ended"]
  /\ UNCHANGED <<dnldImgReadyWaiting, holder, removing, cancels, file, request, abort>>

\* The HEAD request succeeds (or is not supported by the server): the rest
\* runs in background and the upgrade of the device is started.
HeadOk(g) ==
  /\ dl[g].st = "head"
  /\ Set(g, "start")
  /\ mutexFileState' = 0
  /\ wait' = [wait EXCEPT ![dl[g].dev] = "entering"]
  /\ UNCHANGED <<downloadImageDsc, dnldImgReadyWaiting, holder, removing, cancels, file,
                 request, abort, img>>

HeadFails(g) ==
  /\ dl[g].st = "head"
  /\ Set(g, "headFailed")
  /\ UNCHANGED <<downloadImageDsc, dnldImgReadyWaiting, mutexFileState, holder,
                 removing, cancels, file, devVars>>

\* updateDownloadCancel stores the cancel function of the context, which no
\* request is bound to.
UpdateDownloadCancel(g) ==
  /\ dl[g].st = "start"
  /\ CanWrite
  /\ Set(g, "get")
  /\ UNCHANGED <<downloadImageDsc, dnldImgReadyWaiting, mutexFileState, holder,
                 removing, cancels, file, devVars>>

\* The GET request fails, or the file cannot be created.
GetFails(g) ==
  /\ dl[g].st = "get"
  /\ Set(g, "remove")
  /\ UNCHANGED <<downloadImageDsc, dnldImgReadyWaiting, mutexFileState, holder,
                 removing, cancels, file, devVars>>

\* os.Create truncates what another download has written.
GetOk(g) ==
  /\ dl[g].st = "get"
  /\ Set(g, "copy")
  /\ file' = [file EXCEPT ![dl[g].img] = [st |-> "partial", by |-> g]]
  /\ UNCHANGED <<downloadImageDsc, dnldImgReadyWaiting, mutexFileState, holder,
                 removing, cancels, devVars>>

\* io.Copy ends.  A file that was truncated meanwhile holds a mixture, a
\* file that was removed stays removed.
CopyOk(g) ==
  LET f == file[dl[g].img]
  IN /\ dl[g].st = "copy"
     /\ file' = [file EXCEPT ![dl[g].img].st =
                   IF f.st = "absent" THEN "absent"
                   ELSE IF f.by = g /\ f.st = "partial" THEN "complete" ELSE "mixed"]
     /\ Set(g, "update")
     /\ UNCHANGED <<downloadImageDsc, dnldImgReadyWaiting, mutexFileState, holder,
                    removing, cancels, devVars>>

\* (variant: the error of io.Copy is not looked at)
CopyFailsUnseen(g) ==
  /\ dl[g].st = "copy"
  /\ Set(g, "update")
  /\ UNCHANGED <<downloadImageDsc, dnldImgReadyWaiting, mutexFileState, holder,
                 removing, cancels, file, devVars>>

CopyFails(g) ==
  /\ dl[g].st = "copy"
  /\ Set(g, "removeFs")
  /\ UNCHANGED <<downloadImageDsc, dnldImgReadyWaiting, mutexFileState, holder,
                 removing, cancels, file, devVars>>

\* The size of the written file cannot be read: the routine just ends.
StatFails(g) ==
  /\ dl[g].st = "update"
  /\ Set(g, "statFailed")
  /\ UNCHANGED <<downloadImageDsc, dnldImgReadyWaiting, mutexFileState, holder,
                 removing, cancels, file, devVars>>

-----------------------------------------------------------------------------
(***************************************************************************)
(* updateFileState: mark the descriptor of that name, and send on every    *)
(* registered channel with the mutex locked.  The channels are unbuffered. *)
(***************************************************************************)
\* The next requester in the loop over the map, or the end of the call.
ServeNext(g, waiting) ==
  \/ /\ waiting = {}
     /\ holder' = Free
     /\ Set(g, "ended")
  \/ \E d \in waiting :
       /\ holder' = [by |-> "update", dl |-> g, dev |-> d]
       /\ Set(g, "serve")

\* (variant: a device that asks while the state changes is overlooked)
UpdateFileStateUnserved(g) ==
  LET i == dl[g].img
  IN /\ dl[g].st = "update"
     /\ CanWrite
     /\ downloadImageDsc' = IF Exists(i)
                            THEN [downloadImageDsc EXCEPT ![i].st = "succeeded"]
                            ELSE downloadImageDsc
     /\ ServeNext(g, {})
     /\ UNCHANGED <<dnldImgReadyWaiting, mutexFileState, removing, cancels, file, devVars>>

UpdateFileState(g) ==
  LET i == dl[g].img
  IN /\ dl[g].st = "update"
     /\ CanWrite
     /\ downloadImageDsc' = IF Exists(i)
                            THEN [downloadImageDsc EXCEPT ![i].st = "succeeded"]
                            ELSE downloadImageDsc
     /\ ServeNext(g, IF Exists(i) THEN dnldImgReadyWaiting[i] ELSE {})
     /\ UNCHANGED <<dnldImgReadyWaiting, mutexFileState, removing, cancels, file, devVars>>

\* The channel's owner receives, is deleted from the map, and the loop goes on.
Serve(g) ==
  LET d == holder.dev
      i == dl[g].img
  IN /\ dl[g].st = "serve" /\ holder.by = "update" /\ holder.dl = g
     /\ wait[d] = "waiting"
     /\ wait' = [wait EXCEPT ![d] = "ready"]
     /\ dnldImgReadyWaiting' = [dnldImgReadyWaiting EXCEPT ![i] = @ \ {d}]
     /\ ServeNext(g, dnldImgReadyWaiting[i] \ {d})
     /\ UNCHANGED <<downloadImageDsc, mutexFileState, removing, cancels, file, request,
                    abort, img>>

-----------------------------------------------------------------------------
(***************************************************************************)
(* removeImage filters the slice in place under the read lock only: what   *)
(* it writes back is what it read, less the image.                         *)
(***************************************************************************)
\* A failed download removes its image itself; CancelDownload has it done by
\* a goroutine that it starts.
RemoveByDownload(g) ==
  /\ dl[g].st \in {"headFailed", "remove", "removeFs"}
  /\ CanRead
  /\ \A m \in removing : m.dl # g
  /\ removing' = removing \cup {[img |-> dl[g].img, fs |-> dl[g].st = "removeFs",
                                 dl |-> g, keep |-> downloadImageDsc]}
  /\ UNCHANGED <<downloadImageDsc, dnldImgReadyWaiting, mutexFileState, holder,
                 cancels, dl, file, devVars>>

RemoveStart(i) ==
  /\ cancels[i] > 0
  /\ CanRead
  /\ \A m \in removing : m.dl # 0 \/ m.img # i
  /\ removing' = removing \cup {[img |-> i, fs |-> TRUE, dl |-> 0,
                                 keep |-> downloadImageDsc]}
  /\ cancels' = [cancels EXCEPT ![i] = @ - 1]
  /\ UNCHANGED <<downloadImageDsc, dnldImgReadyWaiting, mutexFileState, holder,
                 dl, file, devVars>>

RemoveEnd(m) ==
  /\ m \in removing
  /\ downloadImageDsc' = [m.keep EXCEPT ![m.img] = NoDsc]
  /\ file' = IF m.fs /\ m.keep[m.img] # NoDsc
             THEN [file EXCEPT ![m.img] = NoFile] ELSE file
  /\ removing' = removing \ {m}
  /\ IF m.dl = 0 THEN UNCHANGED dl ELSE Set(m.dl, "ended")
  /\ mutexFileState' = IF m.dl # 0 /\ mutexFileState = m.dl THEN 0 ELSE mutexFileState
  /\ UNCHANGED <<dnldImgReadyWaiting, holder, cancels, devVars>>

-----------------------------------------------------------------------------
(***************************************************************************)
(* The upgrade FSM of a device                                             *)
(***************************************************************************)
\* enterWaitingAdapterDL: start the waiting routine, which reads the timeout
\* under the manager's mutex, then request the notification in background.
EnterWaitingAdapterDL(d) ==
  /\ wait[d] = "entering"
  /\ CanRead
  /\ wait' = [wait EXCEPT ![d] = "waiting"]
  /\ request' = [request EXCEPT ![d] = "pending"]
  /\ UNCHANGED <<downloadImageDsc, dnldImgReadyWaiting, mutexFileState, holder,
                 removing, cancels, dl, file, abort, img>>

\* RequestDownloadReady: send at once, with the mutex locked, or register.
RequestDownloadReady(d) ==
  /\ request[d] = "pending"
  /\ CanWrite
  /\ \/ /\ downloadImageDsc[img[d]].st = "succeeded"
        /\ holder' = [by |-> "request", dl |-> 0, dev |-> d]
        /\ request' = [request EXCEPT ![d] = "sending"]
        /\ UNCHANGED dnldImgReadyWaiting
     \/ /\ downloadImageDsc[img[d]].st # "succeeded"
        /\ dnldImgReadyWaiting' = [dnldImgReadyWaiting EXCEPT ![img[d]] = @ \cup {d}]
        /\ request' = [request EXCEPT ![d] = "none"]
        /\ UNCHANGED holder
  /\ UNCHANGED <<downloadImageDsc, mutexFileState, removing, cancels, dl, file,
                 wait, abort, img>>

RequestServed(d) ==
  /\ request[d] = "sending" /\ holder.by = "request" /\ holder.dev = d
  /\ wait[d] = "waiting"
  /\ request' = [request EXCEPT ![d] = "none"]
  /\ wait' = [wait EXCEPT ![d] = "ready"]
  /\ holder' = Free
  /\ UNCHANGED <<downloadImageDsc, dnldImgReadyWaiting, mutexFileState, removing,
                 cancels, dl, file, abort, img>>

\* The timer of waitOnDownloadToAdapterReady fires: the request is withdrawn,
\* then the download cancelled.
Timeout(d) ==
  /\ MayTimeout
  /\ wait[d] = "waiting"
  /\ wait' = [wait EXCEPT ![d] = "timedOut"]
  /\ UNCHANGED <<downloadImageDsc, dnldImgReadyWaiting, mutexFileState, holder,
                 removing, cancels, dl, file, request, abort, img>>

RemoveReadyRequest(d) ==
  /\ wait[d] \in {"timedOut", "aborted"}
  /\ CanWrite
  /\ dnldImgReadyWaiting' = [dnldImgReadyWaiting EXCEPT ![img[d]] = @ \ {d}]
  /\ wait' = [wait EXCEPT ![d] = IF @ = "timedOut" THEN "cancel" ELSE "ended"]
  /\ UNCHANGED <<downloadImageDsc, mutexFileState, holder, removing, cancels, dl,
                 file, request, abort, img>>

\* CancelDownload: the image, if there is one, is removed by a goroutine.
CancelDownload(i) ==
  /\ CanRead
  /\ cancels' = IF Exists(i) THEN [cancels EXCEPT ![i] = @ + 1] ELSE cancels

CancelAfterTimeout(d) ==
  /\ wait[d] = "cancel"
  /\ CancelDownload(img[d])
  /\ wait' = [wait EXCEPT ![d] = "ended"]
  /\ UNCHANGED <<downloadImageDsc, dnldImgReadyWaiting, mutexFileState, holder,
                 removing, dl, file, request, abort, img>>

-----------------------------------------------------------------------------
(***************************************************************************)
(* AbortOnuUpgrade: CancelProcessing of the device's FSM, then             *)
(* CancelDownload                                                          *)
(***************************************************************************)
\* isWaitingForAdapterDlResponse is read under its mutex, the mutex unlocked,
\* and only then false is sent on the unbuffered chAdapterDlReady.
IsWaitingForAdapterDlResponse(d) == wait[d] \in {"waiting", "timedOut", "cancel", "aborted"}

CancelProcessing(d) ==
  /\ MayAbort
  /\ abort[d] = "none" /\ wait[d] # "idle"
  /\ abort' = [abort EXCEPT ![d] = IF IsWaitingForAdapterDlResponse(d)
                                   THEN "sending" ELSE "cancel"]
  /\ UNCHANGED <<downloadImageDsc, dnldImgReadyWaiting, mutexFileState, holder,
                 removing, cancels, dl, file, wait, request, img>>

CancelReceived(d) ==
  /\ abort[d] = "sending" /\ wait[d] = "waiting"
  /\ wait' = [wait EXCEPT ![d] = "aborted"]
  /\ abort' = [abort EXCEPT ![d] = "cancel"]
  /\ UNCHANGED <<downloadImageDsc, dnldImgReadyWaiting, mutexFileState, holder,
                 removing, cancels, dl, file, request, img>>

CancelByOperator(d) ==
  /\ abort[d] = "cancel"
  /\ CancelDownload(img[d])
  /\ abort' = [abort EXCEPT ![d] = "ended"]
  /\ UNCHANGED <<downloadImageDsc, dnldImgReadyWaiting, mutexFileState, holder,
                 removing, dl, file, wait, request, img>>

-----------------------------------------------------------------------------
Download(g) ==
  \/ HeadOk(g) \/ HeadFails(g) \/ GetOk(g) \/ GetFails(g) \/ CopyOk(g)
  \/ CopyFails(g) \/ StatFails(g)

Manage(g) ==
  UpdateDownloadCancel(g) \/ UpdateFileState(g) \/ Serve(g) \/ RemoveByDownload(g)

Remove == \E i \in Images : RemoveStart(i)

Device(d) ==
  \/ EnterWaitingAdapterDL(d) \/ RequestDownloadReady(d) \/ RequestServed(d)
  \/ RemoveReadyRequest(d) \/ CancelAfterTimeout(d)

Abort(d) == CancelReceived(d) \/ CancelByOperator(d)

Next ==
  \/ \E d \in Devices, i \in Images, u \in URLs :
       StartDownloadExisting(d, i, u) \/ StartDownload(d, i, u)
  \/ \E g \in Dls : Download(g) \/ Manage(g)
  \/ Remove \/ \E m \in removing : RemoveEnd(m)
  \/ \E d \in Devices : Device(d) \/ Timeout(d) \/ CancelProcessing(d) \/ Abort(d)

Spec == Init /\ [][Next]_vars

-----------------------------------------------------------------------------
(***************************************************************************)
(* Properties                                                              *)
(***************************************************************************)
\* No lost wake-up: when the manager's mutex is free, no device is registered
\* for an image that has been downloaded.  RequestDownloadReady must not
\* register behind the back of updateFileState, and updateFileState must
\* reach everyone registered before.
NoLostRequester ==
  holder = Free =>
    \A i \in Images : downloadImageDsc[i].st = "succeeded"
                       => dnldImgReadyWaiting[i] = {}

\* No two removeImage calls for different images overlap.  They may, since
\* they hold the read lock only; then the one that ends last brings back the
\* descriptor of the other's image, whose file is gone.
RemovalsApart == \A m, n \in removing : m.img = n.img

\* An image in state DlSucceeded is completely in the local directory, as
\* long as it was downloaded only once and RemovalsApart (always so with one
\* image): failures, removals and late completions never leave a succeeded
\* descriptor without its file.  A second download may overlap with one that
\* was cancelled, see above.
SucceededIsReady ==
  \A i \in Images :
    /\ downloadImageDsc[i].st = "succeeded"
    /\ \A g, h \in Dls : dl[g].img = i /\ dl[h].img = i => g = h
    => file[i].st = "complete"

=============================================================================
