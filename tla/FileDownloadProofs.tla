------------------------ MODULE FileDownloadProofs ---------------------------
(***************************************************************************)
(* No requester of an image is lost, and a succeeded image is in the local *)
(* directory, for any number of images, URLs, devices and downloads.       *)
(***************************************************************************)
EXTENDS FileDownloadManager, TLAPS

(***************************************************************************)
(* The inductive invariant.  While updateFileState sends to the requesters *)
(* of an image only that image may be succeeded and have requesters; what  *)
(* a removeImage will write back was read while nobody could register.     *)
(***************************************************************************)
BeingServed(i) == holder.by = "update" /\ dl[holder.dl].img = i

ListInv ==
  \A i \in Images :
    downloadImageDsc[i].st = "succeeded" =>
      dnldImgReadyWaiting[i] = {} \/ BeingServed(i)

KeepInv ==
  \A m \in removing : \A i \in Images :
    m.keep[i].st = "succeeded" => dnldImgReadyWaiting[i] = {}

RemovingInv == removing # {} => holder = Free

LostInv ==
  /\ downloadImageDsc \in [Images -> Descriptors]
  /\ dnldImgReadyWaiting \in [Images -> SUBSET Devices]
  /\ dl \in [Dls -> [st : DlStates, img : Images \cup {None},
                     url : URLs \cup {None}, dev : Devices \cup {None}]]
  /\ holder.by = "update" => holder.dl \in Dls
  /\ \A m \in removing :
       /\ m.img \in Images /\ m.keep \in [Images -> Descriptors]
       /\ m.dl \in Dls \cup {0}
       /\ m.dl # 0 => dl[m.dl].img \in Images
  /\ \A g \in Dls : dl[g].st = "unused" \/ dl[g].img \in Images
  /\ ListInv /\ KeepInv /\ RemovingInv

\* The steps of the HTTP transfer touch neither the descriptors nor the
\* registrations, and leave the image of every download.
LEMMA TransferSteps ==
  ASSUME LostInv, NEW g \in Dls, Download(g) \/ UpdateDownloadCancel(g)
  PROVE  LostInv'
<1>1. /\ UNCHANGED <<downloadImageDsc, dnldImgReadyWaiting, holder, removing>>
      /\ dl[g].st # "unused"
      /\ \E st \in DlStates : dl' = [dl EXCEPT ![g].st = st]
  BY DEF LostInv, Download, HeadOk, HeadFails, GetOk, GetFails, CopyOk, CopyFails,
         StatFails, UpdateDownloadCancel, Set, devVars, DlStates
<1>2. /\ dl' \in [Dls -> [st : DlStates, img : Images \cup {None},
                          url : URLs \cup {None}, dev : Devices \cup {None}]]
      /\ \A h \in Dls : dl'[h].img = dl[h].img /\ (h # g => dl'[h] = dl[h])
  BY <1>1 DEF LostInv
<1>3. \A h \in Dls : dl'[h].st = "unused" \/ dl'[h].img \in Images
  BY <1>1, <1>2 DEF LostInv
<1>4. ListInv'
  BY <1>1, <1>2 DEF LostInv, ListInv, BeingServed
<1>5. KeepInv' /\ RemovingInv'
  BY <1>1 DEF LostInv, KeepInv, RemovingInv
<1> QED BY <1>1, <1>2, <1>3, <1>4, <1>5 DEF LostInv

\* The loop of updateFileState ends with the image's requesters served, or
\* goes on with one of them.
LEMMA ServeNextStep ==
  ASSUME LostInv, NEW g \in Dls, NEW i \in Images, NEW waiting \in SUBSET Devices,
         dl[g].img = i, dl[g].st # "unused", removing = {}, removing' = {},
         holder = Free \/ (holder.by = "update" /\ holder.dl \in Dls
                            /\ dl[holder.dl].img = i),
         downloadImageDsc' \in [Images -> Descriptors],
         dnldImgReadyWaiting' \in [Images -> SUBSET Devices],
         dnldImgReadyWaiting'[i] = waiting \/ downloadImageDsc'[i].st # "succeeded",
         \A j \in Images : j # i => /\ downloadImageDsc'[j] = downloadImageDsc[j]
                                    /\ dnldImgReadyWaiting'[j] = dnldImgReadyWaiting[j],
         ServeNext(g, waiting)
  PROVE  LostInv'
<1>1. /\ dl' \in [Dls -> [st : DlStates, img : Images \cup {None},
                          url : URLs \cup {None}, dev : Devices \cup {None}]]
      /\ \A h \in Dls : dl'[h].img = dl[h].img /\ (h # g => dl'[h] = dl[h])
  <2>1. \E st \in DlStates : dl' = [dl EXCEPT ![g].st = st]
    BY DEF ServeNext, Set, DlStates
  <2> QED BY <2>1 DEF LostInv
<1>2. \A h \in Dls : dl'[h].st = "unused" \/ dl'[h].img \in Images
  BY <1>1 DEF LostInv
<1>3. /\ holder'.by = "update" => holder'.dl \in Dls
      /\ (waiting = {} /\ holder' = Free)
           \/ (holder'.by = "update" /\ holder'.dl = g)
  BY DEF ServeNext, Free
<1>4. ListInv'
  <2> SUFFICES ASSUME NEW j \in Images, downloadImageDsc'[j].st = "succeeded"
               PROVE  dnldImgReadyWaiting'[j] = {} \/ BeingServed(j)'
    BY DEF ListInv
  <2>1. CASE j = i
    BY <2>1, <1>1, <1>3 DEF BeingServed
  <2>2. CASE j # i
    BY <2>2 DEF LostInv, ListInv, BeingServed, Free
  <2> QED BY <2>1, <2>2
<1>5. KeepInv' /\ RemovingInv'
  BY DEF KeepInv, RemovingInv
<1> QED BY <1>1, <1>2, <1>3, <1>4, <1>5 DEF LostInv

\* Every step keeps the invariant.
LEMMA LostInvStep ==
  ASSUME LostInv, [Next]_vars
  PROVE  LostInv'
<1>1. CASE UNCHANGED vars
  BY <1>1 DEF vars, LostInv, ListInv, KeepInv, RemovingInv, BeingServed
<1>2. ASSUME NEW d \in Devices, NEW i \in Images, NEW u \in URLs,
             StartDownloadExisting(d, i, u)
      PROVE  LostInv'
  BY <1>2 DEF StartDownloadExisting, LostInv, ListInv, KeepInv, RemovingInv, BeingServed
<1>3. ASSUME NEW d \in Devices, NEW i \in Images, NEW u \in URLs, StartDownload(d, i, u)
      PROVE  LostInv'
  <2> DEFINE new == [st |-> "head", img |-> i, url |-> u, dev |-> d]
  <2>1. PICK g \in Dls : dl[g].st = "unused" /\ dl' = [dl EXCEPT ![g] = new]
    BY <1>3 DEF StartDownload
  <2>2. /\ downloadImageDsc' = [downloadImageDsc EXCEPT ![i] = [st |-> "started", url |-> u]]
        /\ removing = {} /\ holder = Free
        /\ UNCHANGED <<dnldImgReadyWaiting, holder, removing>>
    BY <1>3 DEF StartDownload, CanWrite
  <2>3. /\ downloadImageDsc' \in [Images -> Descriptors]
        /\ \A j \in Images : downloadImageDsc'[j].st = "succeeded"
                                 => downloadImageDsc[j].st = "succeeded"
    BY <2>2 DEF Descriptors, LostInv
  <2>4. new \in [st : DlStates, img : Images \cup {None},
                 url : URLs \cup {None}, dev : Devices \cup {None}]
    BY DEF DlStates
  <2>5. dl' \in [Dls -> [st : DlStates, img : Images \cup {None},
                         url : URLs \cup {None}, dev : Devices \cup {None}]]
    BY <2>1, <2>4 DEF LostInv
  <2>6. \A h \in Dls : dl'[h].st = "unused" \/ dl'[h].img \in Images
    BY <2>1 DEF LostInv
  <2>7. ListInv'
    BY <2>2, <2>3 DEF LostInv, ListInv, BeingServed, Free
  <2>8. KeepInv' /\ RemovingInv'
    BY <2>2 DEF KeepInv, RemovingInv
  <2> QED BY <2>2, <2>3, <2>5, <2>6, <2>7, <2>8 DEF LostInv
<1>4. ASSUME NEW g \in Dls, Download(g) \/ UpdateDownloadCancel(g)
      PROVE  LostInv'
  BY <1>4, TransferSteps
<1>5. ASSUME NEW g \in Dls, UpdateFileState(g)
      PROVE  LostInv'
  <2> DEFINE i == dl[g].img
             waiting == IF Exists(i) THEN dnldImgReadyWaiting[i] ELSE {}
  <2>1. /\ dl[g].st # "unused" /\ i \in Images
        /\ holder = Free /\ removing = {} /\ removing' = {}
        /\ ServeNext(g, waiting)
        /\ dnldImgReadyWaiting' = dnldImgReadyWaiting
    BY <1>5 DEF UpdateFileState, CanWrite, LostInv
  <2>2. waiting \in SUBSET Devices
    BY <2>1 DEF LostInv
  <2>3. downloadImageDsc' = IF Exists(i)
                            THEN [downloadImageDsc EXCEPT ![i].st = "succeeded"]
                            ELSE downloadImageDsc
    BY <1>5 DEF UpdateFileState
  <2>4. /\ downloadImageDsc' \in [Images -> Descriptors]
        /\ \A j \in Images : j # i => downloadImageDsc'[j] = downloadImageDsc[j]
        /\ dnldImgReadyWaiting'[i] = waiting \/ downloadImageDsc'[i].st # "succeeded"
    BY <2>1, <2>3 DEF LostInv, Descriptors, Exists, NoDsc
  <2> QED BY <2>1, <2>2, <2>4, ServeNextStep DEF LostInv
<1>6. ASSUME NEW g \in Dls, Serve(g)
      PROVE  LostInv'
  <2> DEFINE i == dl[g].img
             d == holder.dev
  <2>1. /\ dl[g].st # "unused" /\ i \in Images /\ holder.by = "update" /\ holder.dl = g
        /\ removing' = removing /\ downloadImageDsc' = downloadImageDsc
        /\ dnldImgReadyWaiting' = [dnldImgReadyWaiting EXCEPT ![i] = @ \ {d}]
        /\ ServeNext(g, dnldImgReadyWaiting[i] \ {d})
    BY <1>6 DEF Serve, LostInv
  <2>2. removing = {}
    BY <2>1 DEF LostInv, RemovingInv, Free
  <2>3. /\ dnldImgReadyWaiting' \in [Images -> SUBSET Devices]
        /\ dnldImgReadyWaiting'[i] = dnldImgReadyWaiting[i] \ {d}
        /\ dnldImgReadyWaiting[i] \ {d} \in SUBSET Devices
        /\ \A j \in Images : j # i => dnldImgReadyWaiting'[j] = dnldImgReadyWaiting[j]
    BY <2>1 DEF LostInv
  <2> QED BY <2>1, <2>2, <2>3, ServeNextStep DEF LostInv
<1>7. ASSUME NEW g \in Dls, RemoveByDownload(g)
      PROVE  LostInv'
  <2> DEFINE m == [img |-> dl[g].img, fs |-> dl[g].st = "removeFs", dl |-> g,
                   keep |-> downloadImageDsc]
  <2>1. /\ holder = Free /\ dl[g].st # "unused"
        /\ UNCHANGED <<downloadImageDsc, dnldImgReadyWaiting, holder, dl>>
        /\ removing' = removing \cup {m}
    BY <1>7 DEF RemoveByDownload, CanRead
  <2>2. m.img \in Images /\ m.keep \in [Images -> Descriptors] /\ m.dl \in Dls \cup {0}
    BY <2>1 DEF LostInv
  <2>3. KeepInv' /\ RemovingInv' /\ ListInv'
    BY <2>1 DEF LostInv, ListInv, KeepInv, RemovingInv, BeingServed, Free
  <2> QED BY <2>1, <2>2, <2>3 DEF LostInv
<1>8. ASSUME NEW i \in Images, RemoveStart(i)
      PROVE  LostInv'
  <2> DEFINE m == [img |-> i, fs |-> TRUE, dl |-> 0, keep |-> downloadImageDsc]
  <2>1. /\ holder = Free
        /\ UNCHANGED <<downloadImageDsc, dnldImgReadyWaiting, holder, dl>>
        /\ removing' = removing \cup {m}
    BY <1>8 DEF RemoveStart, CanRead
  <2>2. m.img \in Images /\ m.keep \in [Images -> Descriptors] /\ m.dl \in Dls \cup {0}
    BY DEF LostInv
  <2>3. KeepInv' /\ RemovingInv' /\ ListInv'
    BY <2>1 DEF LostInv, ListInv, KeepInv, RemovingInv, BeingServed, Free
  <2> QED BY <2>1, <2>2, <2>3 DEF LostInv
<1>9. ASSUME NEW m \in removing, RemoveEnd(m)
      PROVE  LostInv'
  <2>1. /\ m \in removing /\ holder = Free
        /\ downloadImageDsc' = [m.keep EXCEPT ![m.img] = NoDsc]
        /\ UNCHANGED <<dnldImgReadyWaiting, holder>>
        /\ removing' = removing \ {m}
    BY <1>9 DEF RemoveEnd, LostInv, RemovingInv
  <2>2. /\ downloadImageDsc' \in [Images -> Descriptors]
        /\ \A i \in Images : downloadImageDsc'[i].st = "succeeded"
                                 => dnldImgReadyWaiting[i] = {}
    BY <2>1 DEF LostInv, KeepInv, Descriptors, NoDsc
  <2>3. /\ dl' \in [Dls -> [st : DlStates, img : Images \cup {None},
                            url : URLs \cup {None}, dev : Devices \cup {None}]]
        /\ \A h \in Dls : dl'[h].st = "unused" \/ dl'[h].img \in Images
    <3>1. CASE m.dl = 0
      BY <3>1, <1>9 DEF RemoveEnd, LostInv
    <3>2. CASE m.dl # 0
      <4>1. /\ m.dl \in Dls /\ dl' = [dl EXCEPT ![m.dl].st = "ended"]
            /\ dl[m.dl].img \in Images
        BY <3>2, <1>9 DEF RemoveEnd, LostInv, Set
      <4> QED BY <4>1 DEF LostInv, DlStates
    <3> QED BY <3>1, <3>2
  <2>4. KeepInv' /\ RemovingInv' /\ ListInv'
    BY <2>1, <2>2 DEF LostInv, ListInv, KeepInv, RemovingInv
  <2>5. \A h \in Dls : dl'[h].img = dl[h].img
    BY <1>9 DEF RemoveEnd, LostInv, Set
  <2> QED BY <2>1, <2>2, <2>3, <2>4, <2>5 DEF LostInv
<1>10. ASSUME NEW d \in Devices, RequestDownloadReady(d)
       PROVE  LostInv'
  <2>1. /\ holder = Free /\ removing = {} /\ UNCHANGED <<downloadImageDsc, removing, dl>>
    BY <1>10 DEF RequestDownloadReady, CanWrite
  <2>2. CASE downloadImageDsc[img[d]].st = "succeeded"
    <3>1. /\ UNCHANGED dnldImgReadyWaiting
          /\ holder' = [by |-> "request", dl |-> 0, dev |-> d]
      BY <1>10, <2>2 DEF RequestDownloadReady
    <3> QED BY <3>1, <2>1 DEF LostInv, ListInv, KeepInv, RemovingInv, BeingServed, Free
  <2>3. CASE downloadImageDsc[img[d]].st # "succeeded"
    <3>1. /\ UNCHANGED holder
          /\ dnldImgReadyWaiting' = [dnldImgReadyWaiting EXCEPT ![img[d]] = @ \cup {d}]
      BY <1>10, <2>3 DEF RequestDownloadReady
    <3>2. /\ dnldImgReadyWaiting' \in [Images -> SUBSET Devices]
          /\ \A j \in Images : j # img[d]
                => dnldImgReadyWaiting'[j] = dnldImgReadyWaiting[j]
      BY <3>1 DEF LostInv
    <3>3. ListInv'
      BY <3>1, <3>2, <2>1, <2>3 DEF LostInv, ListInv, BeingServed, Free
    <3> QED BY <3>1, <3>2, <3>3, <2>1 DEF LostInv, KeepInv, RemovingInv
  <2> QED BY <2>2, <2>3
<1>11. ASSUME NEW d \in Devices, RequestServed(d)
       PROVE  LostInv'
  BY <1>11 DEF RequestServed, LostInv, ListInv, KeepInv, RemovingInv, BeingServed, Free
<1>12. ASSUME NEW d \in Devices, RemoveReadyRequest(d)
       PROVE  LostInv'
  <2>1. /\ removing = {} /\ UNCHANGED <<downloadImageDsc, removing, dl, holder>>
        /\ dnldImgReadyWaiting' = [dnldImgReadyWaiting EXCEPT ![img[d]] = @ \ {d}]
    BY <1>12 DEF RemoveReadyRequest, CanWrite
  <2>2. /\ dnldImgReadyWaiting' \in [Images -> SUBSET Devices]
        /\ \A j \in Images : dnldImgReadyWaiting'[j] \subseteq dnldImgReadyWaiting[j]
    BY <2>1 DEF LostInv
  <2> QED BY <2>1, <2>2 DEF LostInv, ListInv, KeepInv, RemovingInv, BeingServed
<1>13. ASSUME NEW d \in Devices,
              \/ EnterWaitingAdapterDL(d) \/ CancelAfterTimeout(d) \/ Timeout(d)
              \/ CancelProcessing(d) \/ Abort(d)
       PROVE  LostInv'
  <2>1. UNCHANGED <<downloadImageDsc, dnldImgReadyWaiting, holder, removing, dl>>
    BY <1>13 DEF EnterWaitingAdapterDL, CancelAfterTimeout, Timeout, CancelProcessing,
                 Abort, CancelReceived, CancelByOperator
  <2> QED BY <2>1 DEF LostInv, ListInv, KeepInv, RemovingInv, BeingServed
<1> QED
  BY <1>1, <1>2, <1>3, <1>4, <1>5, <1>6, <1>7, <1>8, <1>9, <1>10, <1>11, <1>12, <1>13
     DEF Next, Manage, Remove, Device

\* The invariant holds in every state of every behaviour of the manager.
LEMMA LostInvHolds == Spec => []LostInv
<1>1. Init => LostInv
  <2> SUFFICES ASSUME Init PROVE LostInv
    OBVIOUS
  <2>1. /\ removing = {} /\ holder = Free
        /\ downloadImageDsc = [i \in Images |-> NoDsc]
        /\ dnldImgReadyWaiting = [i \in Images |-> {}]
    BY DEF Init
  <2>2. /\ dl \in [Dls -> [st : DlStates, img : Images \cup {None},
                           url : URLs \cup {None}, dev : Devices \cup {None}]]
        /\ \A g \in Dls : dl[g].st = "unused"
    BY DEF Init, DlStates
  <2>3. /\ downloadImageDsc \in [Images -> Descriptors]
        /\ dnldImgReadyWaiting \in [Images -> SUBSET Devices]
    BY <2>1 DEF Descriptors
  <2> QED BY <2>1, <2>2, <2>3
          DEF LostInv, ListInv, KeepInv, RemovingInv, NoDsc, Free
<1>2. LostInv /\ [Next]_vars => LostInv'
  BY LostInvStep
<1> QED BY <1>1, <1>2, PTL DEF Spec

\* Spec => []NoLostRequester: whatever the order of downloads, cancellations,
\* timeouts and requests, no device stays registered for an image that
\* updateFileState has marked DlSucceeded, once the manager's mutex is free.
THEOREM NoRequesterLost == Spec => []NoLostRequester
<1>1. LostInv => NoLostRequester
  BY DEF LostInv, ListInv, NoLostRequester, BeingServed, Free
<1> QED BY <1>1, LostInvHolds, PTL

-----------------------------------------------------------------------------
(***************************************************************************)
(* Succeeded images are ready                                              *)
(*                                                                         *)
(* FileInv follows the only download of an image from the file it creates  *)
(* to the descriptor it marks.  It survives a removal because what the     *)
(* removal writes back for the other images is still current, KeepCurrent: *)
(* this is where removals of different images must not overlap.            *)
(***************************************************************************)
Sole(g, i) == dl[g].img = i /\ \A h \in Dls : dl[h].img = i => h = g

Followed(g, i) ==
  /\ dl[g].st = "copy" => file[i] = [st |-> "partial", by |-> g]
  /\ dl[g].st = "update" => file[i].st = "complete"
  /\ downloadImageDsc[i].st = "succeeded"
       => file[i].st = "complete" /\ dl[g].st \in {"serve", "ended"}

FileInv ==
  \A i \in Images : Exists(i) =>
    /\ \E g \in Dls : dl[g].img = i
    /\ \A g \in Dls : Sole(g, i) => Followed(g, i)

KeepCurrent ==
  \A m \in removing : \A i \in Images \ {m.img} : m.keep[i] = downloadImageDsc[i]

ReadyInv ==
  /\ file \in [Images -> [st : {"absent", "partial", "complete", "mixed"},
                          by : Dls \cup {0}]]
  /\ \A g \in Dls : dl[g].st = "unused" => dl[g].img = None
  /\ \A m \in removing : m.dl # 0 => dl[m.dl].img = m.img
  /\ KeepCurrent /\ FileInv

\* The effect of Set on a download that runs.
LEMMA SetEffect ==
  ASSUME LostInv, NEW g \in Dls, NEW st, dl[g].st # "unused", Set(g, st)
  PROVE  /\ \A h \in Dls : dl'[h].img = dl[h].img /\ (h # g => dl'[h] = dl[h])
         /\ dl'[g].st = st /\ dl[g].img \in Images
         /\ \A h \in Dls, i \in Images : Sole(h, i)' <=> Sole(h, i)
<1>1. /\ \A h \in Dls : dl'[h].img = dl[h].img /\ (h # g => dl'[h] = dl[h])
      /\ dl'[g].st = st /\ dl[g].img \in Images
  BY DEF LostInv, Set
<1> QED BY <1>1 DEF Sole

\* A download that goes on or ends without touching file and descriptor.
LEMMA SetStep ==
  ASSUME LostInv, ReadyInv, NEW g \in Dls, NEW st \in DlStates, Set(g, st),
         st \notin {"unused", "copy", "update"}, dl[g].st # "unused",
         dl[g].st \in {"serve", "ended"} => st \in {"serve", "ended"},
         UNCHANGED <<downloadImageDsc, file, removing>>
  PROVE  ReadyInv'
<1>1. /\ \A h \in Dls : dl'[h].img = dl[h].img /\ (h # g => dl'[h] = dl[h])
      /\ dl'[g].st = st /\ dl[g].img \in Images
      /\ \A h \in Dls, i \in Images : Sole(h, i)' <=> Sole(h, i)
  BY SetEffect
<1>2. FileInv'
  BY <1>1 DEF ReadyInv, FileInv, Followed, Exists
<1>3. KeepCurrent'
  BY DEF ReadyInv, KeepCurrent
<1>4. \A m \in removing' : m.dl # 0 => dl'[m.dl].img = m.img
  BY <1>1 DEF ReadyInv, LostInv
<1> QED BY <1>1, <1>2, <1>3, <1>4 DEF ReadyInv

\* os.Create and io.Copy of the image's only download.
LEMMA WriteStep ==
  ASSUME LostInv, ReadyInv, NEW g \in Dls, GetOk(g) \/ CopyOk(g)
  PROVE  ReadyInv'
<1> DEFINE j == dl[g].img
<1>1. /\ dl[g].st \in {"get", "copy"} /\ dl[g].st # "unused"
      /\ UNCHANGED <<downloadImageDsc, removing>>
      /\ Set(g, IF dl[g].st = "get" THEN "copy" ELSE "update")
  BY DEF GetOk, CopyOk
<1>2. /\ \A h \in Dls : dl'[h].img = dl[h].img /\ (h # g => dl'[h] = dl[h])
      /\ dl'[g].st = (IF dl[g].st = "get" THEN "copy" ELSE "update") /\ j \in Images
      /\ \A h \in Dls, i \in Images : Sole(h, i)' <=> Sole(h, i)
  BY <1>1, SetEffect
<1>3. /\ file' \in [Images -> [st : {"absent", "partial", "complete", "mixed"},
                               by : Dls \cup {0}]]
      /\ \A i \in Images : i # j => file'[i] = file[i]
  BY <1>1, <1>2 DEF GetOk, CopyOk, ReadyInv
<1>4. FileInv'
  <2> SUFFICES ASSUME NEW i \in Images, Exists(i)
               PROVE  /\ \E h \in Dls : dl[h].img = i
                      /\ \A h \in Dls : Sole(h, i) => Followed(h, i)'
    BY <1>1, <1>2 DEF FileInv, Exists
  <2>1. \E h \in Dls : dl[h].img = i
    BY DEF ReadyInv, FileInv
  <2>2. ASSUME NEW h \in Dls, Sole(h, i) PROVE Followed(h, i)'
    <3>0. Followed(h, i)
      BY <2>2 DEF ReadyInv, FileInv
    <3>1. CASE i # j
      <4>1. h # g
        BY <2>2, <3>1 DEF Sole
      <4> QED BY <3>0, <3>1, <4>1, <1>1, <1>2, <1>3 DEF Followed
    <3>2. CASE i = j
      <4>1. h = g
        BY <2>2, <3>2 DEF Sole
      <4>2. CASE GetOk(g)
        <5>1. file'[i] = [st |-> "partial", by |-> g] /\ dl[g].st = "get"
          BY <3>2, <4>2, <1>2 DEF GetOk, ReadyInv
        <5> QED BY <3>0, <4>1, <5>1, <1>1, <1>2 DEF Followed
      <4>3. CASE CopyOk(g)
        <5>1. dl[g].st = "copy" /\ file[i] = [st |-> "partial", by |-> g]
          BY <3>0, <4>1, <4>3 DEF CopyOk, Followed
        <5>2. file'[i].st = "complete"
          BY <3>2, <4>3, <5>1, <1>2 DEF CopyOk, ReadyInv
        <5> QED BY <3>0, <4>1, <5>1, <5>2, <1>1, <1>2 DEF Followed
      <4> QED BY <4>2, <4>3
    <3> QED BY <3>1, <3>2
  <2> QED BY <2>1, <2>2
<1>5. KeepCurrent'
  BY <1>1 DEF ReadyInv, KeepCurrent
<1>6. \A m \in removing' : m.dl # 0 => dl'[m.dl].img = m.img
  BY <1>1, <1>2 DEF ReadyInv, LostInv
<1>7. \A h \in Dls : dl'[h].st = "unused" => dl'[h].img = None
  BY <1>1, <1>2 DEF ReadyInv
<1> QED BY <1>3, <1>4, <1>5, <1>6, <1>7 DEF ReadyInv

\* updateFileState marks the descriptor of a file that is complete.
LEMMA MarkStep ==
  ASSUME LostInv, ReadyInv, NEW g \in Dls, UpdateFileState(g)
  PROVE  ReadyInv'
<1> DEFINE j == dl[g].img
<1>1. /\ dl[g].st = "update" /\ removing = {} /\ UNCHANGED <<removing, file>>
      /\ downloadImageDsc' = IF Exists(j)
                             THEN [downloadImageDsc EXCEPT ![j].st = "succeeded"]
                             ELSE downloadImageDsc
      /\ \E st \in {"serve", "ended"} : Set(g, st)
  BY DEF UpdateFileState, CanWrite, ServeNext
<1>2. /\ \A h \in Dls : dl'[h].img = dl[h].img /\ (h # g => dl'[h] = dl[h])
      /\ dl'[g].st \in {"serve", "ended"} /\ j \in Images
      /\ \A h \in Dls, i \in Images : Sole(h, i)' <=> Sole(h, i)
  BY <1>1, SetEffect
<1>3. /\ \A i \in Images : i # j => downloadImageDsc'[i] = downloadImageDsc[i]
      /\ \A i \in Images : Exists(i)' <=> Exists(i)
  BY <1>1, <1>2 DEF LostInv, Exists, NoDsc, Descriptors
<1>4. FileInv'
  <2> SUFFICES ASSUME NEW i \in Images, Exists(i)
               PROVE  /\ \E h \in Dls : dl[h].img = i
                      /\ \A h \in Dls : Sole(h, i) => Followed(h, i)'
    BY <1>2, <1>3 DEF FileInv
  <2>1. \E h \in Dls : dl[h].img = i
    BY DEF ReadyInv, FileInv
  <2>2. ASSUME NEW h \in Dls, Sole(h, i) PROVE Followed(h, i)'
    <3>0. Followed(h, i)
      BY <2>2 DEF ReadyInv, FileInv
    <3>1. CASE i # j
      <4>1. h # g
        BY <2>2, <3>1 DEF Sole
      <4> QED BY <3>0, <3>1, <4>1, <1>1, <1>2, <1>3 DEF Followed
    <3>2. CASE i = j
      <4>1. h = g
        BY <2>2, <3>2 DEF Sole
      <4> QED BY <3>0, <4>1, <1>1, <1>2 DEF Followed
    <3> QED BY <3>1, <3>2
  <2> QED BY <2>1, <2>2
<1>5. KeepCurrent' /\ \A m \in removing' : m.dl # 0 => dl'[m.dl].img = m.img
  BY <1>1 DEF KeepCurrent
<1>6. \A h \in Dls : dl'[h].st = "unused" => dl'[h].img = None
  BY <1>1, <1>2 DEF ReadyInv
<1> QED BY <1>1, <1>4, <1>5, <1>6 DEF ReadyInv

\* StartDownload begins a download of an image that has no descriptor.
LEMMA StartStep ==
  ASSUME LostInv, ReadyInv, NEW d \in Devices, NEW i \in Images, NEW u \in URLs,
         StartDownload(d, i, u)
  PROVE  ReadyInv'
<1> DEFINE new == [st |-> "head", img |-> i, url |-> u, dev |-> d]
<1>1. PICK g \in Dls : dl[g].st = "unused" /\ dl' = [dl EXCEPT ![g] = new]
  BY DEF StartDownload
<1>2. /\ downloadImageDsc' = [downloadImageDsc EXCEPT ![i] = [st |-> "started", url |-> u]]
      /\ removing = {} /\ UNCHANGED <<removing, file>>
  BY DEF StartDownload, CanWrite
<1>3. /\ dl'[g].img = i /\ dl'[g].st = "head" /\ dl[g].img = None
      /\ \A h \in Dls : h # g => dl'[h] = dl[h]
  BY <1>1 DEF LostInv, ReadyInv
<1>4. /\ \A j \in Images : j # i => downloadImageDsc'[j] = downloadImageDsc[j]
      /\ downloadImageDsc'[i].st = "started"
  BY <1>2 DEF LostInv
<1>5. FileInv'
  <2> SUFFICES ASSUME NEW j \in Images, Exists(j)'
               PROVE  /\ \E h \in Dls : dl'[h].img = j
                      /\ \A h \in Dls : Sole(h, j)' => Followed(h, j)'
    BY DEF FileInv
  <2>1. CASE j = i
    BY <2>1, <1>3, <1>4 DEF Sole, Followed
  <2>2. CASE j # i
    <3>1. Exists(j)
      BY <2>2, <1>4 DEF Exists
    <3>2. \E h \in Dls : dl[h].img = j /\ h # g
      BY <3>1, <1>3, FileAssumption DEF ReadyInv, FileInv
    <3>3. ASSUME NEW h \in Dls, Sole(h, j)' PROVE Followed(h, j)'
      <4>1. h # g /\ Sole(h, j)
        BY <3>3, <2>2, <1>3, FileAssumption DEF Sole
      <4>2. Followed(h, j)
        BY <3>1, <4>1 DEF ReadyInv, FileInv
      <4> QED BY <4>1, <4>2, <2>2, <1>2, <1>3, <1>4 DEF Followed
    <3> QED BY <3>2, <3>3, <1>3
  <2> QED BY <2>1, <2>2
<1>6. KeepCurrent' /\ \A m \in removing' : m.dl # 0 => dl'[m.dl].img = m.img
  BY <1>2 DEF KeepCurrent
<1>7. \A h \in Dls : dl'[h].st = "unused" => dl'[h].img = None
  BY <1>3 DEF ReadyInv
<1> QED BY <1>2, <1>5, <1>6, <1>7 DEF ReadyInv

\* removeImage ends: the image loses its descriptor and, unless the file was
\* never written, its file; the other images keep both.
LEMMA RemoveEndStep ==
  ASSUME LostInv, ReadyInv, RemovalsApart, NEW m \in removing, RemoveEnd(m)
  PROVE  ReadyInv'
<1>1. /\ downloadImageDsc' = [m.keep EXCEPT ![m.img] = NoDsc]
      /\ removing' = removing \ {m} /\ m.img \in Images
      /\ m.keep \in [Images -> Descriptors]
      /\ m.dl # 0 => m.dl \in Dls /\ dl[m.dl].img = m.img
  BY DEF RemoveEnd, LostInv, ReadyInv
<1>2. /\ downloadImageDsc'[m.img] = NoDsc
      /\ \A i \in Images : i # m.img => downloadImageDsc'[i] = downloadImageDsc[i]
  BY <1>1 DEF ReadyInv, KeepCurrent
<1>3. /\ file' \in [Images -> [st : {"absent", "partial", "complete", "mixed"},
                               by : Dls \cup {0}]]
      /\ \A i \in Images : i # m.img => file'[i] = file[i]
  BY <1>1 DEF RemoveEnd, ReadyInv, NoFile
<1>4. /\ \A h \in Dls : dl'[h].img = dl[h].img
      /\ \A h \in Dls : dl[h].img # m.img => dl'[h] = dl[h]
      /\ \A h \in Dls : dl'[h] = dl[h] \/ dl'[h].st = "ended"
  <2>1. CASE m.dl = 0
    BY <2>1 DEF RemoveEnd
  <2>2. CASE m.dl # 0
    <3>1. Set(m.dl, "ended") /\ m.dl \in Dls
      BY <2>2, <1>1 DEF RemoveEnd
    <3> QED BY <3>1, <2>2, <1>1 DEF LostInv, Set
  <2> QED BY <2>1, <2>2
<1>5. FileInv'
  <2> SUFFICES ASSUME NEW i \in Images, Exists(i)'
               PROVE  /\ \E h \in Dls : dl[h].img = i
                      /\ \A h \in Dls : Sole(h, i)' => Followed(h, i)'
    BY <1>4 DEF FileInv
  <2>1. i # m.img /\ Exists(i)
    BY <1>2 DEF Exists
  <2>2. \E h \in Dls : dl[h].img = i
    BY <2>1 DEF ReadyInv, FileInv
  <2>3. ASSUME NEW h \in Dls, Sole(h, i)' PROVE Followed(h, i)'
    <3>1. Sole(h, i) /\ dl'[h] = dl[h]
      BY <2>1, <2>3, <1>4 DEF Sole
    <3>2. Followed(h, i)
      BY <2>1, <3>1 DEF ReadyInv, FileInv
    <3> QED BY <2>1, <3>1, <3>2, <1>2, <1>3 DEF Followed
  <2> QED BY <2>2, <2>3
<1>6. KeepCurrent'
  <2> SUFFICES ASSUME NEW n \in removing, NEW i \in Images \ {n.img}
               PROVE  n.keep[i] = downloadImageDsc'[i]
    BY <1>1 DEF KeepCurrent
  <2>1. n.img = m.img
    BY DEF RemovalsApart
  <2> QED BY <2>1, <1>2 DEF ReadyInv, KeepCurrent
<1>7. \A n \in removing' : n.dl # 0 => dl'[n.dl].img = n.img
  BY <1>1, <1>4 DEF ReadyInv, LostInv
<1>8. \A h \in Dls : dl'[h].st = "unused" => dl'[h].img = None
  BY <1>4 DEF ReadyInv
<1> QED BY <1>3, <1>5, <1>6, <1>7, <1>8 DEF ReadyInv

\* Every step keeps the invariant as long as removals do not overlap.
LEMMA ReadyInvStep ==
  ASSUME LostInv, ReadyInv, RemovalsApart, [Next]_vars
  PROVE  ReadyInv'
<1>1. ASSUME UNCHANGED <<downloadImageDsc, file, removing, dl>> PROVE ReadyInv'
  BY <1>1 DEF ReadyInv, KeepCurrent, FileInv, Sole, Followed, Exists
<1>2. CASE UNCHANGED vars
  BY <1>1, <1>2 DEF vars
<1>3. ASSUME NEW d \in Devices, NEW i \in Images, NEW u \in URLs,
             StartDownloadExisting(d, i, u) \/ StartDownload(d, i, u)
      PROVE  ReadyInv'
  BY <1>1, <1>3, StartStep DEF StartDownloadExisting
<1>4. ASSUME NEW g \in Dls, GetOk(g) \/ CopyOk(g) \/ UpdateFileState(g) PROVE ReadyInv'
  BY <1>4, WriteStep, MarkStep
<1>5. ASSUME NEW g \in Dls,
             \/ HeadOk(g) \/ HeadFails(g) \/ GetFails(g) \/ CopyFails(g) \/ StatFails(g)
             \/ UpdateDownloadCancel(g) \/ Serve(g)
      PROVE  ReadyInv'
  <2>1. UNCHANGED <<downloadImageDsc, file, removing>> /\ dl[g].st # "unused"
    BY <1>5 DEF HeadOk, HeadFails, GetFails, CopyFails, StatFails, UpdateDownloadCancel, Serve
  <2>2. \E st \in DlStates \ {"unused", "copy", "update"} :
          Set(g, st) /\ (dl[g].st \in {"serve", "ended"} => st \in {"serve", "ended"})
    BY <1>5 DEF HeadOk, HeadFails, GetFails, CopyFails, StatFails, UpdateDownloadCancel,
                Serve, ServeNext, DlStates
  <2> QED BY <2>1, <2>2, SetStep
<1>6. ASSUME NEW g \in Dls, RemoveByDownload(g) PROVE ReadyInv'
  <2> DEFINE m == [img |-> dl[g].img, fs |-> dl[g].st = "removeFs", dl |-> g,
                   keep |-> downloadImageDsc]
  <2>1. removing' = removing \cup {m} /\ UNCHANGED <<downloadImageDsc, file, dl>>
    BY <1>6 DEF RemoveByDownload
  <2>2. m.keep = downloadImageDsc /\ dl[m.dl].img = m.img
    OBVIOUS
  <2> QED BY <2>1, <2>2 DEF ReadyInv, KeepCurrent, FileInv, Sole, Followed, Exists
<1>7. ASSUME NEW i \in Images, RemoveStart(i) PROVE ReadyInv'
  <2> DEFINE m == [img |-> i, fs |-> TRUE, dl |-> 0, keep |-> downloadImageDsc]
  <2>1. removing' = removing \cup {m} /\ UNCHANGED <<downloadImageDsc, file, dl>>
    BY <1>7 DEF RemoveStart
  <2>2. m.keep = downloadImageDsc /\ m.dl = 0
    OBVIOUS
  <2> QED BY <2>1, <2>2 DEF ReadyInv, KeepCurrent, FileInv, Sole, Followed, Exists
<1>8. ASSUME NEW m \in removing, RemoveEnd(m) PROVE ReadyInv'
  BY <1>8, RemoveEndStep
<1>9. ASSUME NEW d \in Devices, Device(d) \/ Timeout(d) \/ CancelProcessing(d) \/ Abort(d)
      PROVE  ReadyInv'
  <2>1. UNCHANGED <<downloadImageDsc, file, removing, dl>>
    BY <1>9 DEF Device, EnterWaitingAdapterDL, RequestDownloadReady, RequestServed,
                RemoveReadyRequest, CancelAfterTimeout, Timeout, CancelProcessing, Abort,
                CancelReceived, CancelByOperator
  <2> QED BY <1>1, <2>1
<1> QED
  BY <1>2, <1>3, <1>4, <1>5, <1>6, <1>7, <1>8, <1>9 DEF Next, Download, Manage, Remove

\* An image that updateFileState marked DlSucceeded is completely in the
\* local directory as long as only one download of it was started, in every
\* behaviour in which removeImage calls for different images do not overlap:
\* failed transfers, cancellations and removals by several goroutines do not
\* leave a succeeded descriptor without its file.
LEMMA SucceededImageIsReady == Spec /\ []RemovalsApart => []SucceededIsReady
<1>1. Init => ReadyInv
  BY DEF Init, ReadyInv, KeepCurrent, FileInv, Exists, NoFile
<1>2. LostInv /\ ReadyInv /\ RemovalsApart /\ [Next]_vars => ReadyInv'
  BY ReadyInvStep
<1>3. ReadyInv => SucceededIsReady
  <2> SUFFICES ASSUME ReadyInv, NEW i \in Images, downloadImageDsc[i].st = "succeeded",
                      \A g, h \in Dls : dl[g].img = i /\ dl[h].img = i => g = h
               PROVE  file[i].st = "complete"
    BY DEF SucceededIsReady
  <2>1. Exists(i)
    BY DEF Exists, NoDsc
  <2>2. PICK g \in Dls : dl[g].img = i
    BY <2>1 DEF ReadyInv, FileInv
  <2> QED BY <2>1, <2>2 DEF ReadyInv, FileInv, Sole, Followed
<1> QED BY <1>1, <1>2, <1>3, LostInvHolds, PTL DEF Spec

\* With one image there is nothing a removeImage could bring back: the image
\* that was downloaded once and is marked DlSucceeded is complete, without any
\* premise about removals.
THEOREM OneImageIsReady ==
  ASSUME NEW i, Images = {i}
  PROVE  Spec => []SucceededIsReady
<1>1. LostInv => RemovalsApart
  BY DEF LostInv, RemovalsApart
<1> QED BY <1>1, LostInvHolds, SucceededImageIsReady, PTL
=============================================================================
