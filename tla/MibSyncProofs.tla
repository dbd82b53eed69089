---------------------------- MODULE MibSyncProofs ----------------------------
(***************************************************************************)
(* Proofs about MibSync, for every size of the counter, number of commands *)
(* and number of disturbances: the images are distinct, an upload that is  *)
(* done is complete, and, for an ONU that stays up, a reset ONU is         *)
(* provisioned anew, the counters agree while the MIB is in sync, and an   *)
(* audit resets no ONU without a cause.                                    *)
(*                                                                         *)
(* The images.  HandleSwImageIndications is right only if it is called     *)
(* once for the first image and then once for the second: a second answer  *)
(* for "sw1" would make it active and inactive at once.  So the proof      *)
(* follows each of the two requests, from the OMCI channel over CommChan   *)
(* to the event the answer stands for: in a run of the FSM that was        *)
(* started with empty channels, and until an answer is repeated, there is  *)
(* one at most, in its own state only, however the message processors,     *)
(* timeouts, late answers, the adapter's own repetitions of reset and get  *)
(* requests and the cancellation interleave.                               *)
(*                                                                         *)
(* The others rest on the same, stated for all requests, events and        *)
(* callbacks (Wire), and on three accounts kept along a run: of the        *)
(* commands of the upload (Upload), of the device (Life) and of the two    *)
(* counters (Match, Audit).                                                *)
(***************************************************************************)
EXTENDS MibSync, TLAPS

\* Some request or answer of the sequence is for r; one at most is.
Has(r, s) == \E k \in 1 .. Len(s) : s[k].req = r
One(r, s) == \A j, k \in 1 .. Len(s) : s[j].req = r /\ s[k].req = r => j = k

Absent(r) == ~Has(r, sent) /\ ~Has(r, back) /\ ~Has(r, chan)
Single(r) ==
  /\ One(r, sent) /\ One(r, back) /\ One(r, chan)
  /\ ~(Has(r, sent) /\ Has(r, back)) /\ ~(Has(r, sent) /\ Has(r, chan))
  /\ ~(Has(r, back) /\ Has(r, chan))

\* An event that waits for the FSM.
Waits(ev) == \E e \in pend : e.ev = ev

\* The first image is known and the second is not; both are known.
FirstImage ==
  \/ img.active = "sw0" /\ img.inactive = "none"
  \/ img.active = "none" /\ img.inactive = "sw0"
BothImages == {img.active, img.inactive} = {"sw0", "sw1"}

\* A run of the FSM that began with empty channels is past its start.
Live == dev.clean /\ ul \notin {"Disabled", "Starting"}

\* The device handler is about to fire the first event of such a run.
FreshStart ==
  /\ dh = "started" => ul \in {"Starting", "Disabled"} /\ cb = NoCb
  /\ dev.clean /\ ul = "Starting" /\ dh = "started" =>
       /\ sent = <<>> /\ back = <<>> /\ chan = <<>>
       /\ ~Waits("GetSecondSwVersion") /\ ~Waits("GetMacAddress")

\* Where the request for an image may be, and what its event stands for.
ImageTokens ==
  Live =>
    /\ \/ Absent("sw0")
       \/ Single("sw0") /\ ul = "GettingFirstSwVersion" /\ ~Waits("GetSecondSwVersion")
    /\ \/ Absent("sw1")
       \/ Single("sw1") /\ ul = "GettingSecondSwVersion" /\ ~Waits("GetMacAddress") /\ FirstImage
    /\ Waits("GetSecondSwVersion") => ul = "GettingFirstSwVersion" /\ FirstImage
    /\ Waits("GetMacAddress") => ul = "GettingSecondSwVersion" /\ BothImages
    /\ ul \in {"GettingMacAddress", "GettingMibTemplate"} => BothImages
PostedEvents == Events \ {"Start", "ResetMib", "VerifyAndStoreTPs"}
Posts == [ev : PostedEvents, by : {"proc", "go"}]
Sents == [req : Reqs, n : Nat, sup : BOOLEAN]
SignalNames == {"abort", "timeout", "templateOk", "templateFailed"}
Msgs == [req : Reqs \cup SignalNames, res : {"ok", "refused", "unsupported", "undecodable"}, val : Nat]
DevMembers == {"synced", "state", "note", "recon", "service", "raise", "ready", "panic",
               "intact", "blank", "midway", "touched", "clean"}
UpMembers == {"seq", "cmds", "db", "got", "held"}

\* The shape of the state, as far as the argument needs it: no goroutine waits
\* with one of the three events that the device handler fires itself.
Shape ==
  /\ ul \in States /\ pend \subseteq Posts
  /\ \A e \in pend : e.ev \in {"GetSecondSwVersion", "GetMacAddress"} => e.by = "proc"
  /\ sent \in Seq(Sents) /\ back \in Seq(Msgs) /\ chan \in Seq(Msgs)
  /\ DOMAIN dev = DevMembers /\ dev.clean \in BOOLEAN
  /\ DOMAIN up = UpMembers /\ up.seq \in Nat
  /\ DOMAIN img = {"active", "inactive"}
  /\ DOMAIN mds = {"adpt", "onu"} /\ mds.onu \in Nat

ImageInv == Shape /\ FreshStart /\ ImageTokens

-----------------------------------------------------------------------------
(* Sequences of requests and answers.                                      *)

\* One more at the end.
LEMMA HasAppend ==
  ASSUME NEW S, NEW s \in Seq(S), NEW x \in S, NEW r
  PROVE  /\ Append(s, x) \in Seq(S)
         /\ Has(r, Append(s, x)) <=> Has(r, s) \/ x.req = r
         /\ One(r, s) /\ ~(Has(r, s) /\ x.req = r) => One(r, Append(s, x))
<1> DEFINE t == Append(s, x)
<1>1. t \in Seq(S) /\ Len(t) = Len(s) + 1 /\ Len(s) \in Nat
  OBVIOUS
<1>2. t[Len(s) + 1] = x /\ \A k \in 1 .. Len(s) : t[k] = s[k]
  OBVIOUS
<1> HIDE DEF t
<1>3. 1 .. Len(t) = (1 .. Len(s)) \cup {Len(s) + 1}
  BY <1>1
<1>4. Has(r, t) <=> Has(r, s) \/ x.req = r
  BY <1>2, <1>3 DEF Has
<1>5. One(r, s) /\ ~(Has(r, s) /\ x.req = r) => One(r, t)
  BY <1>2, <1>3 DEF Has, One
<1> QED BY <1>1, <1>4, <1>5 DEF t

\* One fewer at the front.
LEMMA HasTail ==
  ASSUME NEW S, NEW s \in Seq(S), s # <<>>, NEW r
  PROVE  /\ Tail(s) \in Seq(S) /\ Head(s) \in S
         /\ Has(r, s) <=> Has(r, Tail(s)) \/ Head(s).req = r
         /\ One(r, s) => One(r, Tail(s)) /\ ~(Head(s).req = r /\ Has(r, Tail(s)))
<1> DEFINE t == Tail(s)
<1>1. t \in Seq(S) /\ Len(t) = Len(s) - 1 /\ Len(s) \in Nat \ {0} /\ Len(t) \in Nat
  OBVIOUS
<1>2. Head(s) = s[1] /\ Head(s) \in S /\ \A k \in 1 .. Len(t) : t[k] = s[k + 1]
  OBVIOUS
<1> HIDE DEF t
<1>3. \A k \in 1 .. Len(t) : k + 1 \in 1 .. Len(s) /\ k + 1 # 1
  BY <1>1
<1>4. \A k \in 1 .. Len(s) : k = 1 \/ (k - 1 \in 1 .. Len(t) /\ (k - 1) + 1 = k)
  BY <1>1
<1>5. 1 \in 1 .. Len(s)
  BY <1>1
<1>6. Has(r, s) <=> Has(r, t) \/ Head(s).req = r
  <2>1. Has(r, t) => Has(r, s)
    BY <1>2, <1>3 DEF Has
  <2>2. Head(s).req = r => Has(r, s)
    BY <1>2, <1>5 DEF Has
  <2>3. Has(r, s) => Has(r, t) \/ Head(s).req = r
    BY <1>2, <1>4 DEF Has
  <2> QED BY <2>1, <2>2, <2>3
<1>7. ASSUME One(r, s) PROVE One(r, t)
  <2>1. SUFFICES ASSUME NEW j \in 1 .. Len(t), NEW k \in 1 .. Len(t), t[j].req = r, t[k].req = r
                 PROVE  j = k
    BY DEF One
  <2>2. j + 1 = k + 1
    BY <2>1, <1>2, <1>3, <1>7 DEF One
  <2> QED BY <2>2, <1>1
<1>8. ASSUME One(r, s), Head(s).req = r PROVE ~Has(r, t)
  BY <1>2, <1>3, <1>5, <1>8 DEF One, Has
<1> QED BY <1>1, <1>2, <1>6, <1>7, <1>8 DEF t

\* The empty sequence.
LEMMA HasEmpty ==
  ASSUME NEW r
  PROVE  ~Has(r, <<>>) /\ One(r, <<>>)
BY DEF Has, One

\* CancelRequestMonitoring keeps the request on the air at most.
LEMMA HasMonitored ==
  ASSUME Shape, NEW r
  PROVE  /\ CancelMonitoring \in Seq(Sents)
         /\ Has(r, CancelMonitoring) => Has(r, sent)
         /\ One(r, CancelMonitoring)
<1>1. CASE sent = <<>>
  BY <1>1, HasEmpty DEF CancelMonitoring
<1>2. CASE sent # <<>>
  <2> DEFINE x == [Head(sent) EXCEPT !.sup = FALSE]
  <2>1. Head(sent) \in Sents /\ Head(sent) = sent[1] /\ 1 \in 1 .. Len(sent)
    BY <1>2 DEF Shape
  <2>2. x \in Sents /\ x.req = Head(sent).req
    BY <2>1 DEF Sents
  <2>3. CancelMonitoring = <<x>>
    BY <1>2 DEF CancelMonitoring
  <2> HIDE DEF x
  <2>4. Len(<<x>>) = 1 /\ <<x>>[1] = x /\ <<x>> \in Seq(Sents)
    BY <2>2
  <2> QED BY <2>1, <2>2, <2>3, <2>4 DEF Has, One
<1> QED BY <1>1, <1>2

\* A request whose supervision gives up stays where it is.
LEMMA HasUnsupervised ==
  ASSUME Shape, sent # <<>>, NEW r
  PROVE  LET t == [sent EXCEPT ![1].sup = FALSE]
         IN t \in Seq(Sents) /\ (Has(r, t) <=> Has(r, sent)) /\ (One(r, t) <=> One(r, sent))
<1> DEFINE t == [sent EXCEPT ![1].sup = FALSE]
<1>1. sent \in Seq(Sents) /\ 1 \in 1 .. Len(sent) /\ sent[1] \in Sents
  BY DEF Shape
<1>2. [sent[1] EXCEPT !.sup = FALSE] \in Sents /\ [sent[1] EXCEPT !.sup = FALSE].req = sent[1].req
  BY <1>1 DEF Sents
<1>3. t \in Seq(Sents) /\ Len(t) = Len(sent)
  BY <1>1, <1>2
<1>4. \A k \in 1 .. Len(sent) : t[k].req = sent[k].req
  BY <1>1, <1>2
<1> HIDE DEF t
<1>5. t \in Seq(Sents) /\ (Has(r, t) <=> Has(r, sent)) /\ (One(r, t) <=> One(r, sent))
  BY <1>3, <1>4 DEF Has, One
<1> QED BY <1>5 DEF t
-----------------------------------------------------------------------------
(* What a step does to the tokens of a request: the request itself, its    *)
(* answer on the way, its answer in CommChan.                              *)

\* None is added.
NoMore(r) ==
  /\ Has(r, sent') => Has(r, sent)
  /\ Has(r, back') => Has(r, back)
  /\ Has(r, chan') => Has(r, chan)
  /\ One(r, sent) => One(r, sent')
  /\ One(r, back) => One(r, back')
  /\ One(r, chan) => One(r, chan')

\* They stay absent, or stay a single one.
Kept(r) == (Absent(r) => Absent(r)') /\ (Single(r) => Single(r)')

\* A step that adds none keeps them.
LEMMA NoMoreKept ==
  ASSUME NEW r, NoMore(r)
  PROVE  Kept(r)
BY DEF NoMore, Kept, Absent, Single

\* The token moves from the request to the answer, when the ONU handles it.
LEMMA AnswerKept ==
  ASSUME Shape, NEW r, NEW a \in Msgs, sent # <<>>, a.req = Head(sent).req,
         sent' = Tail(sent), back' = Append(back, a), chan' = chan
  PROVE  Kept(r) /\ sent' \in Seq(Sents) /\ back' \in Seq(Msgs)
<1>1. /\ Tail(sent) \in Seq(Sents)
      /\ Has(r, sent) <=> Has(r, Tail(sent)) \/ Head(sent).req = r
      /\ One(r, sent) => One(r, Tail(sent)) /\ ~(Head(sent).req = r /\ Has(r, Tail(sent)))
  BY HasTail DEF Shape
<1>2. /\ Append(back, a) \in Seq(Msgs)
      /\ Has(r, Append(back, a)) <=> Has(r, back) \/ a.req = r
      /\ One(r, back) /\ ~(Has(r, back) /\ a.req = r) => One(r, Append(back, a))
  BY HasAppend DEF Shape
<1> QED BY <1>1, <1>2 DEF Kept, Absent, Single

\* It moves on, when the answer is delivered.
LEMMA DeliverKept ==
  ASSUME Shape, NEW r, back # <<>>,
         chan' = Append(chan, Head(back)), back' = Tail(back), sent' = sent
  PROVE  Kept(r) /\ back' \in Seq(Msgs) /\ chan' \in Seq(Msgs)
<1>1. /\ Tail(back) \in Seq(Msgs) /\ Head(back) \in Msgs
      /\ Has(r, back) <=> Has(r, Tail(back)) \/ Head(back).req = r
      /\ One(r, back) => One(r, Tail(back)) /\ ~(Head(back).req = r /\ Has(r, Tail(back)))
  BY HasTail DEF Shape
<1>2. /\ Append(chan, Head(back)) \in Seq(Msgs)
      /\ Has(r, Append(chan, Head(back))) <=> Has(r, chan) \/ Head(back).req = r
      /\ One(r, chan) /\ ~(Has(r, chan) /\ Head(back).req = r) => One(r, Append(chan, Head(back)))
  BY <1>1, HasAppend DEF Shape
<1> QED BY <1>1, <1>2 DEF Kept, Absent, Single

\* It is used up, when a message processor takes the answer; the processor may
\* send another request meanwhile.
LEMMA TakeKept ==
  ASSUME Shape, NEW r, chan # <<>>, chan' = Tail(chan), back' = back,
         Has(r, sent') => Has(r, sent), One(r, sent) => One(r, sent')
  PROVE  /\ Kept(r) /\ chan' \in Seq(Msgs) /\ Head(chan) \in Msgs
         /\ Head(chan).req = r => ~Absent(r) /\ (Single(r) => Absent(r)')
<1>1. /\ Tail(chan) \in Seq(Msgs) /\ Head(chan) \in Msgs
      /\ Has(r, chan) <=> Has(r, Tail(chan)) \/ Head(chan).req = r
      /\ One(r, chan) => One(r, Tail(chan)) /\ ~(Head(chan).req = r /\ Has(r, Tail(chan)))
  BY HasTail DEF Shape
<1> QED BY <1>1 DEF Kept, Absent, Single

-----------------------------------------------------------------------------
(* The enter callbacks.                                                    *)

Results == {"cb", "post", "new", "send", "sent", "last", "up", "dev", "cfg", "timer"}

\* What all callbacks have in common; only that of Starting decides on clean.
Modest(e) ==
  /\ DOMAIN e.dev = DevMembers /\ e.dev.clean = dev.clean
  /\ DOMAIN e.up = UpMembers /\ e.up.seq \in Nat
  /\ e.post \subseteq {Go("Stop"), Go("Success")}
  /\ e.sent \in {sent, CancelMonitoring}

\* The request a callback sends.
Sends(e, q) == e.send \in {<<>>, <<Request(q, 0)>>}

\* A callback that changes nothing.
LEMMA KeepModest ==
  ASSUME Shape
  PROVE  DOMAIN Keep = Results /\ Modest(Keep) /\ Keep.send = <<>> /\ Keep.cb = NoCb
BY DEF Shape, Modest, Keep, Results

\* The callbacks by their states.
LEMMA EnterModest ==
  ASSUME Shape, NEW d \in States \ {"Starting"}, NEW by, NEW err \in BOOLEAN
  PROVE  /\ Modest(Enter(d, by, err))
         /\ \E q \in Reqs : /\ Sends(Enter(d, by, err), q)
                            /\ q = "sw0" => d = "GettingFirstSwVersion"
                            /\ q = "sw1" => d = "GettingSecondSwVersion"
         /\ d = "Disabled" => Enter(d, by, err).cb = NoCb
<1> DEFINE e == Enter(d, by, err)
<1>k. DOMAIN Keep = Results /\ Modest(Keep) /\ Keep.send = <<>> /\ Keep.cb = NoCb
  BY KeepModest
<1>m. ASSUME NEW w \in States
      PROVE  /\ Modest(RequestMdsValue(w, err)) /\ Sends(RequestMdsValue(w, err), "mds")
             /\ DOMAIN RequestMdsValue(w, err) = Results
  BY <1>k DEF RequestMdsValue, Modest, Sends, Results
<1>q. {"mds", "reset", "upload"} \subseteq Reqs /\ \A w \in GetStates : GetOf[w] \in Reqs
  BY DEF Reqs, MEs, GetOf, GetStates
<1>1. CASE d = "Disabled"
  <2>1. e = EnterDisabled
    BY <1>1 DEF Enter, GetStates
  <2> QED BY <2>1, <1>1, <1>k, <1>q DEF EnterDisabled, Modest, Sends, Results, DevMembers
<1>2. CASE d = "ResettingMib"
  <2>1. e = EnterResettingMib(err)
    BY <1>2 DEF Enter, GetStates
  <2> DEFINE again == (dev.synced /\ dev.recon = "no") \/ dev.recon = "skip"
             v == IF again THEN [dev EXCEPT !.recon = StartReconciling(FALSE), !.state = "init",
                                            !.service = FALSE]
                           ELSE dev
             c == IF again THEN [cfg EXCEPT !.run = FALSE, !.air = FALSE] ELSE cfg
             s == IF again THEN CancelMonitoring ELSE sent
             m == dev.recon = "omci" /\ dev.state = "sync"
             x == IF err THEN <<>> ELSE <<Request("reset", 0)>>
  <2>2. e = [Keep EXCEPT !.dev = v, !.dev.blank = TRUE, !.dev.midway = m, !.cfg = c, !.sent = s,
                         !.send = x, !.last.type = "reset", !.last.rep = 0]
    BY <2>1 DEF EnterResettingMib
  <2>3. DOMAIN v = DevMembers /\ v.clean = dev.clean
    BY DEF Shape, DevMembers
  <2>4. s \in {sent, CancelMonitoring} /\ x \in {<<>>, <<Request("reset", 0)>>}
    OBVIOUS
  <2> HIDE DEF v, c, s, m, x, again, e
  <2>5. /\ e.dev = [v EXCEPT !.blank = TRUE, !.midway = m] /\ e.up = Keep.up /\ e.post = Keep.post
        /\ e.sent = s /\ e.send = x
    BY <2>2, <1>k DEF Results
  <2>6. DOMAIN e.dev = DevMembers /\ e.dev.clean = dev.clean
    BY <2>3, <2>5 DEF DevMembers
  <2>7. Modest(e) /\ Sends(e, "reset")
    BY <2>4, <2>5, <2>6, <1>k DEF Modest, Sends
  <2> QED BY <2>7, <1>2, <1>q DEF e
<1>3. CASE d \in GetStates
  <2>1. e = EnterGetting(d, err)
    BY <1>3 DEF Enter, GetStates
  <2>2. Modest(e) /\ Sends(e, GetOf[d])
    BY <2>1, <1>k DEF EnterGetting, Modest, Sends, Results
  <2>3. /\ GetOf[d] = "sw0" => d = "GettingFirstSwVersion"
        /\ GetOf[d] = "sw1" => d = "GettingSecondSwVersion"
    BY <1>3 DEF GetOf, GetStates
  <2> QED BY <2>2, <2>3, <1>3, <1>q DEF GetStates
<1>4. CASE d \in {"TestingExtOmciSupport", "GettingMibTemplate", "VerifyingAndStoringTPs", "ExaminingMdsSuccess"}
  <2>1. PICK at : e = Waiting(at, by)
    BY <1>4 DEF Enter, GetStates
  <2> QED BY <2>1, <1>4, <1>k, <1>q DEF Waiting, Modest, Sends, Results
<1>5. CASE d = "Uploading"
  <2>1. e = EnterUploading(err)
    BY <1>5 DEF Enter, GetStates
  <2>2. /\ e.dev = Keep.dev /\ e.sent = Keep.sent /\ e.post = Keep.post
        /\ e.up = [Keep.up EXCEPT !.seq = 0, !.cmds = 0]
        /\ e.send \in {<<>>, <<Request("upload", 0)>>}
    BY <2>1, <1>k DEF EnterUploading, Results
  <2>3. DOMAIN e.up = UpMembers /\ e.up.seq = 0
    BY <2>2, <1>k DEF Modest, UpMembers
  <2>4. Modest(e) /\ Sends(e, "upload")
    BY <2>2, <2>3, <1>k DEF Modest, Sends
  <2> QED BY <2>4, <1>5, <1>q
<1>6. CASE d = "UploadDone"
  <2>1. e = EnterUploadDone
    BY <1>6 DEF Enter, GetStates
  <2> DEFINE v == IF dev.state = "init" THEN [dev EXCEPT !.state = "sync", !.note = TRUE] ELSE dev
  <2>3. DOMAIN v = DevMembers /\ v.clean = dev.clean
    BY DEF Shape, DevMembers
  <2>4. e = [Keep EXCEPT !.post = {Go("Success")}, !.dev = v]
    BY <2>1 DEF EnterUploadDone
  <2> HIDE DEF v
  <2>2. e.send = <<>> /\ Modest(e)
    BY <2>3, <2>4, <1>k DEF Modest, Results
  <2> QED BY <2>2, <1>6, <1>q DEF Sends
<1>7. CASE d = "InSync"
  <2>1. e = EnterInSync
    BY <1>7 DEF Enter, GetStates
  <2>2. e.send = <<>> /\ Modest(e)
    BY <2>1, <1>k DEF EnterInSync, Modest, Results, DevMembers
  <2> QED BY <2>2, <1>7, <1>q DEF Sends
<1>8. CASE d = "ExaminingMds"
  <2>1. e = EnterExaminingMds(err)
    BY <1>8 DEF Enter, GetStates
  <2> QED BY <2>1, <1>8, <1>k, <1>m, <1>q DEF EnterExaminingMds, Modest, Sends, Results, States, Stoppable
<1>9. CASE d \in {"Auditing", "ReAuditing"}
  <2>1. e = EnterAuditing(d, err)
    BY <1>9 DEF Enter, GetStates
  <2> QED BY <2>1, <1>9, <1>k, <1>m, <1>q DEF EnterAuditing, Modest, Sends, Results, DevMembers
<1> QED BY <1>1, <1>2, <1>3, <1>4, <1>5, <1>6, <1>7, <1>8, <1>9 DEF States, Stoppable
-----------------------------------------------------------------------------
(* An event is taken or rejected.                                          *)

Adds(r) == (~Has(r, sent) => One(r, sent'))
AddsNone(r) == (Has(r, sent') => Has(r, sent)) /\ (One(r, sent) => One(r, sent'))

\* The names of the events, and where each leads.
LEMMA EventNames ==
  /\ Events = {"Start", "ResetMib", "GetVendorAndSerial", "GetVersion", "GetEquipIDAndOmcc",
               "TestExtOmciSupport", "GetFirstSwVersion", "GetSecondSwVersion", "GetMacAddress",
               "GetMibTemplate", "UploadMib", "VerifyAndStoreTPs", "Success", "Mismatch",
               "AuditMib", "Timeout", "Stop"}
  /\ \A ev \in Events : \A s \in DOMAIN Table[ev] : s \in States /\ Table[ev][s] \in States
BY DEF Events, Table, States, Stoppable, GetStates

\* The steps of the FSM that the images depend on.
LEMMA Moves ==
  ASSUME NEW ev \in Events, NEW s \in DOMAIN Table[ev]
  PROVE  /\ Table[ev][s] = "GettingFirstSwVersion" => s # "GettingFirstSwVersion"
         /\ s = "GettingFirstSwVersion" =>
              \/ Table[ev][s] \in {"Disabled", "Starting"}
              \/ ev = "GetSecondSwVersion" /\ Table[ev][s] = "GettingSecondSwVersion"
         /\ Table[ev][s] = "GettingSecondSwVersion" => s = "GettingFirstSwVersion" /\ ev = "GetSecondSwVersion"
         /\ s = "GettingSecondSwVersion" =>
              \/ Table[ev][s] \in {"Disabled", "Starting"}
              \/ ev = "GetMacAddress" /\ Table[ev][s] = "GettingMacAddress"
         /\ Table[ev][s] = "GettingMacAddress" => s = "GettingSecondSwVersion" /\ ev = "GetMacAddress"
         /\ Table[ev][s] = "GettingMibTemplate" => s = "GettingMacAddress"
         /\ s = "Disabled" => ev = "Start" /\ Table[ev][s] = "Starting"
         /\ s = "Starting" => Table[ev][s] = "Disabled" \/ ev \in {"ResetMib", "VerifyAndStoreTPs"}
         /\ s = "Starting" => Table[ev][s] # "Starting"
         /\ ev = "Start" => s = "Disabled" /\ Table[ev][s] = "Starting"
BY DEF Events, Table, States, Stoppable, GetStates

\* An event that is taken: what the callback leaves of the requests and of
\* the record of the device.
LEMMA TransitionEffect ==
  ASSUME Shape, NEW ev \in Events, NEW by, NEW base, NEW err \in BOOLEAN,
         Transition(ev, by, base, err), ul \in DOMAIN Table[ev]
  PROVE  /\ ul' = Table[ev][ul] /\ ul' \in States
         /\ DOMAIN dev' = DevMembers /\ dev'.clean \in BOOLEAN
         /\ DOMAIN up' = UpMembers /\ up'.seq \in Nat
         /\ sent' \in Seq(Sents)
         /\ pend' \subseteq base \cup {Go("Stop"), Go("Success")}
         /\ ul' \in {"Disabled", "Starting"} => cb' = NoCb
         /\ ul' # "Starting" =>
              /\ dev'.clean = dev.clean
              /\ IF ul' = "GettingFirstSwVersion" THEN Adds("sw0") ELSE AddsNone("sw0")
              /\ IF ul' = "GettingSecondSwVersion" THEN Adds("sw1") ELSE AddsNone("sw1")
         /\ ul' = "Starting" =>
              /\ dev'.clean <=> NothingLeft
              /\ sent' = sent /\ pend' = base
<1> DEFINE d == Table[ev][ul]
           e == Enter(d, by, err)
<1>1. /\ ul' = d /\ cb' = e.cb /\ pend' = base \cup e.post
      /\ sent' = e.sent \o e.send /\ up' = e.up /\ dev' = e.dev
  BY DEF Transition
<1>2. d \in States
  BY EventNames
<1>k. DOMAIN Keep = Results /\ Modest(Keep) /\ Keep.send = <<>> /\ Keep.cb = NoCb
  BY KeepModest
<1> HIDE DEF d
<1>3. CASE d = "Starting"
  <2>1. e = EnterStarting
    BY <1>3 DEF Enter, GetStates
  <2> DEFINE c == NothingLeft
  <2>2. e = [Keep EXCEPT !.dev.raise = TRUE, !.new = 1, !.up.db = "none", !.up.got = {},
                         !.dev.panic = FALSE, !.dev.clean = c]
    BY <2>1 DEF EnterStarting
  <2>3. c \in BOOLEAN
    BY DEF NothingLeft
  <2> HIDE DEF c
  <2>4. /\ e.cb = NoCb /\ e.sent = sent /\ e.send = <<>> /\ e.post = {}
        /\ e.up = [up EXCEPT !.db = "none", !.got = {}]
        /\ e.dev = [dev EXCEPT !.raise = TRUE, !.panic = FALSE, !.clean = c]
    BY <2>2, <1>k DEF Keep
  <2> HIDE DEF e
  <2>5. DOMAIN e.dev = DevMembers /\ e.dev.clean = c
    BY <2>4 DEF Shape, DevMembers
  <2>6. DOMAIN e.up = UpMembers /\ e.up.seq \in Nat
    BY <2>4 DEF Shape, UpMembers
  <2>7. sent' = sent
    <3>1. sent' = sent \o <<>>
      BY <1>1, <2>4
    <3> QED BY <3>1 DEF Shape
  <2>8. pend' = base /\ cb' = NoCb /\ dev' = e.dev /\ up' = e.up /\ ul' = "Starting"
    BY <1>1, <1>3, <2>4
  <2> QED BY <1>2, <1>3, <2>3, <2>5, <2>6, <2>7, <2>8 DEF Shape, c, d
<1>4. CASE d # "Starting"
  <2>1. PICK q \in Reqs : /\ Sends(e, q)
                          /\ q = "sw0" => d = "GettingFirstSwVersion"
                          /\ q = "sw1" => d = "GettingSecondSwVersion"
    BY <1>2, <1>4, EnterModest
  <2>2. Modest(e) /\ (d = "Disabled" => e.cb = NoCb)
    BY <1>2, <1>4, EnterModest
  <2> HIDE DEF e
  <2> DEFINE s == e.sent
             x == Request(q, 0)
  <2>3. s \in Seq(Sents) /\ \A r : (Has(r, s) => Has(r, sent)) /\ (One(r, sent) => One(r, s))
    BY <2>2, HasMonitored DEF Modest, Shape
  <2>4. x \in Sents /\ x.req = q
    BY DEF Request, Sents
  <2>5. sent' = s \/ sent' = Append(s, x)
    <3>1. e.send = <<>> \/ e.send = <<x>>
      BY <2>1 DEF Sends
    <3> HIDE DEF s, x
    <3>2. s \o <<>> = s /\ s \o <<x>> = Append(s, x)
      BY <2>3, <2>4
    <3> QED BY <3>1, <3>2, <1>1 DEF s
  <2> HIDE DEF s, x
  <2>6. sent' \in Seq(Sents)
    BY <2>3, <2>4, <2>5
  <2>7. ASSUME NEW r, r # q PROVE AddsNone(r)
    <3>1. CASE sent' = s
      BY <3>1, <2>3 DEF AddsNone
    <3>2. CASE sent' = Append(s, x)
      <4>1. Has(r, sent') <=> Has(r, s) \/ x.req = r
        BY <3>2, <2>3, <2>4, HasAppend
      <4>2. One(r, s) /\ ~(Has(r, s) /\ x.req = r) => One(r, sent')
        BY <3>2, <2>3, <2>4, HasAppend
      <4> QED BY <4>1, <4>2, <2>3, <2>4, <2>7 DEF AddsNone
    <3> QED BY <2>5, <3>1, <3>2
  <2>8. Adds(q)
    <3>1. ~Has(q, sent) => ~Has(q, s) /\ One(q, s)
      BY <2>3 DEF Has, One
    <3>2. CASE sent' = s
      BY <3>1, <3>2 DEF Adds
    <3>3. CASE sent' = Append(s, x)
      <4>1. One(q, s) /\ ~(Has(q, s) /\ x.req = q) => One(q, sent')
        BY <3>3, <2>3, <2>4, HasAppend
      <4> QED BY <4>1, <3>1 DEF Adds
    <3> QED BY <2>5, <3>2, <3>3
  <2>9. \A r : AddsNone(r) => Adds(r)
    BY DEF Adds, AddsNone, Has, One
  <2>10. /\ IF d = "GettingFirstSwVersion" THEN Adds("sw0") ELSE AddsNone("sw0")
         /\ IF d = "GettingSecondSwVersion" THEN Adds("sw1") ELSE AddsNone("sw1")
    <3>1. q # "sw0" => AddsNone("sw0")
      BY <2>7
    <3>2. q # "sw1" => AddsNone("sw1")
      BY <2>7
    <3> QED BY <3>1, <3>2, <2>1, <2>8, <2>9
  <2>11. /\ DOMAIN dev' = DevMembers /\ dev'.clean = dev.clean /\ dev'.clean \in BOOLEAN
         /\ DOMAIN up' = UpMembers /\ up'.seq \in Nat
         /\ pend' \subseteq base \cup {Go("Stop"), Go("Success")}
    BY <1>1, <2>2 DEF Modest, Shape
  <2> QED BY <1>1, <1>2, <1>4, <2>2, <2>6, <2>10, <2>11 DEF d
<1> QED BY <1>3, <1>4
\* The two events that the callbacks start are not those of an image.
LEMMA OtherEvents ==
  /\ Go("Stop") \in Posts /\ Go("Success") \in Posts
  /\ \A x \in {Go("Stop"), Go("Success")} : x.ev \notin {"GetSecondSwVersion", "GetMacAddress"}
BY EventNames DEF Go, Posts, PostedEvents

\* The shape after an event.
LEMMA TransitionShape ==
  ASSUME Shape, NEW ev \in Events, NEW by, NEW base, base \subseteq pend, NEW err \in BOOLEAN,
         Transition(ev, by, base, err), UNCHANGED <<chan, back, img, mds>>
  PROVE  Shape' /\ \A v : v \in {"GetSecondSwVersion", "GetMacAddress"} /\ Waits(v)' => \E x \in base : x.ev = v
<1>1. CASE ul \in DOMAIN Table[ev]
  <2>1. /\ ul' \in States /\ DOMAIN dev' = DevMembers /\ dev'.clean \in BOOLEAN
        /\ DOMAIN up' = UpMembers /\ up'.seq \in Nat /\ sent' \in Seq(Sents)
        /\ pend' \subseteq base \cup {Go("Stop"), Go("Success")}
    BY <1>1, TransitionEffect
  <2>2. /\ pend' \subseteq Posts
        /\ \A x \in pend' : x.ev \in {"GetSecondSwVersion", "GetMacAddress"} => x \in base
    BY <2>1, OtherEvents DEF Shape
  <2> QED BY <2>1, <2>2 DEF Shape, Waits
<1>2. CASE ul \notin DOMAIN Table[ev]
  <2>1. UNCHANGED <<ul, sent, up, dev>> /\ pend' = base
    BY <1>2 DEF Transition
  <2> QED BY <2>1 DEF Shape, Waits
<1> QED BY <1>1, <1>2

\* In a live run an event keeps what is said about the images: the event of an
\* image leads to the next request, and no other event leads there.
LEMMA TransitionTokens ==
  ASSUME Shape, ImageTokens, Live, NEW ev \in Events, NEW by, NEW base, base \subseteq pend,
         NEW err \in BOOLEAN, Transition(ev, by, base, err), UNCHANGED <<chan, back, img>>,
         ev \in {"GetSecondSwVersion", "GetMacAddress"} => Waits(ev) /\ ~\E x \in base : x.ev = ev,
         \A v : v \in {"GetSecondSwVersion", "GetMacAddress"} /\ Waits(v)' => \E x \in base : x.ev = v
  PROVE  ImageTokens'
<1>w. \A v : v \in {"GetSecondSwVersion", "GetMacAddress"} /\ Waits(v)' => Waits(v) /\ v # ev
  BY DEF Waits
<1>i. (FirstImage' <=> FirstImage) /\ (BothImages' <=> BothImages)
  BY DEF FirstImage, BothImages
<1>1. CASE ul \in DOMAIN Table[ev]
  <2>1. SUFFICES ASSUME ul' \notin {"Disabled", "Starting"} PROVE ImageTokens'
    BY DEF ImageTokens, Live
  <2>2. /\ ul' = Table[ev][ul]
        /\ IF ul' = "GettingFirstSwVersion" THEN Adds("sw0") ELSE AddsNone("sw0")
        /\ IF ul' = "GettingSecondSwVersion" THEN Adds("sw1") ELSE AddsNone("sw1")
    BY <1>1, <2>1, TransitionEffect
  <2>m. /\ ul' = "GettingFirstSwVersion" => ul # "GettingFirstSwVersion"
        /\ ul = "GettingFirstSwVersion" => ev = "GetSecondSwVersion" /\ ul' = "GettingSecondSwVersion"
        /\ ul' = "GettingSecondSwVersion" => ul = "GettingFirstSwVersion" /\ ev = "GetSecondSwVersion"
        /\ ul = "GettingSecondSwVersion" => ev = "GetMacAddress" /\ ul' = "GettingMacAddress"
        /\ ul' = "GettingMacAddress" => ul = "GettingSecondSwVersion" /\ ev = "GetMacAddress"
        /\ ul' = "GettingMibTemplate" => ul = "GettingMacAddress"
    BY <1>1, <2>1, <2>2, Moves
  <2>3. \A r : AddsNone(r) => (Absent(r) => Absent(r)')
    BY DEF AddsNone, Absent
  <2>4. \A r : Adds(r) /\ Absent(r) => Single(r)'
    BY HasEmpty DEF Adds, Absent, Single, Has, One
  <2>5. Absent("sw0") /\ Absent("sw1")
    BY <2>m DEF ImageTokens
  <2>6. \/ Absent("sw0")'
        \/ Single("sw0")' /\ ul' = "GettingFirstSwVersion" /\ ~Waits("GetSecondSwVersion")'
    <3>1. CASE ul' = "GettingFirstSwVersion"
      <4>1. Single("sw0")'
        BY <3>1, <2>2, <2>4, <2>5
      <4>2. ~Waits("GetSecondSwVersion")
        BY <3>1, <2>m DEF ImageTokens
      <4> QED BY <3>1, <4>1, <4>2, <1>w
    <3>2. CASE ul' # "GettingFirstSwVersion"
      BY <3>2, <2>2, <2>3, <2>5
    <3> QED BY <3>1, <3>2
  <2>7. \/ Absent("sw1")'
        \/ Single("sw1")' /\ ul' = "GettingSecondSwVersion" /\ ~Waits("GetMacAddress")' /\ FirstImage'
    <3>1. CASE ul' = "GettingSecondSwVersion"
      <4>1. Single("sw1")'
        BY <3>1, <2>2, <2>4, <2>5
      <4>2. ~Waits("GetMacAddress") /\ FirstImage
        BY <3>1, <2>m DEF ImageTokens
      <4> QED BY <3>1, <4>1, <4>2, <1>w, <1>i
    <3>2. CASE ul' # "GettingSecondSwVersion"
      BY <3>2, <2>2, <2>3, <2>5
    <3> QED BY <3>1, <3>2
  <2>8. ~Waits("GetSecondSwVersion")' /\ ~Waits("GetMacAddress")'
    BY <1>w, <2>m DEF ImageTokens
  <2>9. ul' \in {"GettingMacAddress", "GettingMibTemplate"} => BothImages'
    BY <1>i, <2>m DEF ImageTokens
  <2> QED BY <2>6, <2>7, <2>8, <2>9 DEF ImageTokens
<1>2. CASE ul \notin DOMAIN Table[ev]
  <2>1. UNCHANGED <<ul, sent, dev>>
    BY <1>2 DEF Transition
  <2>2. \A r : (Absent(r)' <=> Absent(r)) /\ (Single(r)' <=> Single(r))
    BY <2>1 DEF Absent, Single
  <2> QED BY <2>1, <2>2, <1>w, <1>i DEF ImageTokens, Live
<1> QED BY <1>1, <1>2
-----------------------------------------------------------------------------
(* The steps that fire an event.                                           *)

\* A goroutine fires its event.
LEMMA FireStep ==
  ASSUME ImageInv, Fire
  PROVE  ImageInv'
<1> USE DEF ImageInv
<1>1. PICK e \in pend, err \in BOOLEAN : Transition(e.ev, e.by, pend \ {e}, err)
  BY DEF Fire
<1>2. UNCHANGED <<chan, back, img, mds, dh>>
  BY DEF Fire
<1>3. e \in Posts /\ e.ev \in PostedEvents /\ e.ev \in Events
  BY DEF Shape, Posts, PostedEvents
<1>4. /\ Shape'
      /\ \A v : v \in {"GetSecondSwVersion", "GetMacAddress"} /\ Waits(v)' => \E x \in pend \ {e} : x.ev = v
  BY <1>1, <1>2, <1>3, TransitionShape
<1>5. e.ev \in {"GetSecondSwVersion", "GetMacAddress"} => Waits(e.ev) /\ ~\E x \in pend \ {e} : x.ev = e.ev
  BY DEF Waits, Shape, Posts
<1>6. ASSUME ul \in {"Disabled", "Starting"} PROVE (ul' = ul \/ ul' = "Disabled") /\ (ul' = ul => dev'.clean = dev.clean)
  <2>1. CASE ul \in DOMAIN Table[e.ev]
    <3>1. ul' = Table[e.ev][ul]
      BY <1>1, <1>3, <2>1, TransitionEffect
    <3> QED BY <3>1, <1>3, <1>6, <2>1, Moves DEF PostedEvents
  <2>2. CASE ul \notin DOMAIN Table[e.ev]
    BY <1>1, <2>2 DEF Transition
  <2> QED BY <2>1, <2>2
<1>7. ImageTokens'
  <2>1. CASE Live
    BY <1>1, <1>2, <1>3, <1>4, <1>5, <2>1, TransitionTokens
  <2>2. CASE ~dev.clean /\ ul' \notin {"Disabled", "Starting"}
    <3>1. ~dev'.clean
      <4>1. CASE ul \in DOMAIN Table[e.ev]
        BY <1>1, <1>3, <2>2, <4>1, TransitionEffect
      <4>2. CASE ul \notin DOMAIN Table[e.ev]
        BY <1>1, <2>2, <4>2 DEF Transition
      <4> QED BY <4>1, <4>2
    <3> QED BY <3>1 DEF ImageTokens, Live
  <2>3. CASE ul \in {"Disabled", "Starting"} \/ ul' \in {"Disabled", "Starting"}
    BY <1>6, <2>3 DEF ImageTokens, Live
  <2> QED BY <2>1, <2>2, <2>3 DEF Live
<1>8. FreshStart'
  <2>1. SUFFICES ASSUME dh = "started" PROVE FreshStart'
    BY <1>2 DEF FreshStart
  <2>2. ul \in {"Starting", "Disabled"} /\ cb = NoCb /\ (ul' = ul \/ ul' = "Disabled")
    BY <1>6, <2>1 DEF FreshStart
  <2>3. CASE ul \in DOMAIN Table[e.ev]
    <3>1. ul' = Table[e.ev][ul] /\ (ul' \in {"Disabled", "Starting"} => cb' = NoCb)
      BY <1>1, <1>3, <2>3, TransitionEffect
    <3>2. ul' = "Disabled"
      BY <1>3, <2>2, <2>3, <3>1, Moves DEF PostedEvents
    <3> QED BY <3>1, <3>2 DEF FreshStart
  <2>4. CASE ul \notin DOMAIN Table[e.ev]
    <3>1. UNCHANGED <<ul, cb, sent, dev>> /\ pend' = pend \ {e}
      BY <1>1, <2>4 DEF Transition
    <3> QED BY <1>2, <2>2, <3>1 DEF FreshStart, Waits
  <2> QED BY <2>3, <2>4
<1> QED BY <1>4, <1>7, <1>8

\* CancelProcessing fires the stop event itself.
LEMMA CancelStep ==
  ASSUME ImageInv, CancelStopsFsm
  PROVE  ImageInv'
<1> USE DEF ImageInv
<1>1. Transition("Stop", "dh", pend, FALSE) /\ UNCHANGED <<chan, back, img, mds>> /\ dh' = "clear"
  BY DEF CancelStopsFsm
<1>2. "Stop" \in Events
  BY EventNames
<1>3. /\ Shape'
      /\ \A v : v \in {"GetSecondSwVersion", "GetMacAddress"} /\ Waits(v)' => \E x \in pend : x.ev = v
  BY <1>1, <1>2, TransitionShape
<1>4. CASE ul \in DOMAIN Table["Stop"]
  <2>1. ul' = "Disabled"
    <3>1. ul' = Table["Stop"][ul]
      BY <1>1, <1>2, <1>4, TransitionEffect
    <3> QED BY <3>1, <1>4 DEF Table
  <2> QED BY <1>1, <1>3, <2>1 DEF FreshStart, ImageTokens, Live
<1>5. CASE ul \notin DOMAIN Table["Stop"]
  <2>1. UNCHANGED <<ul, cb, sent, dev, chan, back, img>> /\ pend' = pend
    BY <1>1, <1>5 DEF Transition
  <2>2. \A r : (Absent(r)' <=> Absent(r)) /\ (Single(r)' <=> Single(r))
    BY <2>1 DEF Absent, Single
  <2>3. ImageTokens'
    BY <2>1, <2>2 DEF ImageTokens, Live, Waits, FirstImage, BothImages
  <2> QED BY <1>1, <1>3, <2>3 DEF FreshStart
<1> QED BY <1>4, <1>5

\* The ONU comes up: the FSM starts with what is left in the channels.
LEMMA OnuUpStep ==
  ASSUME ImageInv, OnuUp
  PROVE  ImageInv'
<1> USE DEF ImageInv
<1>1. UNCHANGED <<chan, back, img, mds>> /\ dh = "off" /\ pend = {} /\ cb = NoCb
  BY DEF OnuUp, Settled
<1>2. CASE ul = "Disabled"
  <2>1. Transition("Start", "dh", pend, FALSE) /\ dh' = "started"
    BY <1>2 DEF OnuUp
  <2>2. "Start" \in Events /\ ul \in DOMAIN Table["Start"] /\ Table["Start"][ul] = "Starting"
    BY <1>2, EventNames DEF Table
  <2>3. Shape'
    BY <1>1, <2>1, <2>2, TransitionShape
  <2>4. /\ ul' = "Starting" /\ cb' = NoCb /\ sent' = sent /\ pend' = pend
        /\ dev'.clean => chan \o back = <<>> /\ sent = <<>>
    BY <2>1, <2>2, TransitionEffect DEF NothingLeft
  <2>5. chan \o back = <<>> => chan = <<>> /\ back = <<>>
    <3>1. chan \in Seq(Msgs) /\ back \in Seq(Msgs)
      BY DEF Shape
    <3>2. chan \o back = <<>> => Len(chan) + Len(back) = 0
      BY <3>1
    <3>3. Len(chan) \in Nat /\ Len(back) \in Nat
      BY <3>1
    <3>4. chan \o back = <<>> => Len(chan) = 0 /\ Len(back) = 0
      BY <3>2, <3>3
    <3> QED BY <3>1, <3>4
  <2>6. FreshStart'
    BY <1>1, <2>1, <2>4, <2>5 DEF FreshStart, Waits
  <2> QED BY <2>3, <2>4, <2>6 DEF ImageTokens, Live
<1>3. CASE ul # "Disabled"
  <2>1. dh' = "refused" /\ UNCHANGED <<ul, cb, pend, sent, up, dev>>
    BY <1>3 DEF OnuUp
  <2>2. \A r : (Absent(r)' <=> Absent(r)) /\ (Single(r)' <=> Single(r))
    BY <1>1, <2>1 DEF Absent, Single
  <2>3. ImageTokens'
    BY <1>1, <2>1, <2>2 DEF ImageTokens, Live, Waits, FirstImage, BothImages
  <2> QED BY <1>1, <2>1, <2>3 DEF FreshStart, Shape
<1> QED BY <1>2, <1>3

\* The first event after that: a clean run has no request and no answer yet.
LEMMA FirstEventStep ==
  ASSUME ImageInv, FirstEvent
  PROVE  ImageInv'
<1> USE DEF ImageInv
<1> DEFINE ev == IF dev.synced THEN "VerifyAndStoreTPs" ELSE "ResetMib"
<1>1. PICK err \in BOOLEAN : Transition(ev, "dh", pend, err)
  BY DEF FirstEvent
<1>2. dh = "started" /\ dh' \in {"up", "verify"} /\ UNCHANGED <<chan, back, img, mds>>
  BY DEF FirstEvent
<1>3. ev \in Events /\ ev \in {"VerifyAndStoreTPs", "ResetMib"}
  BY EventNames
<1>4. Table["VerifyAndStoreTPs"]["Starting"] = "VerifyingAndStoringTPs"
      /\ Table["ResetMib"]["Starting"] = "ResettingMib"
      /\ DOMAIN Table["VerifyAndStoreTPs"] = {"Starting"} /\ DOMAIN Table["ResetMib"] = {"Starting"}
  BY DEF Table
<1> HIDE DEF ev
<1>5. /\ Shape'
      /\ \A v : v \in {"GetSecondSwVersion", "GetMacAddress"} /\ Waits(v)' => \E x \in pend : x.ev = v
  BY <1>1, <1>2, <1>3, TransitionShape
<1>6. FreshStart'
  BY <1>2 DEF FreshStart
<1>7. CASE ul = "Starting"
  <2>1. ul \in DOMAIN Table[ev] /\ Table[ev][ul] \in {"VerifyingAndStoringTPs", "ResettingMib"}
    BY <1>3, <1>4, <1>7
  <2>2. /\ ul' \in {"VerifyingAndStoringTPs", "ResettingMib"}
        /\ dev'.clean = dev.clean /\ AddsNone("sw0") /\ AddsNone("sw1")
    BY <1>1, <1>3, <2>1, TransitionEffect
  <2>3. CASE dev.clean
    <3>1. /\ sent = <<>> /\ back = <<>> /\ chan = <<>>
          /\ ~Waits("GetSecondSwVersion") /\ ~Waits("GetMacAddress")
      BY <1>2, <1>7, <2>3 DEF FreshStart
    <3>2. Absent("sw0")' /\ Absent("sw1")'
      BY <1>2, <2>2, <3>1, HasEmpty DEF AddsNone, Absent
    <3>3. ~Waits("GetSecondSwVersion")' /\ ~Waits("GetMacAddress")'
      BY <1>5, <3>1 DEF Waits
    <3> QED BY <1>5, <1>6, <2>2, <3>2, <3>3 DEF ImageTokens
  <2>4. CASE ~dev.clean
    BY <1>5, <1>6, <2>2, <2>4 DEF ImageTokens, Live
  <2> QED BY <2>3, <2>4
<1>8. CASE ul = "Disabled"
  <2>1. ul \notin DOMAIN Table[ev]
    BY <1>3, <1>4, <1>8
  <2>2. ul' = ul
    BY <1>1, <2>1 DEF Transition
  <2> QED BY <1>5, <1>6, <1>8, <2>2 DEF ImageTokens, Live
<1> QED BY <1>2, <1>7, <1>8 DEF FreshStart
-----------------------------------------------------------------------------
(* The steps that leave the FSM in its state.                              *)

\* The events that wait for the FSM and are not those of an image.
OtherPosts == [ev : PostedEvents \ {"GetSecondSwVersion", "GetMacAddress"}, by : {"proc", "go"}]

\* What such a step keeps of the state's shape; it may post another event.
Steady ==
  /\ ul' = ul
  /\ DOMAIN dev' = DevMembers /\ dev'.clean = dev.clean
  /\ DOMAIN up' = UpMembers /\ up'.seq \in Nat
  /\ DOMAIN mds' = {"adpt", "onu"} /\ mds'.onu \in Nat
  /\ pend' \subseteq pend \cup OtherPosts
  /\ dh' = "started" => dh = "started" /\ cb' = cb

\* Such a step keeps the invariant if it keeps the tokens of both requests, and
\* if the channels of a fresh start stay empty.
LEMMA SteadyStep ==
  ASSUME ImageInv, Steady, img' = img, Kept("sw0"), Kept("sw1"),
         sent' \in Seq(Sents), back' \in Seq(Msgs), chan' \in Seq(Msgs),
         sent = <<>> /\ back = <<>> /\ chan = <<>> =>
           dh' # "started" \/ (sent' = <<>> /\ back' = <<>> /\ chan' = <<>>)
  PROVE  ImageInv'
<1>1. OtherPosts \subseteq Posts /\ \A x \in OtherPosts : x.ev \notin {"GetSecondSwVersion", "GetMacAddress"}
  BY DEF OtherPosts, Posts
<1>2. \A v \in {"GetSecondSwVersion", "GetMacAddress"} : Waits(v)' <=> \E x \in pend' \cap pend : x.ev = v
  BY <1>1 DEF Waits, Steady
<1>3. \A v \in {"GetSecondSwVersion", "GetMacAddress"} : Waits(v)' => Waits(v)
  BY <1>2 DEF Waits
<1>4. Shape'
  BY <1>1 DEF ImageInv, Shape, Steady
<1>5. FreshStart'
  BY <1>3 DEF ImageInv, FreshStart, Steady
<1>6. (FirstImage' <=> FirstImage) /\ (BothImages' <=> BothImages) /\ (Live' <=> Live)
  BY DEF FirstImage, BothImages, Live, Steady
<1>7. ImageTokens'
  BY <1>3, <1>6 DEF ImageInv, ImageTokens, Kept, Steady
<1> QED BY <1>4, <1>5, <1>7 DEF ImageInv

\* In particular if it leaves the channels alone.
LEMMA QuietStep ==
  ASSUME ImageInv, Steady, UNCHANGED <<sent, back, chan, img>>
  PROVE  ImageInv'
<1>1. Kept("sw0") /\ Kept("sw1")
  BY DEF Kept, Absent, Single
<1> QED BY <1>1, SteadyStep DEF ImageInv, Shape

\* A callback that waited is not the one of the first event.
LEMMA CallbackNotStarted ==
  ASSUME ImageInv, NEW at \in {"test", "template", "verify", "restore", "flows"}, cb.at = at
  PROVE  dh # "started" /\ (CallbackEnds(at) => dh' # "started")
<1>1. cb # NoCb
  BY DEF NoCb
<1> QED BY <1>1 DEF ImageInv, FreshStart, CallbackEnds

\* Events that are not those of an image.
LEMMA OtherNames ==
  \A v \in {"GetVendorAndSerial", "GetVersion", "GetEquipIDAndOmcc", "TestExtOmciSupport",
            "GetFirstSwVersion", "GetMibTemplate", "UploadMib", "Success", "Mismatch",
            "AuditMib", "Timeout", "Stop"} :
    Go(v) \in OtherPosts /\ [ev |-> v, by |-> "proc"] \in OtherPosts
BY EventNames DEF Go, OtherPosts, PostedEvents

\* The steps of the callbacks and of the goroutines that touch no channel.
LEMMA GoroutineSteps ==
  ASSUME ImageInv,
         \/ TestingEnds \/ TPsVerified \/ RestoreFails \/ RestoreEndsWithoutFlows \/ RestoreTPs
         \/ FlowsReconciled \/ FlowExpiry \/ AuditTimer \/ ProcStarts
  PROVE  ImageInv'
<1> USE DEF ImageInv, Shape
<1>1. CASE TestingEnds
  <2>1. dh' # "started"
    <3>1. cb.at = "test" /\ CallbackEnds("test")
      BY <1>1 DEF TestingEnds, CallbackEnds
    <3> QED BY <3>1, CallbackNotStarted
  <2>2. Steady
    BY <1>1, <2>1, OtherNames DEF TestingEnds, Steady
  <2> QED BY <1>1, <2>2, QuietStep DEF TestingEnds
<1>2. CASE TPsVerified
  <2>1. dh' # "started"
    <3>1. cb.at = "verify" /\ CallbackEnds("verify")
      BY <1>2 DEF TPsVerified, CallbackEnds
    <3> QED BY <3>1, CallbackNotStarted
  <2>2. Steady
    BY <1>2, <2>1, OtherNames DEF TPsVerified, Steady
  <2> QED BY <1>2, <2>2, QuietStep DEF TPsVerified
<1>3. CASE RestoreFails
  <2>1. dh' # "started"
    <3>1. cb.at = "restore" /\ CallbackEnds("restore")
      BY <1>3 DEF RestoreFails, CallbackEnds
    <3> QED BY <3>1, CallbackNotStarted
  <2>2. Steady
    BY <1>3, <2>1, OtherNames DEF RestoreFails, Steady
  <2> QED BY <1>3, <2>2, QuietStep DEF RestoreFails
<1>4. CASE RestoreEndsWithoutFlows
  <2>1. dh' # "started"
    <3>1. cb.at = "restore" /\ CallbackEnds("restore")
      BY <1>4 DEF RestoreEndsWithoutFlows, CallbackEnds
    <3> QED BY <3>1, CallbackNotStarted
  <2>2. Steady
    BY <1>4, <2>1 DEF RestoreEndsWithoutFlows, Steady, DevMembers, UpMembers
  <2> QED BY <1>4, <2>2, QuietStep DEF RestoreEndsWithoutFlows
<1>5. CASE RestoreTPs
  <2>1. Steady
    <3>1. dh' # "started"
      BY <1>5, CallbackNotStarted DEF RestoreTPs
    <3> QED BY <1>5, <3>1 DEF RestoreTPs, Steady, DevMembers, UpMembers
  <2> QED BY <1>5, <2>1, QuietStep DEF RestoreTPs
<1>6. CASE FlowsReconciled
  <2>1. dh' # "started"
    <3>1. cb.at = "flows" /\ CallbackEnds("flows")
      BY <1>6 DEF FlowsReconciled, CallbackEnds
    <3> QED BY <3>1, CallbackNotStarted
  <2>2. Steady
    BY <1>6, <2>1, OtherNames DEF FlowsReconciled, Steady, DevMembers
  <2> QED BY <1>6, <2>2, QuietStep DEF FlowsReconciled
<1>7. CASE FlowExpiry
  <2>1. Steady
    BY <1>7, OtherNames DEF FlowExpiry, Steady
  <2> QED BY <1>7, <2>1, QuietStep DEF FlowExpiry
<1>8. CASE AuditTimer
  <2>1. Steady
    BY <1>8, OtherNames DEF AuditTimer, Steady
  <2> QED BY <1>8, <2>1, QuietStep DEF AuditTimer
<1>9. CASE ProcStarts
  <2>1. Steady
    BY <1>9 DEF ProcStarts, Steady
  <2> QED BY <1>9, <2>1, QuietStep DEF ProcStarts
<1> QED BY <1>1, <1>2, <1>3, <1>4, <1>5, <1>6, <1>7, <1>8, <1>9

\* The counter of the ONU stays a number.
LEMMA OnuCounts ==
  ASSUME NEW v \in Nat
  PROVE  OnuIncrementMds(v) \in Nat
BY MibSyncAssumption DEF OnuIncrementMds

\* The steps of the configuration and of the device handler that touch no
\* channel.
LEMMA ConfigurationSteps ==
  ASSUME ImageInv,
         \/ OnuDiverges \/ ConfigStarts \/ OnuExecutes \/ ConfigResponse \/ ConfigEnds
         \/ ProcessMibDatabaseSync \/ ReconcilingEnds \/ UpdateInterface
  PROVE  ImageInv'
<1> USE DEF ImageInv, Shape
<1>1. CASE OnuDiverges
  <2>1. Steady
    BY <1>1, MibSyncAssumption DEF OnuDiverges, Steady, DevMembers
  <2> QED BY <1>1, <2>1, QuietStep DEF OnuDiverges
<1>2. CASE ConfigStarts
  <2>1. Steady
    BY <1>2 DEF ConfigStarts, Steady, DevMembers
  <2> QED BY <1>2, <2>1, QuietStep DEF ConfigStarts
<1>3. CASE OnuExecutes
  <2>1. Steady
    BY <1>3, OnuCounts DEF OnuExecutes, Steady
  <2> QED BY <1>3, <2>1, QuietStep DEF OnuExecutes
<1>4. CASE ConfigResponse
  <2>1. Steady
    BY <1>4 DEF ConfigResponse, Steady
  <2> QED BY <1>4, <2>1, QuietStep DEF ConfigResponse
<1>5. CASE ConfigEnds
  <2>1. Steady
    BY <1>5 DEF ConfigEnds, Steady, DevMembers
  <2> QED BY <1>5, <2>1, QuietStep DEF ConfigEnds
<1>6. CASE ProcessMibDatabaseSync
  <2>1. Steady
    BY <1>6 DEF ProcessMibDatabaseSync, Steady, DevMembers
  <2> QED BY <1>6, <2>1, QuietStep DEF ProcessMibDatabaseSync
<1>7. CASE ReconcilingEnds
  <2>1. Steady
    BY <1>7 DEF ReconcilingEnds, Steady, DevMembers
  <2> QED BY <1>7, <2>1, QuietStep DEF ReconcilingEnds
<1>8. CASE UpdateInterface
  <2>1. Steady
    BY <1>8 DEF UpdateInterface, Steady, DevMembers
  <2> QED BY <1>8, <2>1, QuietStep DEF UpdateInterface
<1> QED BY <1>1, <1>2, <1>3, <1>4, <1>5, <1>6, <1>7, <1>8
-----------------------------------------------------------------------------
(* The OMCI channel.                                                       *)

\* A signal of the adapter to the message processor is no answer.
LEMMA SignalStep ==
  ASSUME ImageInv, Steady, img' = img, dh' # "started" \/ sent # <<>>, NEW v \in SignalNames,
         \A r \in {"sw0", "sw1"} : (Has(r, sent') => Has(r, sent)) /\ (One(r, sent) => One(r, sent')),
         sent' \in Seq(Sents), back' = back, chan' = chan \/ chan' = Append(chan, Signal(v))
  PROVE  ImageInv'
<1>1. Signal(v) \in Msgs /\ Signal(v).req \notin {"sw0", "sw1"}
  BY DEF Signal, Msgs, SignalNames
<1>2. chan' \in Seq(Msgs) /\ NoMore("sw0") /\ NoMore("sw1")
  <2>1. CASE chan' = chan
    BY <2>1 DEF ImageInv, Shape, NoMore
  <2>2. CASE chan' = Append(chan, Signal(v))
    <3>1. ASSUME NEW r \in {"sw0", "sw1"}
          PROVE  /\ chan' \in Seq(Msgs) /\ (Has(r, chan') => Has(r, chan))
                 /\ One(r, chan) => One(r, chan')
      BY <1>1, <2>2, HasAppend DEF ImageInv, Shape
    <3> QED BY <3>1 DEF NoMore
  <2> QED BY <2>1, <2>2
<1>3. Kept("sw0") /\ Kept("sw1")
  BY <1>2, NoMoreKept
<1> QED BY <1>2, <1>3, SteadyStep DEF ImageInv, Shape

\* The steps of the requests, and those that put a signal into CommChan.
LEMMA ChannelSteps ==
  ASSUME ImageInv,
         \/ OnuAnswers \/ Deliver \/ RequestTimeout \/ RequestLost \/ TemplateSearched
         \/ CancelAborts \/ OnuDown
  PROVE  ImageInv'
<1> USE DEF ImageInv, Shape
<1>1. CASE OnuAnswers
  <2> DEFINE r == Head(sent)
             a(res, v) == [req |-> r.req, res |-> res, val |-> v]
  <2>1. sent # <<>> /\ sent' = Tail(sent) /\ UNCHANGED <<ul, cb, pend, chan, up, img, dh>>
    BY <1>1 DEF OnuAnswers
  <2>2. r \in Sents
    BY <2>1
  <2>3. \A v \in AnswerVals(r) : v \in Nat
    BY <2>2, MibSyncAssumption DEF AnswerVals, Sents
  <2>4. PICK res \in {"ok", "refused", "unsupported", "undecodable"}, v \in Nat : back' = Append(back, a(res, v))
    BY <1>1, <2>3 DEF OnuAnswers
  <2>5. a(res, v) \in Msgs /\ a(res, v).req = Head(sent).req
    BY <2>2 DEF Sents, Msgs
  <2>6. /\ mds' = mds \/ mds' = [mds EXCEPT !.onu = 0]
        /\ dev' = dev \/ dev' = [dev EXCEPT !.intact = TRUE]
    BY <1>1 DEF OnuAnswers
  <2>7. Steady
    BY <2>1, <2>6 DEF Steady, DevMembers
  <2> HIDE DEF a
  <2>8. Kept("sw0") /\ Kept("sw1") /\ sent' \in Seq(Sents) /\ back' \in Seq(Msgs)
    BY <2>1, <2>4, <2>5, AnswerKept
  <2> QED BY <2>1, <2>7, <2>8, SteadyStep
<1>2. CASE Deliver
  <2>1. /\ back # <<>> /\ chan' = Append(chan, Head(back)) /\ back' = Tail(back)
        /\ UNCHANGED <<ul, cb, pend, sent, up, img, mds, dev, dh>>
    BY <1>2 DEF Deliver
  <2>2. Kept("sw0") /\ Kept("sw1") /\ back' \in Seq(Msgs) /\ chan' \in Seq(Msgs)
    BY <2>1, DeliverKept
  <2>3. Steady
    BY <2>1 DEF Steady
  <2> QED BY <2>1, <2>2, <2>3, SteadyStep
<1>3. CASE RequestTimeout
  <2>1. /\ sent # <<>> /\ sent' = [sent EXCEPT ![1].sup = FALSE]
        /\ chan' = chan \/ chan' = Append(chan, Signal("timeout"))
        /\ UNCHANGED <<ul, cb, pend, back, up, img, mds, dev, dh>>
    BY <1>3 DEF RequestTimeout
  <2>2. \A r \in {"sw0", "sw1"} : (Has(r, sent') <=> Has(r, sent)) /\ (One(r, sent') <=> One(r, sent))
    BY <2>1, HasUnsupervised
  <2>3. sent' \in Seq(Sents)
    BY <2>1, HasUnsupervised
  <2>4. Steady
    BY <2>1 DEF Steady
  <2> QED BY <2>1, <2>2, <2>3, <2>4, SignalStep DEF SignalNames
<1>4. CASE RequestLost
  <2>1. /\ sent # <<>> /\ sent' = Tail(sent)
        /\ UNCHANGED <<ul, cb, pend, chan, back, up, img, mds, dev, dh>>
    BY <1>4 DEF RequestLost
  <2>2. \A r : (Has(r, sent') => Has(r, sent)) /\ (One(r, sent) => One(r, sent')) /\ sent' \in Seq(Sents)
    BY <2>1, HasTail
  <2>3. Steady
    BY <2>1 DEF Steady
  <2> QED BY <2>1, <2>2, <2>3, SignalStep DEF SignalNames
<1>5. CASE TemplateSearched
  <2>1. PICK found \in BOOLEAN :
          /\ CallbackEnds("template")
          /\ chan' = Append(chan, Signal(IF found THEN "templateOk" ELSE "templateFailed"))
          /\ up' = [up EXCEPT !.db = IF found THEN "template" ELSE "part", !.got = {}, !.held = ~found]
          /\ UNCHANGED <<ul, pend, sent, back, img, mds, dev>>
    BY <1>5 DEF TemplateSearched
  <2>2. dh' # "started"
    <3>1. cb.at = "template"
      BY <2>1 DEF CallbackEnds
    <3> QED BY <2>1, <3>1, CallbackNotStarted
  <2>3. Steady
    BY <2>1, <2>2 DEF Steady, UpMembers
  <2> QED BY <2>1, <2>2, <2>3, SignalStep DEF SignalNames
<1>6. CASE CancelAborts
  <2>1. /\ chan' = Append(chan, Signal("abort")) /\ dh' = "stop"
        /\ UNCHANGED <<ul, cb, pend, sent, back, up, img, mds, dev>>
    BY <1>6 DEF CancelAborts
  <2>2. Steady
    BY <2>1 DEF Steady
  <2> QED BY <2>1, <2>2, SignalStep DEF SignalNames
<1>7. CASE OnuDown
  <2>1. /\ sent' = CancelMonitoring /\ dev' = [dev EXCEPT !.raise = FALSE] /\ dh' # "started"
        /\ UNCHANGED <<ul, cb, pend, chan, back, up, img, mds>>
    BY <1>7 DEF OnuDown
  <2>2. Steady
    BY <2>1 DEF Steady, DevMembers
  <2>3. \A r : (Has(r, sent') => Has(r, sent)) /\ One(r, sent') /\ sent' \in Seq(Sents)
    BY <2>1, HasMonitored
  <2> QED BY <2>1, <2>2, <2>3, SignalStep DEF SignalNames
<1> QED BY <1>1, <1>2, <1>3, <1>4, <1>5, <1>6, <1>7
-----------------------------------------------------------------------------
(* The message processor.                                                  *)

\* A message is taken; nothing is learnt about an image, and the request that
\* may be sent is not for one.
LEMMA ReadStep ==
  ASSUME ImageInv, Steady, Take, img' = img, back' = back,
         NEW q \in Reqs \ {"sw0", "sw1"}, NEW n \in Nat,
         sent' = sent \/ sent' = Append(sent, Request(q, n))
  PROVE  ImageInv'
<1>1. Request(q, n) \in Sents /\ Request(q, n).req = q
  BY DEF Request, Sents
<1>2. ASSUME NEW r \in {"sw0", "sw1"}
      PROVE  sent' \in Seq(Sents) /\ (Has(r, sent') => Has(r, sent)) /\ (One(r, sent) => One(r, sent'))
  <2>1. CASE sent' = sent
    BY <2>1 DEF ImageInv, Shape
  <2>2. CASE sent' = Append(sent, Request(q, n))
    BY <1>1, <2>2, HasAppend DEF ImageInv, Shape
  <2> QED BY <2>1, <2>2
<1>3. chan # <<>> /\ chan' = Tail(chan)
  BY DEF Take
<1>4. \A r \in {"sw0", "sw1"} : Kept(r) /\ chan' \in Seq(Msgs)
  BY <1>2, <1>3, TakeKept DEF ImageInv
<1> QED BY <1>2, <1>3, <1>4, SteadyStep DEF ImageInv, Shape

\* A handler posts an event that is not one of an image, or none.
LEMMA PostSteady ==
  ASSUME ImageInv, UNCHANGED <<ul, cb, dh>>,
         DOMAIN dev' = DevMembers, dev'.clean = dev.clean,
         DOMAIN up' = UpMembers, up'.seq \in Nat,
         DOMAIN mds' = {"adpt", "onu"}, mds'.onu \in Nat,
         NEW v \in {"GetVendorAndSerial", "GetVersion", "GetEquipIDAndOmcc", "TestExtOmciSupport",
                    "GetFirstSwVersion", "GetMibTemplate", "UploadMib", "Success", "Mismatch",
                    "Timeout", "Stop"},
         NoEvent \/ Post(v) \/ pend' = pend \cup {Go(v)}
  PROVE  Steady
<1>1. Go(v) \in OtherPosts /\ [ev |-> v, by |-> "proc"] \in OtherPosts
  BY OtherNames
<1>2. pend' \subseteq pend \cup OtherPosts
  BY <1>1 DEF NoEvent, Post
<1> QED BY <1>2 DEF Steady

\* The handlers of the signals and of the reset and upload answers.
LEMMA HandlerSteps ==
  ASSUME ImageInv,
         \/ RxSignalEnds \/ HandleTestMsg \/ HandleMibResetResponse
         \/ HandleMibUploadResponse \/ HandleMibUploadNextResponse
  PROVE  ImageInv'
<1>s. /\ DOMAIN dev = DevMembers /\ dev.clean \in BOOLEAN /\ DOMAIN up = UpMembers /\ up.seq \in Nat
      /\ DOMAIN mds = {"adpt", "onu"} /\ mds.onu \in Nat
  BY DEF ImageInv, Shape
<1>q. {"mds", "next"} \subseteq Reqs \ {"sw0", "sw1"} /\ 0 \in Nat /\ 1 \in Nat
  BY DEF Reqs, MEs
<1>1. CASE RxSignalEnds
  <2>1. /\ Take /\ pend' = pend \cup {Go("Stop")}
        /\ UNCHANGED <<ul, cb, sent, back, up, img, mds, dev, dh>>
    BY <1>1 DEF RxSignalEnds
  <2>2. Steady
    BY <2>1, <1>s, PostSteady
  <2> QED BY <2>1, <2>2, <1>q, ReadStep
<1>2. CASE HandleTestMsg
  <2>1. /\ Take /\ (Post("Success") \/ Post("UploadMib"))
        /\ UNCHANGED <<ul, cb, sent, back, up, img, mds, dev, dh>>
    BY <1>2 DEF HandleTestMsg
  <2>2. Steady
    BY <2>1, <1>s, PostSteady
  <2> QED BY <2>1, <2>2, <1>q, ReadStep
<1>3. CASE HandleMibResetResponse
  <2>1. /\ Take /\ UNCHANGED <<ul, cb, back, up, img, dev, dh>>
        /\ mds' = mds \/ mds' = [mds EXCEPT !.adpt = 0]
        /\ sent' = sent \/ sent' = Append(sent, Request("mds", 1))
        /\ NoEvent \/ Post("GetVendorAndSerial") \/ Post("Stop")
    BY <1>3 DEF HandleMibResetResponse
  <2>2. DOMAIN mds' = {"adpt", "onu"} /\ mds'.onu \in Nat
    BY <2>1, <1>s
  <2>3. Steady
    BY <2>1, <2>2, <1>s, PostSteady
  <2> QED BY <2>1, <2>3, <1>q, ReadStep
<1>4. CASE HandleMibUploadResponse
  <2> DEFINE u == [up EXCEPT !.cmds = Message.val]
  <2>1. Take /\ UNCHANGED <<ul, cb, back, img, mds, dev, dh>>
    BY <1>4 DEF HandleMibUploadResponse
  <2>2. DOMAIN u = UpMembers /\ u.seq = up.seq
    BY <1>s DEF UpMembers
  <2>3. \/ SendMibUploadNext(u) /\ NoEvent
        \/ up' = u /\ Post("Timeout") /\ sent' = sent
    BY <1>4 DEF HandleMibUploadResponse
  <2> HIDE DEF u
  <2>4. /\ up' = u \/ up' = [u EXCEPT !.seq = @ + 1]
        /\ sent' = sent \/ sent' = Append(sent, Request("next", u.seq))
        /\ NoEvent \/ Post("Timeout")
    BY <2>3 DEF SendMibUploadNext
  <2>5. DOMAIN up' = UpMembers /\ up'.seq \in Nat
    BY <2>2, <2>4, <1>s DEF UpMembers
  <2>6. Steady
    BY <2>1, <2>4, <2>5, <1>s, PostSteady
  <2> QED BY <2>1, <2>2, <2>4, <2>6, <1>s, <1>q, ReadStep
<1>5. CASE HandleMibUploadNextResponse
  <2> DEFINE u == [up EXCEPT !.got = IF up.db = "none" THEN @ ELSE @ \cup {Message.val}]
  <2>1. Take /\ UNCHANGED <<ul, cb, back, img, mds, dh>>
    BY <1>5 DEF HandleMibUploadNextResponse
  <2>2. DOMAIN u = UpMembers /\ u.seq = up.seq
    BY <1>s DEF UpMembers
  <2>3. \/ NoEvent /\ UNCHANGED <<up, sent, dev>>
        \/ /\ up' = [u EXCEPT !.db = "uploaded", !.held = FALSE] /\ Post("Success") /\ sent' = sent
           /\ dev' = [dev EXCEPT !.panic = @ \/ up.db = "none" \/ ~up.held]
        \/ SendMibUploadNext(u) /\ NoEvent /\ dev' = dev
    BY <1>5 DEF HandleMibUploadNextResponse
  <2> HIDE DEF u
  <2>4. /\ \/ up' = up \/ up' = [u EXCEPT !.db = "uploaded", !.held = FALSE]
           \/ up' = [u EXCEPT !.seq = @ + 1]
        /\ sent' = sent \/ sent' = Append(sent, Request("next", u.seq))
        /\ NoEvent \/ Post("Success")
    BY <2>3 DEF SendMibUploadNext
  <2>5. DOMAIN up' = UpMembers /\ up'.seq \in Nat
    <3>1. CASE up' = up
      BY <3>1, <1>s
    <3>2. CASE up' = [u EXCEPT !.db = "uploaded", !.held = FALSE]
      BY <2>2, <3>2, <1>s DEF UpMembers
    <3>3. CASE up' = [u EXCEPT !.seq = @ + 1]
      BY <2>2, <3>3, <1>s DEF UpMembers
    <3> QED BY <2>4, <3>1, <3>2, <3>3
  <2>6. DOMAIN dev' = DevMembers /\ dev'.clean = dev.clean
    BY <2>3, <1>s DEF DevMembers
  <2>7. Steady
    BY <2>1, <2>4, <2>5, <2>6, <1>s, PostSteady
  <2> QED BY <2>1, <2>2, <2>4, <2>7, <1>s, <1>q, ReadStep
<1> QED BY <1>1, <1>2, <1>3, <1>4, <1>5
\* HandleSwImageIndications: what the two answers, one after the other, make of
\* the images.
LEMMA SwImages ==
  ASSUME NEW a \in BOOLEAN, Shape
  PROVE  /\ img' = SwImageIndications("sw0", a) => FirstImage' /\ DOMAIN img' = {"active", "inactive"}
         /\ img' = SwImageIndications("sw1", a) => DOMAIN img' = {"active", "inactive"}
         /\ FirstImage /\ img' = SwImageIndications("sw1", a) => BothImages'
BY DEF Shape, SwImageIndications, FirstImage, BothImages

\* The events after an answer that reports an error.
LEMMA ErrorEventNames ==
  ASSUME NEW m
  PROVE  GetResponseErrorEvents(m) \subseteq {"GetMibTemplate", "Stop"}
BY DEF GetResponseErrorEvents

\* The events after a good answer: those of the two images, and the others.
LEMMA EventNamesOfAnswers ==
  ASSUME NEW m, m.req \in MEs
  PROVE  /\ m.req = "sw0" => GetResponseEvents(m) = {"GetSecondSwVersion"}
         /\ m.req = "sw1" => GetResponseEvents(m) = {"GetMacAddress"}
         /\ m.req \notin {"sw0", "sw1"} =>
              GetResponseEvents(m) \subseteq {"GetVersion", "GetEquipIDAndOmcc", "TestExtOmciSupport",
                                              "GetFirstSwVersion", "GetMibTemplate", "Success",
                                              "Mismatch", "Stop"}
<1>1. CASE m.req \in {"sw0", "sw1"}
  BY <1>1 DEF GetResponseEvents
<1>2. CASE m.req = "onuG"
  BY <1>2 DEF GetResponseEvents
<1>3. CASE m.req = "onu2G"
  BY <1>3 DEF GetResponseEvents
<1>4. CASE m.req = "mac"
  BY <1>4 DEF GetResponseEvents
<1>5. CASE m.req = "mds"
  <2>1. GetResponseEvents(m) = CheckMdsValue(m.val)
    BY <1>5 DEF GetResponseEvents
  <2>2. CheckMdsValue(m.val) \subseteq {"Success", "Mismatch"}
    BY DEF CheckMdsValue
  <2> QED BY <1>5, <2>1, <2>2
<1> QED BY <1>1, <1>2, <1>3, <1>4, <1>5 DEF MEs

\* A good answer for an image uses up its request: from now on the event stands
\* for it.
LEMMA ImageAnswerStep ==
  ASSUME ImageInv, Take, UNCHANGED <<ul, cb, sent, back, up, mds, dev, dh>>,
         NEW q \in {"sw0", "sw1"}, Message.req = q, NEW a \in BOOLEAN,
         img' = SwImageIndications(q, a),
         Post(IF q = "sw0" THEN "GetSecondSwVersion" ELSE "GetMacAddress")
  PROVE  ImageInv'
<1> DEFINE ev == IF q = "sw0" THEN "GetSecondSwVersion" ELSE "GetMacAddress"
           x == [ev |-> ev, by |-> "proc"]
<1>1. chan # <<>> /\ chan' = Tail(chan) /\ Head(chan).req = q
  BY DEF Take, Message
<1>2. pend' = pend \cup {x} /\ x.ev = ev /\ x.by = "proc" /\ ev \in {"GetSecondSwVersion", "GetMacAddress"}
  BY DEF Post
<1>3. x \in Posts
  BY EventNames DEF Posts, PostedEvents
<1> HIDE DEF x
<1>4. /\ \A r \in {"sw0", "sw1"} : Kept(r) /\ chan' \in Seq(Msgs)
      /\ ~Absent(q) /\ (Single(q) => Absent(q)')
  BY <1>1, TakeKept DEF ImageInv
<1>5. DOMAIN img' = {"active", "inactive"}
  BY SwImages DEF ImageInv
<1>6. Shape'
  BY <1>2, <1>3, <1>4, <1>5 DEF ImageInv, Shape
<1>7. FreshStart'
  BY <1>1 DEF ImageInv, FreshStart
<1>w. \A v : Waits(v)' => Waits(v) \/ v = ev
  BY <1>2 DEF Waits
<1>8. ImageTokens'
  <2>1. SUFFICES ASSUME Live PROVE ImageTokens'
    BY DEF ImageTokens, Live
  <2>2. CASE q = "sw0"
    <3>1. Single("sw0") /\ ul = "GettingFirstSwVersion" /\ Absent("sw1") /\ ~Waits("GetMacAddress")
      BY <1>4, <2>1, <2>2 DEF ImageInv, ImageTokens
    <3>2. Absent("sw0")' /\ Absent("sw1")' /\ FirstImage'
      BY <1>4, <2>2, <3>1, SwImages DEF Kept, ImageInv
    <3>3. ~Waits("GetMacAddress")'
      BY <1>w, <2>2, <3>1
    <3> QED BY <3>1, <3>2, <3>3 DEF ImageTokens
  <2>3. CASE q = "sw1"
    <3>1. /\ Single("sw1") /\ ul = "GettingSecondSwVersion" /\ Absent("sw0") /\ FirstImage
          /\ ~Waits("GetSecondSwVersion")
      BY <1>4, <2>1, <2>3 DEF ImageInv, ImageTokens
    <3>2. Absent("sw0")' /\ Absent("sw1")' /\ BothImages'
      BY <1>4, <2>3, <3>1, SwImages DEF Kept, ImageInv
    <3>3. ~Waits("GetSecondSwVersion")'
      BY <1>w, <2>3, <3>1
    <3> QED BY <3>1, <3>2, <3>3 DEF ImageTokens
  <2> QED BY <2>2, <2>3
<1> QED BY <1>6, <1>7, <1>8 DEF ImageInv

\* The handler of the answers to the get requests.
LEMMA GetResponseStep ==
  ASSUME ImageInv, HandleGetResponse
  PROVE  ImageInv'
<1>s. /\ DOMAIN dev = DevMembers /\ dev.clean \in BOOLEAN /\ DOMAIN up = UpMembers /\ up.seq \in Nat
      /\ DOMAIN mds = {"adpt", "onu"} /\ mds.onu \in Nat
  BY DEF ImageInv, Shape
<1>q. "reset" \in Reqs \ {"sw0", "sw1"} /\ 1 \in Nat
  BY DEF Reqs, MEs
<1>1. Take /\ Message.req \in MEs /\ UNCHANGED <<ul, cb, back, up, mds, dev, dh>>
  BY DEF HandleGetResponse, Is
<1>2. CASE last.type # "get" \/ last.me = "none"
  <2>1. (sent' = sent \/ sent' = Append(sent, Request("reset", 1))) /\ NoEvent /\ img' = img
    BY <1>2 DEF HandleGetResponse
  <2>2. Steady
    BY <2>1, <1>1, <1>s, PostSteady
  <2> QED BY <2>1, <2>2, <1>1, <1>q, ReadStep
<1>3. CASE ~(last.type # "get" \/ last.me = "none")
  <2> DEFINE events == IF Message.res # "ok" THEN GetResponseErrorEvents(Message)
                       ELSE IF Message.req = last.me THEN GetResponseEvents(Message) ELSE {"Stop"}
             good == Message.res = "ok" /\ Message.req = last.me
  <2>1. /\ IF events = {} THEN NoEvent ELSE \E ev \in events : Post(ev)
        /\ img' = IF good /\ Message.req \in {"sw0", "sw1"}
                  THEN SwImageIndications(Message.req, Message.val = 1) ELSE img
        /\ sent' = sent
    BY <1>3 DEF HandleGetResponse
  <2>2. CASE good /\ Message.req \in {"sw0", "sw1"}
    <3>1. events = {IF Message.req = "sw0" THEN "GetSecondSwVersion" ELSE "GetMacAddress"}
      BY <1>1, <2>2, EventNamesOfAnswers
    <3>2. Post(IF Message.req = "sw0" THEN "GetSecondSwVersion" ELSE "GetMacAddress")
      BY <2>1, <3>1
    <3>3. img' = SwImageIndications(Message.req, Message.val = 1) /\ (Message.val = 1) \in BOOLEAN
      BY <2>1, <2>2
    <3> QED BY <1>1, <2>1, <2>2, <3>2, <3>3, ImageAnswerStep
  <2>3. CASE ~(good /\ Message.req \in {"sw0", "sw1"})
    <3>1. events \subseteq {"GetVersion", "GetEquipIDAndOmcc", "TestExtOmciSupport", "GetFirstSwVersion",
                            "GetMibTemplate", "Success", "Mismatch", "Stop"}
      BY <1>1, <2>3, ErrorEventNames, EventNamesOfAnswers
    <3> HIDE DEF events
    <3>2. Steady
      BY <1>1, <1>s, <2>1, <3>1, PostSteady
    <3>3. img' = img /\ sent' = sent /\ back' = back
      BY <1>1, <2>1, <2>3
    <3> QED BY <1>1, <1>q, <3>2, <3>3, ReadStep
  <2> QED BY <2>2, <2>3
<1> QED BY <1>2, <1>3

-----------------------------------------------------------------------------
\* A repeated answer ends what is said of clean runs, and changes little else.
LEMMA Repeated ==
  ASSUME Shape, OnuRepeats
  PROVE  /\ Shape' /\ ~dev'.clean
         /\ UNCHANGED <<ul, cb, pend, proc, chan, sent, last, up, img, cfg, dh, flow>>
         /\ Reachable /\ (mds' = mds \/ mds' = [mds EXCEPT !.onu = 0])
         /\ \E i : dev' = [dev EXCEPT !.intact = i, !.clean = FALSE]
<1>1. /\ sent # <<>> /\ Reachable
      /\ UNCHANGED <<ul, cb, pend, proc, chan, sent, last, up, img, cfg, dh, flow>>
      /\ mds' = mds \/ mds' = [mds EXCEPT !.onu = 0]
      /\ \E i : dev' = [dev EXCEPT !.intact = i, !.clean = FALSE]
  BY DEF OnuRepeats
<1>2. back' \in Seq(Msgs)
  <2> DEFINE q == Head(sent)
  <2>1. q \in Sents
    BY <1>1 DEF Shape
  <2>2. \A v \in AnswerVals(q) : v \in Nat
    <3>1. mds.onu \in Nat /\ NCmds \in Nat /\ q.n \in Nat
      BY <2>1, MibSyncAssumption DEF Shape, Sents
    <3> QED BY <3>1 DEF AnswerVals
  <2>3. PICK v \in Nat : back' = Append(back, [req |-> q.req, res |-> "ok", val |-> v])
    BY <2>2 DEF OnuRepeats
  <2>4. [req |-> q.req, res |-> "ok", val |-> v] \in Msgs
    BY <2>1 DEF Msgs, Sents
  <2> QED BY <2>3, <2>4 DEF Shape
<1>3. DOMAIN dev' = DevMembers /\ dev'.clean = FALSE
  BY <1>1 DEF Shape, DevMembers
<1>4. DOMAIN mds' = {"adpt", "onu"} /\ mds'.onu \in Nat
  BY <1>1 DEF Shape
<1> QED BY <1>1, <1>2, <1>3, <1>4 DEF Shape

-----------------------------------------------------------------------------
\* The invariant holds in the beginning.
LEMMA ImageInvInit ==
  ASSUME Init
  PROVE  ImageInv
<1>1. Shape
  <2>1. /\ ul = "Disabled" /\ pend = {} /\ chan = <<>> /\ sent = <<>> /\ back = <<>>
        /\ up = [seq |-> 0, cmds |-> 0, db |-> "none", got |-> {}, held |-> FALSE]
        /\ img = [active |-> "none", inactive |-> "none"]
    BY DEF Init
  <2>2. DOMAIN dev = DevMembers /\ dev.clean \in BOOLEAN
    BY DEF Init, DevMembers
  <2>3. DOMAIN mds = {"adpt", "onu"} /\ mds.onu \in Nat
    BY MibSyncAssumption DEF Init
  <2> QED BY <2>1, <2>2, <2>3 DEF Shape, States, UpMembers
<1>2. ul = "Disabled" /\ dh = "off"
  BY DEF Init
<1> QED BY <1>1, <1>2 DEF ImageInv, FreshStart, ImageTokens, Live

\* Every step keeps it.
LEMMA ImageInvStep ==
  ASSUME ImageInv, [Next]_vars
  PROVE  ImageInv'
<1>1. CASE Fire
  BY <1>1, FireStep
<1>2. CASE Callbacks
  BY <1>2, GoroutineSteps, ChannelSteps DEF Callbacks
<1>3. CASE Processor
  BY <1>3, GoroutineSteps, HandlerSteps, GetResponseStep DEF Processor
<1>4. CASE Timers
  BY <1>4, GoroutineSteps DEF Timers
<1>5. CASE Requests
  BY <1>5, ChannelSteps DEF Requests
<1>6. CASE DeviceHandler
  BY <1>6, ConfigurationSteps, OnuUpStep, FirstEventStep, ChannelSteps, CancelStep DEF DeviceHandler
<1>7. CASE Configuration \/ OnuDiverges
  BY <1>7, ConfigurationSteps DEF Configuration
<1>8. CASE OnuDown
  BY <1>8, ChannelSteps
<1>9. CASE UNCHANGED vars
  <2>1. Steady
    BY <1>9 DEF vars, Steady, ImageInv, Shape
  <2> QED BY <1>9, <2>1, QuietStep DEF vars
<1>10. CASE OnuRepeats
  BY <1>10, Repeated DEF ImageInv, FreshStart, ImageTokens, Live
<1> QED BY <1>1, <1>2, <1>3, <1>4, <1>5, <1>6, <1>7, <1>8, <1>9, <1>10 DEF Next

\* HandleSwImageIndications: in a run that began with empty channels the two
\* software images have complementary roles when the template of the MIB is
\* looked for, however many disturbances there are and whatever the ONU
\* reports about them.
THEOREM ImagesAreDistinct == Spec => []ImagesDistinct
<1>1. Init => ImageInv
  BY ImageInvInit
<1>2. ImageInv /\ [Next]_vars => ImageInv'
  BY ImageInvStep
<1>3. ImageInv => ImagesDistinct
  BY DEF ImageInv, ImageTokens, Live, BothImages, ImagesDistinct
<1> QED BY <1>1, <1>2, <1>3, PTL DEF Spec

-----------------------------------------------------------------------------
(***************************************************************************)
(* One request at a time.  Whether the upload is complete, whether the two *)
(* counters agree and whether the ONU gets its configuration again all     *)
(* depend on this: a run of the FSM that began with empty channels has     *)
(* either one request with its answer on the way, or one event that will   *)
(* take the FSM out of its state, or one callback that waits, and it is    *)
(* the one that belongs to the state.                                      *)
(***************************************************************************)
In(s) == {s[k] : k \in 1 .. Len(s)}

\* The answers on their way to a message processor.
Answered == In(back) \cup In(chan)

\* The requests, and the signals that stand for the result of a callback.
Tokens == Reqs \cup {"templateOk", "templateFailed"}
\* No request, answer or result is on the way; no event of a run waits.
Clear == \A r \in Tokens : Absent(r)

\* The events that take a run further; those that wait are none of them.
Progress == Events \ {"Stop", "AuditMib"}
Idle == \A e \in pend : e.ev \notin Progress

\* What is asked in a state.
Asked(s) ==
  CASE s = "ResettingMib" -> {"reset"}
    [] s \in DOMAIN GetOf -> {GetOf[s]}
    [] s = "GettingMibTemplate" -> {"templateOk", "templateFailed"}
    [] s = "Uploading" -> {"upload", "next"}
    [] OTHER -> {}

\* The states of the reconciling after a restart of the adapter.
Examining == {"VerifyingAndStoringTPs", "ExaminingMds", "ExaminingMdsSuccess"}

\* The events a state waits for.
Ahead(s) ==
  CASE s = "ResettingMib" -> {"GetVendorAndSerial"}
    [] s = "GettingVendorAndSerial" -> {"GetVersion"}
    [] s = "GettingVersion" -> {"GetEquipIDAndOmcc"}
    [] s = "GettingEquipIDAndOmcc" -> {"TestExtOmciSupport", "GetFirstSwVersion"}
    [] s = "TestingExtOmciSupport" -> {"GetFirstSwVersion"}
    [] s = "GettingFirstSwVersion" -> {"GetSecondSwVersion"}
    [] s = "GettingSecondSwVersion" -> {"GetMacAddress"}
    [] s = "GettingMacAddress" -> {"GetMibTemplate"}
    [] s = "GettingMibTemplate" -> {"Success", "UploadMib"}
    [] s = "Uploading" -> {"Success", "Timeout"}
    [] s = "UploadDone" -> {"Success"}
    [] s \in Examining \cup {"Auditing", "ReAuditing"} -> {"Success", "Mismatch"}
    [] OTHER -> {}

\* The states of the callbacks that wait.
CbIn == [test |-> "TestingExtOmciSupport", template |-> "GettingMibTemplate",
         verify |-> "VerifyingAndStoringTPs", restore |-> "ExaminingMdsSuccess",
         flows |-> "ExaminingMdsSuccess"]

\* More about the shape of the state.
Frame ==
  /\ cb # NoCb => cb.at \in DOMAIN CbIn /\ ul = CbIn[cb.at]
  /\ DOMAIN last = {"type", "me", "rep"}
  /\ DOMAIN cfg = {"run", "air", "n"}
  /\ dev.state \in {"init", "sync"} /\ dev.recon \in {"no", "omci", "skip"}
  /\ mds.adpt \in 0 .. MdsMax /\ mds.onu \in 0 .. MdsMax

-----------------------------------------------------------------------------
\* One more at the end, one fewer at the front.
LEMMA InAppend ==
  ASSUME NEW S, NEW s \in Seq(S), NEW x \in S
  PROVE  In(Append(s, x)) = In(s) \cup {x}
<1> DEFINE t == Append(s, x)
<1>1. Len(t) = Len(s) + 1 /\ Len(s) \in Nat
  OBVIOUS
<1>2. t[Len(s) + 1] = x /\ \A k \in 1 .. Len(s) : t[k] = s[k]
  OBVIOUS
<1> HIDE DEF t
<1>3. 1 .. Len(t) = (1 .. Len(s)) \cup {Len(s) + 1}
  BY <1>1
<1>4. In(t) = In(s) \cup {x}
  BY <1>2, <1>3 DEF In
<1> QED BY <1>4 DEF t

\* One fewer at the front.
LEMMA InTail ==
  ASSUME NEW S, NEW s \in Seq(S), s # <<>>
  PROVE  In(s) = In(Tail(s)) \cup {Head(s)}
<1> DEFINE t == Tail(s)
<1>1. Len(t) = Len(s) - 1 /\ Len(s) \in Nat \ {0} /\ Len(t) \in Nat
  OBVIOUS
<1>2. Head(s) = s[1] /\ \A k \in 1 .. Len(t) : t[k] = s[k + 1]
  OBVIOUS
<1> HIDE DEF t
<1>3. \A k \in 1 .. Len(t) : k + 1 \in 1 .. Len(s)
  BY <1>1
<1>4. \A k \in 1 .. Len(s) : k = 1 \/ (k - 1 \in 1 .. Len(t) /\ (k - 1) + 1 = k)
  BY <1>1
<1>5. 1 \in 1 .. Len(s)
  BY <1>1
<1>6. In(t) \cup {Head(s)} \subseteq In(s)
  BY <1>2, <1>3, <1>5 DEF In
<1>7. ASSUME NEW k \in 1 .. Len(s) PROVE s[k] \in In(t) \cup {Head(s)}
  <2>1. CASE k = 1
    BY <2>1, <1>2
  <2>2. CASE k # 1
    <3>1. k - 1 \in 1 .. Len(t) /\ t[k - 1] = s[k]
      BY <1>2, <1>4, <2>2
    <3> QED BY <3>1 DEF In
  <2> QED BY <2>1, <2>2
<1>8. In(s) \subseteq In(t) \cup {Head(s)}
  BY <1>7 DEF In
<1> QED BY <1>6, <1>8 DEF t

\* Nothing is in the empty sequence.
LEMMA InEmpty == In(<<>>) = {}
BY DEF In

\* What is in a sequence is of a request that it has.
LEMMA InHas ==
  ASSUME NEW s, NEW r
  PROVE  Has(r, s) <=> \E m \in In(s) : m.req = r
BY DEF In, Has

\* Nothing asked: the OMCI channel is empty.
LEMMA ClearEmpty ==
  ASSUME Shape, \A r \in Tokens : ~Has(r, sent)
  PROVE  sent = <<>>
<1>1. SUFFICES ASSUME sent # <<>> PROVE FALSE
  OBVIOUS
<1>2. 1 \in 1 .. Len(sent) /\ sent[1] \in Sents
  BY <1>1 DEF Shape
<1>3. sent[1].req \in Tokens
  BY <1>2 DEF Sents, Tokens
<1> QED BY <1>2, <1>3 DEF Has

-----------------------------------------------------------------------------
(* The enter callbacks, state by state.                                    *)

\* A callback sends the request of its state, starts an event, waits, or does
\* none of these.
Acts(e, d) ==
  /\ e.sent \in {sent, CancelMonitoring}
  /\ \/ e.send = <<>> /\ e.post \in {{}, {Go("Stop")}} /\ e.cb = NoCb
     \/ /\ e.send = <<>> /\ e.post = {Go("Success")} /\ e.cb = NoCb
        /\ d \in {"UploadDone", "ExaminingMds", "Auditing", "ReAuditing"}
     \/ /\ e.send = <<>> /\ e.post = {} /\ e.cb # NoCb
        /\ e.cb.at \in DOMAIN CbIn \ {"flows"} /\ CbIn[e.cb.at] = d /\ DOMAIN e.cb = {"at", "by"}
     \/ /\ \E q \in Asked(d) \ {"next"} : e.send = <<Request(q, 0)>>
        /\ e.post = {} /\ e.cb = NoCb
        /\ d \in DOMAIN GetOf => e.last.type = "get" /\ e.last.me = GetOf[d]
  /\ DOMAIN e.last = {"type", "me", "rep"}

\* What it makes of the upload, of the device and of the configuration.
Again == (dev.synced /\ dev.recon = "no") \/ dev.recon = "skip"
Restarted ==
  IF Again THEN [dev EXCEPT !.recon = StartReconciling(FALSE), !.state = "init", !.service = FALSE]
           ELSE dev

Leaves(e, d) ==
  /\ d \notin {"Starting", "Uploading"} => e.up = up
  /\ d = "Uploading" => e.up = [up EXCEPT !.seq = 0, !.cmds = 0]
  /\ d # "ResettingMib" => e.cfg = cfg
  /\ d = "ResettingMib" =>
       /\ e.cfg = IF Again THEN [cfg EXCEPT !.run = FALSE, !.air = FALSE] ELSE cfg
       /\ e.dev = [Restarted EXCEPT !.blank = TRUE,
                                    !.midway = dev.recon = "omci" /\ dev.state = "sync"]
  /\ d = "Disabled" => e.dev = [dev EXCEPT !.raise = FALSE]
  /\ d = "UploadDone" => e.dev = IF dev.state = "init"
                                 THEN [dev EXCEPT !.state = "sync", !.note = TRUE] ELSE dev
  /\ d = "InSync" => e.dev = [dev EXCEPT !.synced = TRUE]
  /\ d \in {"Auditing", "ReAuditing"} =>
       \/ e.dev = dev /\ e.send = <<>>
       \/ e.dev = [dev EXCEPT !.touched = FALSE] /\ ~cfg.run
  /\ d \notin {"Disabled", "Starting", "ResettingMib", "UploadDone", "InSync", "Auditing", "ReAuditing"} =>
       e.dev = dev

\* The callbacks by their states.
LEMMA Entered ==
  ASSUME Shape, Frame, NEW d \in States \ {"Starting"}, NEW by, NEW err \in BOOLEAN
  PROVE  Acts(Enter(d, by, err), d) /\ Leaves(Enter(d, by, err), d)
<1> DEFINE e == Enter(d, by, err)
<1>k. /\ DOMAIN Keep = Results /\ Keep.cb = NoCb /\ Keep.post = {} /\ Keep.send = <<>>
      /\ Keep.sent = sent /\ Keep.last = last /\ Keep.up = up /\ Keep.dev = dev /\ Keep.cfg = cfg
  BY DEF Keep, Results
<1>l. DOMAIN last = {"type", "me", "rep"} /\ DOMAIN dev = DevMembers /\ DOMAIN up = UpMembers
  BY DEF Frame, Shape
<1>m. ASSUME NEW w \in States
      PROVE  /\ DOMAIN RequestMdsValue(w, err) = Results
             /\ RequestMdsValue(w, err).cb = NoCb /\ RequestMdsValue(w, err).sent = sent
             /\ RequestMdsValue(w, err).up = up /\ RequestMdsValue(w, err).dev = dev
             /\ RequestMdsValue(w, err).cfg = cfg
             /\ DOMAIN RequestMdsValue(w, err).last = {"type", "me", "rep"}
             /\ \/ RequestMdsValue(w, err).send = <<>> /\ RequestMdsValue(w, err).post = {Go("Stop")}
                \/ /\ RequestMdsValue(w, err).send = <<Request("mds", 0)>>
                   /\ RequestMdsValue(w, err).post = {}
                   /\ RequestMdsValue(w, err).last.type = "get" /\ RequestMdsValue(w, err).last.me = "mds"
  BY <1>k, <1>l DEF RequestMdsValue, Results
<1>a. \A w \in {"ExaminingMds", "Auditing", "ReAuditing"} :
         Asked(w) = {"mds"} /\ w \in DOMAIN GetOf /\ GetOf[w] = "mds"
  BY DEF Asked, GetOf
<1>1. CASE d = "Disabled"
  <2>1. e = EnterDisabled
    BY <1>1 DEF Enter, GetStates
  <2>2. /\ e.sent = sent /\ e.send = <<>> /\ e.post = {} /\ e.cb = NoCb /\ e.last = last
        /\ e.up = up /\ e.cfg = cfg /\ e.dev = [dev EXCEPT !.raise = FALSE]
    BY <2>1, <1>k DEF EnterDisabled, Results
  <2> HIDE DEF e
  <2>3. Acts(e, d)
    BY <2>2, <1>l DEF Acts
  <2>4. Leaves(e, d)
    BY <2>2, <1>1 DEF Leaves
  <2> QED BY <2>3, <2>4 DEF e
<1>2. CASE d = "ResettingMib"
  <2>1. e = EnterResettingMib(err)
    BY <1>2 DEF Enter, GetStates
  <2> DEFINE c == IF Again THEN [cfg EXCEPT !.run = FALSE, !.air = FALSE] ELSE cfg
             s == IF Again THEN CancelMonitoring ELSE sent
             m == dev.recon = "omci" /\ dev.state = "sync"
             x == IF err THEN <<>> ELSE <<Request("reset", 0)>>
  <2>2. e = [Keep EXCEPT !.dev = Restarted, !.dev.blank = TRUE, !.dev.midway = m, !.cfg = c, !.sent = s,
                         !.send = x, !.last.type = "reset", !.last.rep = 0]
    BY <2>1 DEF EnterResettingMib, Restarted, Again
  <2>4. s \in {sent, CancelMonitoring} /\ x \in {<<>>, <<Request("reset", 0)>>}
    OBVIOUS
  <2> HIDE DEF s, x, c, m, e
  <2>5. /\ e.dev = [Restarted EXCEPT !.blank = TRUE, !.midway = m] /\ e.up = up /\ e.post = {}
        /\ e.sent = s /\ e.send = x /\ e.cb = NoCb /\ e.cfg = c
        /\ e.last = [last EXCEPT !.type = "reset", !.rep = 0]
    BY <2>2, <1>k DEF Results
  <2>6. DOMAIN e.last = {"type", "me", "rep"}
    BY <2>5, <1>l
  <2>7. "reset" \in Asked(d) \ {"next"} /\ d \notin DOMAIN GetOf
    BY <1>2 DEF Asked, GetOf
  <2>8. Acts(e, d)
    BY <2>4, <2>5, <2>6, <2>7 DEF Acts
  <2>9. Leaves(e, d)
    BY <2>5, <1>2 DEF Leaves, c, m
  <2> QED BY <2>8, <2>9 DEF e
<1>3. CASE d \in GetStates
  <2>1. e = EnterGetting(d, err)
    BY <1>3 DEF Enter, GetStates
  <2>2. /\ e.sent = sent /\ e.cb = NoCb /\ e.up = up /\ e.cfg = cfg /\ e.dev = dev
        /\ DOMAIN e.last = {"type", "me", "rep"}
        /\ \/ e.send = <<>> /\ e.post = {Go("Stop")}
           \/ /\ e.send = <<Request(GetOf[d], 0)>> /\ e.post = {}
              /\ e.last.type = "get" /\ e.last.me = GetOf[d]
    BY <2>1, <1>k, <1>l DEF EnterGetting, Results
  <2>3. GetOf[d] \in Asked(d) \ {"next"}
    BY <1>3 DEF GetStates, GetOf, Asked
  <2> HIDE DEF e
  <2>4. Acts(e, d)
    BY <2>2, <2>3 DEF Acts
  <2>5. Leaves(e, d)
    BY <2>2, <1>3 DEF Leaves, GetStates
  <2> QED BY <2>4, <2>5 DEF e
<1>4. CASE d \in {"TestingExtOmciSupport", "GettingMibTemplate", "VerifyingAndStoringTPs", "ExaminingMdsSuccess"}
  <2>1. PICK at \in DOMAIN CbIn \ {"flows"} : CbIn[at] = d /\ e = Waiting(at, by)
    BY <1>4 DEF Enter, GetStates, CbIn
  <2>2. /\ e.sent = sent /\ e.send = <<>> /\ e.post = {} /\ e.cb = [at |-> at, by |-> by] /\ e.last = last
        /\ e.up = up /\ e.cfg = cfg /\ e.dev = dev
    BY <2>1, <1>k DEF Waiting, Results
  <2>3. e.cb # NoCb /\ e.cb.at = at /\ DOMAIN e.cb = {"at", "by"}
    BY <2>1, <2>2 DEF NoCb, CbIn
  <2> HIDE DEF e
  <2>4. Acts(e, d)
    BY <2>1, <2>2, <2>3, <1>l DEF Acts
  <2>5. Leaves(e, d)
    BY <2>2, <1>4 DEF Leaves
  <2> QED BY <2>4, <2>5 DEF e
<1>5. CASE d = "Uploading"
  <2>1. e = EnterUploading(err)
    BY <1>5 DEF Enter, GetStates
  <2>2. /\ e.dev = dev /\ e.sent = sent /\ e.post = {} /\ e.cb = NoCb /\ e.cfg = cfg
        /\ e.up = [up EXCEPT !.seq = 0, !.cmds = 0] /\ DOMAIN e.last = {"type", "me", "rep"}
        /\ e.send \in {<<>>, <<Request("upload", 0)>>}
    BY <2>1, <1>k, <1>l DEF EnterUploading, Results
  <2>3. "upload" \in Asked(d) \ {"next"} /\ d \notin DOMAIN GetOf
    BY <1>5 DEF Asked, GetOf
  <2> HIDE DEF e
  <2>4. Acts(e, d)
    BY <2>2, <2>3 DEF Acts
  <2>5. Leaves(e, d)
    BY <2>2, <1>5 DEF Leaves
  <2> QED BY <2>4, <2>5 DEF e
<1>6. CASE d = "UploadDone"
  <2>1. e = EnterUploadDone
    BY <1>6 DEF Enter, GetStates
  <2> DEFINE v == IF dev.state = "init" THEN [dev EXCEPT !.state = "sync", !.note = TRUE] ELSE dev
  <2>2. e = [Keep EXCEPT !.post = {Go("Success")}, !.dev = v]
    BY <2>1 DEF EnterUploadDone
  <2> HIDE DEF v
  <2>3. /\ e.dev = v /\ e.sent = sent /\ e.post = {Go("Success")} /\ e.cb = NoCb /\ e.cfg = cfg
        /\ e.up = up /\ e.last = last /\ e.send = <<>>
    BY <2>2, <1>k DEF Results
  <2> HIDE DEF e
  <2>4. Acts(e, d)
    BY <2>3, <1>l, <1>6 DEF Acts
  <2>5. Leaves(e, d)
    BY <2>3, <1>6 DEF Leaves, v
  <2> QED BY <2>4, <2>5 DEF e
<1>7. CASE d = "InSync"
  <2>1. e = EnterInSync
    BY <1>7 DEF Enter, GetStates
  <2>2. /\ e.sent = sent /\ e.send = <<>> /\ e.post = {} /\ e.cb = NoCb /\ e.last = last
        /\ e.up = up /\ e.cfg = cfg /\ e.dev = [dev EXCEPT !.synced = TRUE]
    BY <2>1, <1>k DEF EnterInSync, Results
  <2> HIDE DEF e
  <2>3. Acts(e, d)
    BY <2>2, <1>l DEF Acts
  <2>4. Leaves(e, d)
    BY <2>2, <1>7 DEF Leaves
  <2> QED BY <2>3, <2>4 DEF e
<1>8. CASE d = "ExaminingMds"
  <2>1. e = EnterExaminingMds(err)
    BY <1>8 DEF Enter, GetStates
  <2>2. CASE SkipConfig
    <3>1. /\ e.sent = sent /\ e.send = <<>> /\ e.post = {Go("Success")} /\ e.cb = NoCb /\ e.last = last
          /\ e.up = up /\ e.cfg = cfg /\ e.dev = dev
      BY <2>1, <2>2, <1>k DEF EnterExaminingMds, Results
    <3> HIDE DEF e
    <3>2. Acts(e, d)
      BY <3>1, <1>8, <1>l DEF Acts
    <3>3. Leaves(e, d)
      BY <3>1, <1>8 DEF Leaves
    <3> QED BY <3>2, <3>3 DEF e
  <2>3. CASE ~SkipConfig
    <3>1. e = RequestMdsValue(d, err)
      BY <2>1, <2>3, <1>8 DEF EnterExaminingMds
    <3> HIDE DEF e
    <3>2. Acts(e, d)
      BY <3>1, <1>8, <1>m, <1>a DEF Acts
    <3>3. Leaves(e, d)
      BY <3>1, <1>8, <1>m DEF Leaves
    <3> QED BY <3>2, <3>3 DEF e
  <2> QED BY <2>2, <2>3
<1>9. CASE d \in {"Auditing", "ReAuditing"}
  <2>1. e = EnterAuditing(d, err)
    BY <1>9 DEF Enter, GetStates
  <2>2. CASE CheckAuditStartCondition
    <3> DEFINE q == RequestMdsValue(d, err)
    <3>1. e = [q EXCEPT !.dev.touched = FALSE] /\ ~cfg.run
      BY <2>1, <2>2 DEF EnterAuditing, CheckAuditStartCondition
    <3>2. /\ DOMAIN q = Results /\ q.cb = NoCb /\ q.sent = sent /\ q.up = up /\ q.dev = dev
          /\ q.cfg = cfg /\ DOMAIN q.last = {"type", "me", "rep"}
          /\ \/ q.send = <<>> /\ q.post = {Go("Stop")}
             \/ q.send = <<Request("mds", 0)>> /\ q.post = {} /\ q.last.type = "get" /\ q.last.me = "mds"
      BY <1>m
    <3> HIDE DEF q, e
    <3>3. /\ e.cb = NoCb /\ e.sent = sent /\ e.up = up /\ e.dev = [dev EXCEPT !.touched = FALSE]
          /\ e.cfg = cfg /\ e.last = q.last /\ e.send = q.send /\ e.post = q.post
      BY <3>1, <3>2 DEF Results
    <3>4. Acts(e, d)
      BY <3>2, <3>3, <1>9, <1>a DEF Acts
    <3>5. Leaves(e, d)
      BY <3>1, <3>3, <1>9 DEF Leaves
    <3> QED BY <3>4, <3>5 DEF e
  <2>3. CASE ~CheckAuditStartCondition
    <3>1. /\ e.sent = sent /\ e.send = <<>> /\ e.post = {Go("Success")} /\ e.cb = NoCb /\ e.last = last
          /\ e.up = up /\ e.cfg = cfg /\ e.dev = dev
      BY <2>1, <2>3, <1>k DEF EnterAuditing, Results
    <3> HIDE DEF e
    <3>2. Acts(e, d)
      BY <3>1, <1>9, <1>l DEF Acts
    <3>3. Leaves(e, d)
      BY <3>1, <1>9 DEF Leaves
    <3> QED BY <3>2, <3>3 DEF e
  <2> QED BY <2>2, <2>3
<1> QED BY <1>1, <1>2, <1>3, <1>4, <1>5, <1>6, <1>7, <1>8, <1>9 DEF States, Stoppable

-----------------------------------------------------------------------------
(* The steps of the FSM and the other steps.                               *)

\* The step is that of the callback e of the new state, the events of base
\* being left.
Does(e, base) ==
  /\ Acts(e, ul') /\ Leaves(e, ul')
  /\ cb' = e.cb /\ pend' = base \cup e.post /\ sent' = e.sent \o e.send
  /\ last' = e.last /\ up' = e.up /\ dev' = e.dev /\ cfg' = e.cfg

\* An event that is taken, other than one that leads to Starting.
LEMMA Taken ==
  ASSUME Shape, Frame, NEW ev \in Events, NEW by, NEW base, NEW err \in BOOLEAN,
         Transition(ev, by, base, err), ul \in DOMAIN Table[ev], Table[ev][ul] # "Starting"
  PROVE  /\ ul' = Table[ev][ul] /\ ul' \in States
         /\ \E e : Does(e, base)
<1> DEFINE d == Table[ev][ul]
           e == Enter(d, by, err)
<1>1. /\ ul' = d /\ cb' = e.cb /\ pend' = base \cup e.post /\ sent' = e.sent \o e.send
      /\ last' = e.last /\ up' = e.up /\ dev' = e.dev /\ cfg' = e.cfg
  BY DEF Transition
<1>2. d \in States \ {"Starting"}
  BY EventNames
<1> HIDE DEF d
<1>3. Acts(e, d) /\ Leaves(e, d)
  BY <1>2, Entered
<1>4. Does(e, base)
  BY <1>1, <1>3 DEF Does
<1> HIDE DEF e
<1> QED BY <1>1, <1>2, <1>4 DEF d

\* One that leads to Starting.
LEMMA Begun ==
  ASSUME Shape, Frame, NEW ev \in Events, NEW by, NEW base, NEW err \in BOOLEAN,
         Transition(ev, by, base, err), ul \in DOMAIN Table[ev], Table[ev][ul] = "Starting"
  PROVE  /\ ul' = "Starting" /\ cb' = NoCb /\ pend' = base /\ sent' = sent /\ last' = last
         /\ up' = [up EXCEPT !.db = "none", !.got = {}] /\ cfg' = cfg
         /\ \E c \in BOOLEAN : /\ c <=> NothingLeft
                               /\ dev' = [dev EXCEPT !.raise = TRUE, !.panic = FALSE, !.clean = c]
<1> DEFINE e == Enter("Starting", by, err)
           c == NothingLeft
<1>1. /\ ul' = "Starting" /\ cb' = e.cb /\ pend' = base \cup e.post /\ sent' = e.sent \o e.send
      /\ last' = e.last /\ up' = e.up /\ dev' = e.dev /\ cfg' = e.cfg
  BY DEF Transition
<1>2. e = [Keep EXCEPT !.dev.raise = TRUE, !.new = 1, !.up.db = "none", !.up.got = {},
                       !.dev.panic = FALSE, !.dev.clean = c]
  BY DEF Enter, GetStates, EnterStarting
<1>3. c \in BOOLEAN
  BY DEF NothingLeft
<1> HIDE DEF c
<1>4. /\ e.cb = NoCb /\ e.sent = sent /\ e.send = <<>> /\ e.post = {} /\ e.last = last /\ e.cfg = cfg
      /\ e.up = [up EXCEPT !.db = "none", !.got = {}]
      /\ e.dev = [dev EXCEPT !.raise = TRUE, !.panic = FALSE, !.clean = c]
  <2>1. /\ DOMAIN Keep = Results /\ Keep.cb = NoCb /\ Keep.post = {} /\ Keep.send = <<>>
        /\ Keep.sent = sent /\ Keep.last = last /\ Keep.up = up /\ Keep.dev = dev /\ Keep.cfg = cfg
    BY DEF Keep, Results
  <2> QED BY <1>2, <2>1 DEF Results
<1> HIDE DEF e
<1>5. sent' = sent
  <2>1. sent' = sent \o <<>>
    BY <1>1, <1>4
  <2> QED BY <2>1 DEF Shape
<1>6. /\ ul' = "Starting" /\ cb' = NoCb /\ pend' = base /\ last' = last
      /\ up' = [up EXCEPT !.db = "none", !.got = {}] /\ cfg' = cfg
      /\ dev' = [dev EXCEPT !.raise = TRUE, !.panic = FALSE, !.clean = c]
  BY <1>1, <1>4
<1> QED BY <1>3, <1>5, <1>6 DEF c

\* The steps in which the FSM takes no event.
Stays ==
  \/ Callbacks \/ Processor \/ Timers \/ Requests \/ Configuration \/ OnuDiverges \/ OnuDown
  \/ ProcessMibDatabaseSync \/ ReconcilingEnds \/ CancelAborts \/ UpdateInterface
  \/ (OnuUp /\ ul # "Disabled") \/ UNCHANGED vars

\* Every step is one of these, or the FSM is given an event, or an answer is
\* repeated.
LEMMA StepsOf ==
  ASSUME [Next]_vars
  PROVE  Stays \/ Fire \/ FirstEvent \/ CancelStopsFsm \/ (OnuUp /\ ul = "Disabled") \/ OnuRepeats
BY DEF Next, Stays, DeviceHandler

\* They leave the FSM in its state.
LEMMA StaysPut ==
  ASSUME Shape, Stays
  PROVE  ul' = ul /\ dev'.clean = dev.clean /\ dev'.midway = dev.midway
<1>s. DOMAIN dev = DevMembers
  BY DEF Shape
<1>1. CASE Callbacks
  <2>1. ul' = ul
    BY <1>1 DEF Callbacks, TestingEnds, TemplateSearched, TPsVerified, RestoreFails,
                RestoreEndsWithoutFlows, RestoreTPs, FlowsReconciled
  <2>2. \/ dev' = dev
        \/ \E v : dev' = [dev EXCEPT !.recon = v, !.ready = TRUE]
        \/ dev' = [dev EXCEPT !.recon = "no", !.service = TRUE]
        \/ dev' = [dev EXCEPT !.recon = "no"]
    BY <1>1 DEF Callbacks, TestingEnds, TemplateSearched, TPsVerified, RestoreFails,
                RestoreEndsWithoutFlows, RestoreTPs, FlowsReconciled
  <2> QED BY <1>s, <2>1, <2>2 DEF DevMembers
<1>2. CASE Processor
  <2>1. ul' = ul
    BY <1>2 DEF Processor, ProcStarts, RxSignalEnds, HandleTestMsg, HandleMibResetResponse,
                HandleMibUploadResponse, HandleMibUploadNextResponse, HandleGetResponse
  <2>2. dev' = dev \/ \E v : dev' = [dev EXCEPT !.panic = v]
    BY <1>2 DEF Processor, ProcStarts, RxSignalEnds, HandleTestMsg, HandleMibResetResponse,
                HandleMibUploadResponse, HandleMibUploadNextResponse, HandleGetResponse
  <2> QED BY <1>s, <2>1, <2>2 DEF DevMembers
<1>3. CASE Timers
  BY <1>3 DEF Timers, FlowExpiry, AuditTimer
<1>4. CASE Requests
  <2>1. ul' = ul
    BY <1>4 DEF Requests, OnuAnswers, Deliver, RequestTimeout, RequestLost
  <2>2. dev' = dev \/ dev' = [dev EXCEPT !.intact = TRUE]
    BY <1>4 DEF Requests, OnuAnswers, Deliver, RequestTimeout, RequestLost
  <2> QED BY <1>s, <2>1, <2>2 DEF DevMembers
<1>5. CASE Configuration \/ OnuDiverges
  <2>1. ul' = ul
    BY <1>5 DEF Configuration, ConfigStarts, OnuExecutes, ConfigResponse, ConfigEnds, OnuDiverges
  <2>2. \/ dev' = dev \/ dev' = [dev EXCEPT !.touched = TRUE] \/ dev' = [dev EXCEPT !.service = TRUE]
        \/ dev' = [dev EXCEPT !.intact = FALSE]
    BY <1>5 DEF Configuration, ConfigStarts, OnuExecutes, ConfigResponse, ConfigEnds, OnuDiverges
  <2> QED BY <1>s, <2>1, <2>2 DEF DevMembers
<1>6. CASE OnuDown
  BY <1>6, <1>s DEF OnuDown, DevMembers
<1>7. CASE ProcessMibDatabaseSync
  BY <1>7, <1>s DEF ProcessMibDatabaseSync, DevMembers
<1>8. CASE ReconcilingEnds
  BY <1>8, <1>s DEF ReconcilingEnds, DevMembers
<1>9. CASE CancelAborts \/ (OnuUp /\ ul # "Disabled") \/ UNCHANGED vars
  BY <1>9 DEF CancelAborts, OnuUp, vars
<1>10. CASE UpdateInterface
  BY <1>10, <1>s DEF UpdateInterface, DevMembers
<1> QED BY <1>1, <1>2, <1>3, <1>4, <1>5, <1>6, <1>7, <1>8, <1>9, <1>10 DEF Stays

\* The adapter and the ONU count in the same way.
LEMMA SameIncrement ==
  ASSUME NEW v \in 0 .. MdsMax
  PROVE  /\ IncrementMds(v) = OnuIncrementMds(v)
         /\ IncrementMds(v) \in 0 .. MdsMax
<1>1. MdsMax \in Nat \ {0}
  BY MibSyncAssumption
<1>2. CASE v < MdsMax
  <2>1. v % MdsMax = v
    BY <1>1, <1>2
  <2> QED BY <1>1, <1>2, <2>1 DEF IncrementMds, OnuIncrementMds
<1>3. CASE v = MdsMax
  <2>1. v % MdsMax = 0
    BY <1>1, <1>3
  <2> QED BY <1>1, <1>3, <2>1 DEF IncrementMds, OnuIncrementMds
<1> QED BY <1>1, <1>2, <1>3

\* The shape in the beginning.
LEMMA FrameInit ==
  ASSUME Init
  PROVE  Frame
<1>1. /\ cb = NoCb /\ last = [type |-> "none", me |-> "none", rep |-> 0]
      /\ cfg = [run |-> FALSE, air |-> FALSE, n |-> 0]
  BY DEF Init
<1>2. dev.state \in {"init", "sync"} /\ dev.recon \in {"no", "omci", "skip"}
  BY DEF Init
<1>3. mds.adpt \in 0 .. MdsMax /\ mds.onu \in 0 .. MdsMax
  BY MibSyncAssumption DEF Init
<1> QED BY <1>1, <1>2, <1>3 DEF Frame

\* An event keeps this.
LEMMA TransitionFrame ==
  ASSUME Shape, Frame, NEW ev \in Events, NEW by, NEW base, NEW err \in BOOLEAN,
         Transition(ev, by, base, err), mds' = mds
  PROVE  Frame'
<1>s. DOMAIN dev = DevMembers
  BY DEF Shape
<1>1. CASE ul \notin DOMAIN Table[ev]
  <2>1. UNCHANGED <<ul, cb, last, cfg, dev>>
    BY <1>1 DEF Transition
  <2> QED BY <2>1 DEF Frame
<1>2. CASE ul \in DOMAIN Table[ev] /\ Table[ev][ul] = "Starting"
  <2>1. cb' = NoCb /\ last' = last /\ cfg' = cfg
    BY <1>2, Begun
  <2>2. \E c \in BOOLEAN : dev' = [dev EXCEPT !.raise = TRUE, !.panic = FALSE, !.clean = c]
    BY <1>2, Begun
  <2>3. dev'.state = dev.state /\ dev'.recon = dev.recon
    BY <2>2, <1>s DEF DevMembers
  <2> QED BY <2>1, <2>3 DEF Frame
<1>3. CASE ul \in DOMAIN Table[ev] /\ Table[ev][ul] # "Starting"
  <2>0. PICK e : Does(e, base)
    BY <1>3, Taken
  <2>1. /\ Acts(e, ul') /\ Leaves(e, ul')
        /\ cb' = e.cb /\ last' = e.last /\ dev' = e.dev /\ cfg' = e.cfg
    BY <2>0 DEF Does
  <2>d. ul' \in States
    BY <1>3, Taken
  <2>2. cb' # NoCb => cb'.at \in DOMAIN CbIn /\ ul' = CbIn[cb'.at]
    BY <2>1 DEF Acts
  <2>3. DOMAIN last' = {"type", "me", "rep"}
    BY <2>1 DEF Acts
  <2>4. DOMAIN cfg' = {"run", "air", "n"}
    <3>1. cfg' = cfg \/ cfg' = [cfg EXCEPT !.run = FALSE, !.air = FALSE]
      BY <2>1 DEF Leaves
    <3> QED BY <3>1 DEF Frame
  <2>5. dev'.state \in {"init", "sync"} /\ dev'.recon \in {"no", "omci", "skip"}
    <3>1. CASE ul' = "ResettingMib"
      <4>1. Restarted.state \in {"init", "sync"} /\ Restarted.recon \in {"no", "omci", "skip"} /\ DOMAIN Restarted = DevMembers
        BY <1>s DEF Restarted, StartReconciling, DevMembers, Frame
      <4>2. \E m : dev' = [Restarted EXCEPT !.blank = TRUE, !.midway = m]
        BY <2>1, <3>1 DEF Leaves
      <4> QED BY <4>1, <4>2 DEF DevMembers
    <3>2. CASE ul' # "ResettingMib"
      <4>1. \/ dev' = dev \/ dev' = [dev EXCEPT !.raise = FALSE] \/ dev' = [dev EXCEPT !.state = "sync", !.note = TRUE]
            \/ dev' = [dev EXCEPT !.synced = TRUE] \/ dev' = [dev EXCEPT !.touched = FALSE]
        <5>1. ul' # "Starting"
          BY <1>3, Taken
        <5> QED BY <2>1, <3>2, <5>1 DEF Leaves
      <4> QED BY <4>1, <1>s DEF DevMembers, Frame
    <3> QED BY <3>1, <3>2
  <2> QED BY <2>2, <2>3, <2>4, <2>5 DEF Frame
<1> QED BY <1>1, <1>2, <1>3

\* The other steps keep it.
LEMMA StaysFrame ==
  ASSUME Shape, Frame, Stays
  PROVE  Frame'
<1>s. /\ DOMAIN dev = DevMembers /\ DOMAIN mds = {"adpt", "onu"} /\ DOMAIN last = {"type", "me", "rep"}
      /\ DOMAIN cfg = {"run", "air", "n"} /\ ul' = ul
  BY StaysPut DEF Shape, Frame
<1>p. StartReconciling(TRUE) = "skip" /\ MdsMax \in Nat
  BY MibSyncAssumption DEF StartReconciling
<1>1. CASE TestingEnds \/ TemplateSearched \/ TPsVerified \/ RestoreFails
  BY <1>1, <1>s DEF TestingEnds, TemplateSearched, TPsVerified, RestoreFails, CallbackEnds, Frame
<1>2. CASE RestoreEndsWithoutFlows
  <2>1. /\ cb' = NoCb /\ dev' = [dev EXCEPT !.recon = "no", !.ready = TRUE]
        /\ UNCHANGED <<last, mds, cfg>>
    BY <1>2 DEF RestoreEndsWithoutFlows, CallbackEnds
  <2> QED BY <2>1, <1>s DEF DevMembers, Frame
<1>3. CASE RestoreTPs
  <2>1. /\ cb.at = "restore" /\ cb' = [cb EXCEPT !.at = "flows"]
        /\ dev' = [dev EXCEPT !.recon = "skip", !.ready = TRUE]
        /\ UNCHANGED <<last, mds, cfg>>
    BY <1>3, <1>p DEF RestoreTPs
  <2>2. dev'.state = dev.state /\ dev'.recon = "skip"
    BY <2>1, <1>s DEF DevMembers
  <2>3. ul = "ExaminingMdsSuccess"
    BY <2>1 DEF Frame, CbIn, NoCb
  <2>4. cb' # NoCb => cb'.at \in DOMAIN CbIn /\ ul' = CbIn[cb'.at]
    <3>1. cb'.at = "flows" \/ cb' = cb
      BY <2>1
    <3> QED BY <3>1, <2>3, <1>s DEF CbIn, Frame
  <2> QED BY <2>1, <2>2, <2>4 DEF Frame
<1>4. CASE FlowsReconciled
  <2>1. /\ cb' = NoCb /\ UNCHANGED <<last, mds, cfg>>
        /\ \/ dev' = [dev EXCEPT !.recon = "no", !.service = TRUE]
           \/ dev' = [dev EXCEPT !.recon = "no"]
    BY <1>4 DEF FlowsReconciled, CallbackEnds
  <2> QED BY <2>1, <1>s DEF DevMembers, Frame
<1>5. CASE ProcStarts \/ RxSignalEnds \/ HandleTestMsg \/ Timers
  BY <1>5, <1>s DEF ProcStarts, RxSignalEnds, HandleTestMsg, Timers, FlowExpiry, AuditTimer, Frame
<1>6. CASE HandleMibResetResponse
  <2>1. /\ UNCHANGED <<cb, cfg, dev>>
        /\ last' = last \/ last' = [last EXCEPT !.rep = 1]
        /\ mds' = mds \/ mds' = [mds EXCEPT !.adpt = 0]
    BY <1>6 DEF HandleMibResetResponse
  <2> QED BY <2>1, <1>s, <1>p DEF Frame
<1>7. CASE HandleMibUploadResponse
  <2>1. /\ UNCHANGED <<cb, cfg, dev, mds>>
        /\ last' = last \/ last' = [last EXCEPT !.type = "next"]
    BY <1>7 DEF HandleMibUploadResponse, SendMibUploadNext
  <2> QED BY <2>1, <1>s DEF Frame
<1>8. CASE HandleMibUploadNextResponse
  <2>1. /\ UNCHANGED <<cb, cfg, mds>>
        /\ last' = last \/ last' = [last EXCEPT !.type = "next"]
        /\ dev' = dev \/ \E v : dev' = [dev EXCEPT !.panic = v]
    BY <1>8 DEF HandleMibUploadNextResponse, SendMibUploadNext
  <2> QED BY <2>1, <1>s DEF Frame, DevMembers
<1>9. CASE HandleGetResponse
  <2>1. /\ UNCHANGED <<cb, cfg, dev, mds>>
        /\ last' = last \/ last' = [last EXCEPT !.rep = 1]
    BY <1>9 DEF HandleGetResponse
  <2> QED BY <2>1, <1>s DEF Frame
<1>10. CASE Requests
  <2>1. /\ UNCHANGED <<cb, cfg, last>>
        /\ mds' = mds \/ mds' = [mds EXCEPT !.onu = 0]
        /\ dev' = dev \/ dev' = [dev EXCEPT !.intact = TRUE]
    BY <1>10 DEF Requests, OnuAnswers, Deliver, RequestTimeout, RequestLost
  <2> QED BY <2>1, <1>s, <1>p DEF Frame, DevMembers
<1>11. CASE ConfigStarts \/ ConfigEnds
  <2>1. /\ UNCHANGED <<cb, last, mds>>
        /\ \E b \in BOOLEAN : cfg' = [cfg EXCEPT !.run = b]
        /\ dev' = [dev EXCEPT !.touched = TRUE] \/ dev' = [dev EXCEPT !.service = TRUE]
    BY <1>11 DEF ConfigStarts, ConfigEnds
  <2> QED BY <2>1, <1>s DEF Frame, DevMembers
<1>12. CASE OnuExecutes
  <2>1. /\ UNCHANGED <<cb, last, dev>> /\ cfg' = [cfg EXCEPT !.air = TRUE, !.n = @ + 1]
        /\ mds' = [mds EXCEPT !.onu = OnuIncrementMds(@)]
    BY <1>12 DEF OnuExecutes
  <2>2. OnuIncrementMds(mds.onu) \in 0 .. MdsMax
    BY SameIncrement DEF Frame
  <2> QED BY <2>1, <2>2, <1>s DEF Frame
<1>13. CASE ConfigResponse
  <2>1. /\ UNCHANGED <<cb, last, dev>> /\ cfg' = [cfg EXCEPT !.air = FALSE]
        /\ mds' = [mds EXCEPT !.adpt = IncrementMds(@)]
    BY <1>13 DEF ConfigResponse
  <2>2. IncrementMds(mds.adpt) \in 0 .. MdsMax
    BY SameIncrement DEF Frame
  <2> QED BY <2>1, <2>2, <1>s DEF Frame
<1>14. CASE OnuDiverges
  <2>1. /\ UNCHANGED <<cb, last, cfg>> /\ dev' = [dev EXCEPT !.intact = FALSE]
        /\ \E v \in 0 .. MdsMax \ {mds.onu} : mds' = [mds EXCEPT !.onu = v]
    BY <1>14 DEF OnuDiverges
  <2> QED BY <2>1, <1>s, <1>p DEF Frame, DevMembers
<1>15. CASE OnuDown \/ CancelAborts \/ (OnuUp /\ ul # "Disabled") \/ UNCHANGED vars
  <2>1. UNCHANGED <<cb, last, cfg, mds>> /\ (dev' = dev \/ dev' = [dev EXCEPT !.raise = FALSE])
    BY <1>15 DEF OnuDown, CancelAborts, OnuUp, vars
  <2> QED BY <2>1, <1>s DEF Frame, DevMembers
<1>16. CASE ProcessMibDatabaseSync
  <2>1. /\ UNCHANGED <<cb, last, cfg, mds>>
        /\ dev' = [dev EXCEPT !.note = FALSE, !.raise = FALSE, !.ready = TRUE, !.blank = FALSE]
    BY <1>16 DEF ProcessMibDatabaseSync
  <2> QED BY <2>1, <1>s DEF Frame, DevMembers
<1>17. CASE ReconcilingEnds
  <2>1. /\ UNCHANGED <<cb, last, cfg, mds>>
        /\ dev' = [dev EXCEPT !.recon = "no", !.service = TRUE] \/ dev' = [dev EXCEPT !.recon = "no"]
    BY <1>17 DEF ReconcilingEnds
  <2> QED BY <2>1, <1>s DEF Frame, DevMembers
<1>18. CASE UpdateInterface
  <2>1. /\ UNCHANGED <<cb, last>> /\ cfg' = [cfg EXCEPT !.run = FALSE, !.air = FALSE]
        /\ mds' = [mds EXCEPT !.adpt = 0]
        /\ dev' = [dev EXCEPT !.recon = "no", !.synced = FALSE, !.state = "init", !.ready = FALSE,
                              !.service = FALSE, !.intact = FALSE]
    BY <1>18 DEF UpdateInterface
  <2>2. dev'.state = "init" /\ dev'.recon = "no"
    BY <2>1, <1>s DEF DevMembers
  <2> QED BY <2>1, <2>2, <1>s, <1>p DEF Frame
<1> QED BY <1>1, <1>2, <1>3, <1>4, <1>5, <1>6, <1>7, <1>8, <1>9, <1>10, <1>11, <1>12, <1>13, <1>14, <1>15,
           <1>16, <1>17, <1>18 DEF Stays, Callbacks, Processor, Configuration

\* Every step keeps the shape.
LEMMA FrameStep ==
  ASSUME Shape, Frame, [Next]_vars
  PROVE  Frame'
<1>1. CASE Stays
  BY <1>1, StaysFrame
<1>2. CASE Fire
  <2>1. PICK e \in pend, err \in BOOLEAN : Transition(e.ev, e.by, pend \ {e}, err)
    BY <1>2 DEF Fire
  <2>2. e.ev \in Events /\ mds' = mds
    BY <1>2 DEF Fire, Shape, Posts, PostedEvents
  <2> QED BY <2>1, <2>2, TransitionFrame
<1>3. CASE FirstEvent
  <2> DEFINE ev == IF dev.synced THEN "VerifyAndStoreTPs" ELSE "ResetMib"
  <2>1. PICK err \in BOOLEAN : Transition(ev, "dh", pend, err)
    BY <1>3 DEF FirstEvent
  <2>2. ev \in Events /\ mds' = mds
    BY <1>3, EventNames DEF FirstEvent
  <2> QED BY <2>1, <2>2, TransitionFrame
<1>4. CASE CancelStopsFsm
  <2>1. Transition("Stop", "dh", pend, FALSE) /\ mds' = mds /\ "Stop" \in Events
    BY <1>4, EventNames DEF CancelStopsFsm
  <2> QED BY <2>1, TransitionFrame
<1>5. CASE OnuUp /\ ul = "Disabled"
  <2>1. Transition("Start", "dh", pend, FALSE) /\ mds' = mds /\ "Start" \in Events
    BY <1>5, EventNames DEF OnuUp
  <2> QED BY <2>1, TransitionFrame
<1>6. CASE OnuRepeats
  <2>1. /\ UNCHANGED <<ul, cb, last, cfg>> /\ (mds' = mds \/ mds' = [mds EXCEPT !.onu = 0])
        /\ \E i : dev' = [dev EXCEPT !.intact = i, !.clean = FALSE]
    BY <1>6, Repeated
  <2>2. dev'.state = dev.state /\ dev'.recon = dev.recon
    BY <2>1 DEF Shape, DevMembers
  <2>3. mds'.adpt \in 0 .. MdsMax /\ mds'.onu \in 0 .. MdsMax
    BY <2>1, MibSyncAssumption DEF Shape, Frame
  <2> QED BY <2>1, <2>2, <2>3 DEF Frame
<1> QED BY <1>1, <1>2, <1>3, <1>4, <1>5, <1>6, StepsOf

-----------------------------------------------------------------------------
(* One request, one event or one callback.                                 *)

\* At most one request or answer, and it is the one of the state.
Token ==
  \A r \in Tokens : \/ Absent(r)
                    \/ Single(r) /\ r \in Asked(ul) /\ \A q \in Tokens \ {r} : Absent(q)
\* At most one event that takes the run further, and then nothing is asked.
OneEvent ==
  /\ \A e, f \in pend : e.ev \in Progress /\ f.ev \in Progress => e = f
  /\ \A e \in pend : e.ev \in Progress => e.ev \in Ahead(ul) /\ Clear
\* A callback that waits is the only thing, but for the event of the flows.
OneCallback ==
  cb # NoCb =>
    /\ Clear
    /\ Idle \/ (cb.at = "flows" /\ ~flow)
    /\ cb.at = "restore" => ~flow
\* So is the goroutine that waits for flows.
FlowsWait == flow => ul = "ExaminingMdsSuccess" /\ Idle
\* The ME of the last get request is the one the state asks for.
LastGet == ul \in DOMAIN GetOf /\ ~Clear => last.type = "get" /\ last.me = GetOf[ul]

OneThing == Token /\ OneEvent /\ OneCallback /\ FlowsWait /\ LastGet

\* A run starts with none of them.
NoThing == Idle /\ ~flow

\* At the start of a clean run and in it.
Wire ==
  /\ dev.clean /\ ul = "Starting" /\ dh = "started" => NoThing
  /\ Live => OneThing

-----------------------------------------------------------------------------
\* A step that adds nothing keeps this.
LEMMA ThingKept ==
  ASSUME OneThing, ul' = ul, \A r \in Tokens : Kept(r), cb' = cb \/ cb' = NoCb,
         flow' = flow \/ ~flow', \A x \in pend' : x.ev \in Progress => x \in pend, last' = last
  PROVE  OneThing'
<1>1. Clear => Clear'
  BY DEF Clear, Kept
<1>2. Idle => Idle'
  BY DEF Idle
<1>3. Token'
  BY DEF OneThing, Token, Kept
<1>4. OneEvent'
  BY <1>1 DEF OneThing, OneEvent
<1>5. OneCallback'
  BY <1>1, <1>2 DEF OneThing, OneCallback
<1>6. FlowsWait'
  BY <1>2 DEF OneThing, FlowsWait
<1>7. LastGet'
  BY <1>1 DEF OneThing, LastGet
<1> QED BY <1>3, <1>4, <1>5, <1>6, <1>7 DEF OneThing

\* An event takes the place of what was there.
LEMMA ThingPosted ==
  ASSUME ul' = ul, Idle, Clear', ~flow', cb' = NoCb,
         NEW x, x.ev \in Ahead(ul) \cup {"Stop"}, pend' \subseteq pend \cup {x}
  PROVE  OneThing'
<1>1. \A f \in pend' : f.ev \in Progress => f = x
  BY DEF Idle
<1>2. x.ev \in Progress => x.ev \in Ahead(ul)
  BY DEF Progress
<1>3. Token'
  BY DEF Token, Clear
<1>4. OneEvent'
  BY <1>1, <1>2 DEF OneEvent
<1>5. OneCallback' /\ FlowsWait' /\ LastGet'
  BY DEF OneCallback, FlowsWait, LastGet
<1> QED BY <1>3, <1>4, <1>5 DEF OneThing

\* A request takes the place of what was there.
LEMMA ThingSent ==
  ASSUME Idle', ~flow', cb' = NoCb, NEW q \in Asked(ul'), Single(q)', \A r \in Tokens \ {q} : Absent(r)',
         ul' \in DOMAIN GetOf => last'.type = "get" /\ last'.me = GetOf[ul']
  PROVE  OneThing'
<1>1. Token'
  BY DEF Token
<1>2. OneEvent'
  BY DEF OneEvent, Idle
<1>3. OneCallback' /\ FlowsWait' /\ LastGet'
  BY DEF OneCallback, FlowsWait, LastGet
<1> QED BY <1>1, <1>2, <1>3 DEF OneThing

\* A single request in an OMCI channel that was empty.
LEMMA SingleSent ==
  ASSUME \A r \in Tokens : ~Has(r, back') /\ ~Has(r, chan'), NEW q \in Reqs, NEW n \in Nat,
         sent' = <<Request(q, n)>>
  PROVE  Single(q)' /\ \A r \in Tokens \ {q} : Absent(r)'
<1>1. Len(sent') = 1 /\ sent'[1] = Request(q, n) /\ Request(q, n).req = q
  BY DEF Request
<1>2. 1 .. Len(sent') = {1}
  BY <1>1
<1>3. \A r : (Has(r, sent') <=> r = q) /\ One(r, sent')
  BY <1>1, <1>2 DEF Has, One
<1>4. \A r \in Tokens : One(r, back') /\ One(r, chan')
  BY DEF Has, One
<1>5. q \in Tokens
  BY DEF Tokens
<1>6. Single(q)'
  BY <1>3, <1>4, <1>5 DEF Single
<1>7. \A r \in Tokens \ {q} : Absent(r)'
  BY <1>3 DEF Absent
<1> QED BY <1>6, <1>7

\* The states in which something is asked are not the one that waits for flows.
LEMMA AskedNames ==
  /\ \A s \in States : Asked(s) \subseteq Tokens
  /\ Asked("ExaminingMdsSuccess") = {} /\ Asked("InSync") = {} /\ Ahead("InSync") = {}
  /\ \A s \in {"UploadDone", "ExaminingMds", "Auditing", "ReAuditing"} : "Success" \in Ahead(s)
  /\ \A s : "reset" \in Asked(s) => s = "ResettingMib"
  /\ \A s : "upload" \in Asked(s) \/ "next" \in Asked(s) => s = "Uploading"
  /\ \A s : "templateOk" \in Asked(s) \/ "templateFailed" \in Asked(s) => s = "GettingMibTemplate"
  /\ \A s, q : q \in Asked(s) /\ q \in MEs => s \in DOMAIN GetOf /\ q = GetOf[s]
<1>1. \A s \in DOMAIN GetOf : GetOf[s] \in MEs
  BY DEF GetOf, MEs
<1>2. {"reset", "upload", "next"} \subseteq Reqs /\ MEs \subseteq Reqs
  BY DEF Reqs
<1>3. {"reset", "upload", "next", "templateOk", "templateFailed"} \cap MEs = {}
  BY DEF MEs
<1>d. /\ "ExaminingMdsSuccess" \notin DOMAIN GetOf /\ "InSync" \notin DOMAIN GetOf /\ "ResettingMib" \notin DOMAIN GetOf
      /\ "GettingMibTemplate" \notin DOMAIN GetOf /\ "Uploading" \notin DOMAIN GetOf
  BY DEF GetOf
<1>4. \A s \in States : Asked(s) \subseteq Tokens
  BY <1>1, <1>2 DEF Asked, Tokens
<1>5. Asked("ExaminingMdsSuccess") = {} /\ Asked("InSync") = {}
  BY <1>d DEF Asked
<1>6. Ahead("InSync") = {}
  BY DEF Ahead, Examining
<1>7. \A s \in {"UploadDone", "ExaminingMds", "Auditing", "ReAuditing"} : "Success" \in Ahead(s)
  BY DEF Ahead, Examining
<1>8. /\ \A s : "reset" \in Asked(s) => s = "ResettingMib"
      /\ \A s : "upload" \in Asked(s) \/ "next" \in Asked(s) => s = "Uploading"
      /\ \A s : "templateOk" \in Asked(s) \/ "templateFailed" \in Asked(s) => s = "GettingMibTemplate"
  BY <1>1, <1>3 DEF Asked
<1>9. \A s, q : q \in Asked(s) /\ q \in MEs => s \in DOMAIN GetOf /\ q = GetOf[s]
  BY <1>1, <1>3 DEF Asked
<1> QED BY <1>4, <1>5, <1>6, <1>7, <1>8, <1>9

\* A message processor takes an answer: it is the one thing there is.
LEMMA Reads ==
  ASSUME Shape, OneThing, Take, back' = back, NEW q \in Tokens, Message.req = q
  PROVE  /\ q \in Asked(ul) /\ Idle /\ ~flow /\ cb = NoCb /\ sent = <<>> /\ ~Absent(q)
         /\ \A r \in Tokens : ~Has(r, back') /\ ~Has(r, chan')
         /\ sent' = sent => Clear'
         /\ q \in MEs => last.type = "get" /\ last.me = q
<1>1. chan # <<>> /\ chan' = Tail(chan) /\ Head(chan).req = q /\ cb = NoCb
  BY DEF Take, Message
<1>2. /\ \A r : Has(r, chan) <=> Has(r, Tail(chan)) \/ Head(chan).req = r
      /\ One(q, chan) => ~(Head(chan).req = q /\ Has(q, Tail(chan)))
  BY <1>1, HasTail DEF Shape
<1>3. Has(q, chan)
  BY <1>1, <1>2
<1>4. Single(q) /\ q \in Asked(ul) /\ \A r \in Tokens \ {q} : Absent(r)
  BY <1>3 DEF OneThing, Token, Absent
<1>5. ~Clear
  BY <1>3 DEF Clear, Absent
<1>6. Idle
  BY <1>5 DEF OneThing, OneEvent, Idle
<1>7. ~flow
  BY <1>4, AskedNames DEF OneThing, FlowsWait
<1>8. \A r \in Tokens : ~Has(r, sent) /\ ~Has(r, back) /\ ~Has(r, Tail(chan))
  BY <1>1, <1>2, <1>3, <1>4 DEF Single, Absent
<1>9. sent = <<>>
  BY <1>8, ClearEmpty
<1>10. sent' = sent => Clear'
  BY <1>1, <1>8 DEF Clear, Absent
<1>11. q \in MEs => last.type = "get" /\ last.me = q
  BY <1>4, <1>5, AskedNames DEF OneThing, LastGet
<1> QED BY <1>1, <1>3, <1>4, <1>6, <1>7, <1>8, <1>9, <1>10, <1>11 DEF Absent

-----------------------------------------------------------------------------
(* What the steps do to the tokens.                                        *)

\* The steps of the channels and of the ONU add no request and no answer.
LEMMA TokensKept ==
  ASSUME Shape, OnuAnswers \/ Deliver \/ RequestTimeout \/ RequestLost \/ OnuDown \/ CancelAborts \/ RxSignalEnds,
         NEW r \in Tokens
  PROVE  Kept(r)
<1>r. r # "timeout" /\ r # "abort"
  BY DEF Tokens, Reqs, MEs
<1>g. \A v \in SignalNames : Signal(v) \in Msgs /\ Signal(v).req = v
  BY DEF Signal, SignalNames, Msgs
<1>1. CASE OnuAnswers
  <2>1. PICK a : /\ a.req = Head(sent).req /\ back' = Append(back, a) /\ a \in Msgs
    <3> DEFINE q == Head(sent)
    <3>1. q \in Sents /\ sent # <<>>
      BY <1>1 DEF OnuAnswers, Shape
    <3>2. \A v \in AnswerVals(q) : v \in Nat
      <4>1. mds.onu \in Nat /\ NCmds \in Nat /\ q.n \in Nat
        BY <3>1, MibSyncAssumption DEF Shape, Sents
      <4> QED BY <4>1 DEF AnswerVals
    <3>3. \A v \in Nat : \A res \in {"ok", "refused", "unsupported", "undecodable"} :
             [req |-> q.req, res |-> res, val |-> v] \in Msgs
      BY <3>1 DEF Msgs, Sents
    <3>4. \E v \in Nat : \E res \in {"ok", "refused", "unsupported", "undecodable"} :
             back' = Append(back, [req |-> q.req, res |-> res, val |-> v])
      BY <1>1, <3>2 DEF OnuAnswers
    <3> HIDE DEF q
    <3>5. PICK v \in Nat, res \in {"ok", "refused", "unsupported", "undecodable"} :
             back' = Append(back, [req |-> q.req, res |-> res, val |-> v])
      BY <3>4
    <3> DEFINE b == [req |-> q.req, res |-> res, val |-> v]
    <3>6. b \in Msgs /\ b.req = q.req /\ back' = Append(back, b)
      BY <3>3, <3>5
    <3> HIDE DEF b
    <3> QED BY <3>6 DEF q
  <2>2. sent # <<>> /\ sent' = Tail(sent) /\ chan' = chan
    BY <1>1 DEF OnuAnswers
  <2> QED BY <2>1, <2>2, AnswerKept
<1>2. CASE Deliver
  BY <1>2, DeliverKept DEF Deliver
<1>3. CASE RequestTimeout
  <2>1. sent # <<>> /\ sent' = [sent EXCEPT ![1].sup = FALSE] /\ back' = back
    BY <1>3 DEF RequestTimeout
  <2>2. (Has(r, sent') <=> Has(r, sent)) /\ (One(r, sent') <=> One(r, sent))
    BY <2>1, HasUnsupervised
  <2>3. chan' = chan \/ chan' = Append(chan, Signal("timeout"))
    BY <1>3 DEF RequestTimeout
  <2>4. (Has(r, chan') => Has(r, chan)) /\ (One(r, chan) => One(r, chan'))
    <3> DEFINE x == Signal("timeout")
    <3>1. x \in Msgs /\ x.req # r
      BY <1>g, <1>r DEF SignalNames
    <3> HIDE DEF x
    <3>2. /\ Has(r, Append(chan, x)) <=> Has(r, chan) \/ x.req = r
          /\ One(r, chan) /\ ~(Has(r, chan) /\ x.req = r) => One(r, Append(chan, x))
      BY <3>1, HasAppend DEF Shape
    <3> QED BY <2>3, <3>1, <3>2 DEF x
  <2> QED BY <2>1, <2>2, <2>4, NoMoreKept DEF NoMore
<1>4. CASE RequestLost
  <2>1. sent # <<>> /\ sent' = Tail(sent) /\ back' = back /\ chan' = chan
    BY <1>4 DEF RequestLost
  <2>2. (Has(r, sent') => Has(r, sent)) /\ (One(r, sent) => One(r, sent'))
    BY <2>1, HasTail DEF Shape
  <2> QED BY <2>1, <2>2, NoMoreKept DEF NoMore
<1>5. CASE OnuDown
  <2>1. sent' = CancelMonitoring /\ back' = back /\ chan' = chan
    BY <1>5 DEF OnuDown
  <2>2. (Has(r, sent') => Has(r, sent)) /\ One(r, sent')
    BY <2>1, HasMonitored
  <2> QED BY <2>1, <2>2, NoMoreKept DEF NoMore
<1>6. CASE CancelAborts
  <2>1. sent' = sent /\ back' = back /\ chan' = Append(chan, Signal("abort"))
    BY <1>6 DEF CancelAborts
  <2>2. (Has(r, chan') => Has(r, chan)) /\ (One(r, chan) => One(r, chan'))
    BY <2>1, <1>g, <1>r, HasAppend DEF Shape, SignalNames
  <2> QED BY <2>1, <2>2, NoMoreKept DEF NoMore
<1>7. CASE RxSignalEnds
  <2>1. chan # <<>> /\ chan' = Tail(chan) /\ back' = back /\ sent' = sent
    BY <1>7 DEF RxSignalEnds, Take
  <2> QED BY <2>1, TakeKept
<1> QED BY <1>1, <1>2, <1>3, <1>4, <1>5, <1>6, <1>7

-----------------------------------------------------------------------------
(* The steps of the FSM.                                                   *)

\* An event is taken when there is nothing else: the callback brings the one
\* thing of the next state.
LEMMA ThingTaken ==
  ASSUME Shape, Frame, Clear, ~flow, flow' = flow, NEW ev \in Events, NEW by, NEW base, NEW err \in BOOLEAN,
         \A x \in base : x.ev \notin Progress,
         Transition(ev, by, base, err), ul \in DOMAIN Table[ev],
         Table[ev][ul] \notin {"Disabled", "Starting"}, UNCHANGED <<chan, back>>
  PROVE  OneThing'
<1>1. PICK e : Does(e, base)
  BY Taken
<1>2. /\ Acts(e, ul') /\ cb' = e.cb /\ pend' = base \cup e.post /\ sent' = e.sent \o e.send /\ last' = e.last
  BY <1>1 DEF Does
<1>3. \A r \in Tokens : ~Has(r, sent) /\ ~Has(r, back') /\ ~Has(r, chan')
  BY DEF Clear, Absent
<1>4. sent = <<>>
  BY <1>3, ClearEmpty
<1>5. e.sent = <<>>
  BY <1>2, <1>4 DEF Acts, CancelMonitoring
<1>6. sent' = e.send
  <2>1. e.send = <<>> \/ \E q : e.send = <<Request(q, 0)>>
    BY <1>2 DEF Acts
  <2>2. <<>> \o e.send = e.send
    BY <2>1
  <2> QED BY <1>2, <1>5, <2>2
<1>7. e.send = <<>> => Clear'
  <2>1. \A r : ~Has(r, <<>>)
    BY HasEmpty
  <2> QED BY <1>3, <1>6, <2>1 DEF Clear, Absent
<1>p. Go("Stop").ev = "Stop" /\ Go("Success").ev = "Success" /\ "Stop" \notin Progress
  BY DEF Go, Progress
<1>d. ul' \in States /\ \A s \in {"UploadDone", "ExaminingMds", "Auditing", "ReAuditing"} : "Success" \in Ahead(s)
  BY Taken, AskedNames
<1>8. CASE e.send = <<>> /\ e.post \in {{}, {Go("Stop")}}
  <2>1. Idle' /\ Clear'
    BY <1>2, <1>7, <1>8, <1>p DEF Idle
  <2>2. Token' /\ OneEvent'
    BY <2>1 DEF Token, OneEvent, Clear, Idle
  <2>3. OneCallback' /\ FlowsWait' /\ LastGet'
    BY <2>1 DEF OneCallback, FlowsWait, LastGet
  <2> QED BY <2>2, <2>3 DEF OneThing
<1>9. CASE e.post = {Go("Success")}
  <2>1. e.send = <<>> /\ cb' = NoCb /\ "Success" \in Ahead(ul')
    BY <1>2, <1>9, <1>p, <1>d DEF Acts
  <2>2. Clear' /\ \A f \in pend' : f.ev \in Progress => f = Go("Success")
    BY <1>2, <1>7, <1>9, <2>1
  <2>3. Token' /\ OneEvent'
    BY <2>1, <2>2, <1>p DEF Token, OneEvent, Clear
  <2>4. OneCallback' /\ FlowsWait' /\ LastGet'
    BY <2>1, <2>2 DEF OneCallback, FlowsWait, LastGet
  <2> QED BY <2>3, <2>4 DEF OneThing
<1>10. CASE e.send # <<>>
  <2>1. PICK q \in Asked(ul') \ {"next"} : e.send = <<Request(q, 0)>>
    BY <1>2, <1>10 DEF Acts
  <2>2. /\ e.post = {} /\ cb' = NoCb
        /\ ul' \in DOMAIN GetOf => last'.type = "get" /\ last'.me = GetOf[ul']
    BY <1>2, <1>10 DEF Acts
  <2>3. q \in Reqs
    <3>1. sent' \in Seq(Sents)
      BY TransitionEffect
    <3>2. Len(sent') = 1 /\ sent'[1] = Request(q, 0)
      BY <1>6, <2>1
    <3>3. sent'[1] \in Sents
      <4>1. \A t \in Seq(Sents) : Len(t) = 1 => t[1] \in Sents
        OBVIOUS
      <4> QED BY <3>1, <3>2, <4>1
    <3>4. Request(q, 0).req = q
      BY DEF Request
    <3> QED BY <3>2, <3>3, <3>4 DEF Sents
  <2>4. Single(q)' /\ \A r \in Tokens \ {q} : Absent(r)'
    BY <1>3, <1>6, <2>1, <2>3, SingleSent
  <2>5. Idle'
    BY <1>2, <2>2 DEF Idle
  <2> QED BY <2>1, <2>2, <2>4, <2>5, ThingSent
<1> QED BY <1>2, <1>8, <1>9, <1>10 DEF Acts

\* An event is rejected.
LEMMA Rejected ==
  ASSUME NEW ev, NEW by, NEW base, base \subseteq pend, NEW err \in BOOLEAN,
         Transition(ev, by, base, err), ul \notin DOMAIN Table[ev], UNCHANGED <<chan, back, flow>>, OneThing
  PROVE  OneThing'
<1>1. UNCHANGED <<ul, cb, sent, last>> /\ pend' = base
  BY DEF Transition
<1>2. \A r \in Tokens : Kept(r)
  BY <1>1 DEF Kept, Absent, Single
<1> QED BY <1>1, <1>2, ThingKept

\* A goroutine's event in a live run is the one thing there is, or it ends the
\* run, or it begins an audit.
LEMMA Fired ==
  ASSUME Shape, OneThing, NEW e \in pend, ul \in DOMAIN Table[e.ev],
         Table[e.ev][ul] \notin {"Disabled", "Starting"}
  PROVE  Clear /\ ~flow /\ \A x \in pend \ {e} : x.ev \notin Progress
<1>1. e.ev \in Events
  BY DEF Shape, Posts, PostedEvents
<1>2. CASE e.ev \in Progress
  <2>1. Clear /\ \A x \in pend \ {e} : x.ev \notin Progress
    BY <1>2 DEF OneThing, OneEvent
  <2> QED BY <1>2, <2>1 DEF OneThing, FlowsWait, Idle
<1>3. CASE e.ev = "AuditMib"
  <2>1. ul = "InSync"
    BY <1>3 DEF Table
  <2>2. Clear /\ Idle
    BY <2>1, AskedNames DEF OneThing, Token, OneEvent, Clear, Idle
  <2> QED BY <2>1, <2>2 DEF OneThing, FlowsWait, Idle
<1>4. CASE e.ev = "Stop"
  BY <1>4 DEF Table
<1> QED BY <1>1, <1>2, <1>3, <1>4 DEF Progress

\* A goroutine fires its event.
LEMMA WireFire ==
  ASSUME ImageInv, Frame, Wire, Fire
  PROVE  Wire'
<1>1. PICK e \in pend, err \in BOOLEAN : Transition(e.ev, e.by, pend \ {e}, err)
  BY DEF Fire
<1>2. UNCHANGED <<chan, back, img, mds, dh, flow>>
  BY DEF Fire
<1>3. e.ev \in PostedEvents /\ e.ev \in Events /\ Shape
  BY DEF ImageInv, Shape, Posts, PostedEvents
<1>4. CASE ul \notin DOMAIN Table[e.ev]
  <2>1. UNCHANGED <<ul, dev>> /\ pend' \subseteq pend
    BY <1>1, <1>4 DEF Transition
  <2>2. Live' => OneThing'
    BY <1>1, <1>2, <1>4, <2>1, Rejected DEF Wire, Live
  <2> QED BY <1>2, <2>1, <2>2 DEF Wire, NoThing, Idle
<1>5. CASE ul \in DOMAIN Table[e.ev] /\ Table[e.ev][ul] \in {"Disabled", "Starting"}
  <2>1. ul' = Table[e.ev][ul]
    BY <1>1, <1>3, <1>5, TransitionEffect
  <2>2. dh = "started" => ul' # "Starting"
    BY <1>3, <1>5, <2>1, Moves DEF ImageInv, FreshStart, PostedEvents
  <2> QED BY <1>2, <1>5, <2>1, <2>2 DEF Wire, Live
<1>6. CASE ul \in DOMAIN Table[e.ev] /\ Table[e.ev][ul] \notin {"Disabled", "Starting"}
  <2>1. ul' = Table[e.ev][ul] /\ dev'.clean = dev.clean
    BY <1>1, <1>3, <1>6, TransitionEffect
  <2>2. ul \notin {"Disabled", "Starting"}
    BY <1>3, <1>6, Moves DEF PostedEvents
  <2>3. SUFFICES ASSUME dev.clean PROVE OneThing'
    BY <1>6, <2>1 DEF Wire, Live
  <2>4. OneThing
    BY <2>2, <2>3 DEF Wire, Live
  <2>5. Clear /\ ~flow /\ \A x \in pend \ {e} : x.ev \notin Progress
    BY <1>3, <1>6, <2>4, Fired
  <2> QED BY <1>1, <1>2, <1>3, <1>6, <2>5, ThingTaken
<1> QED BY <1>4, <1>5, <1>6

\* The device handler fires the first event of a run.
LEMMA WireFirst ==
  ASSUME ImageInv, Frame, Wire, FirstEvent
  PROVE  Wire'
<1> DEFINE ev == IF dev.synced THEN "VerifyAndStoreTPs" ELSE "ResetMib"
<1>1. PICK err \in BOOLEAN : Transition(ev, "dh", pend, err)
  BY DEF FirstEvent
<1>2. dh = "started" /\ dh' \in {"up", "verify"} /\ UNCHANGED <<chan, back, img, mds, flow>>
  BY DEF FirstEvent
<1>3. ev \in Events /\ ev \in {"VerifyAndStoreTPs", "ResetMib"} /\ Shape
  BY EventNames DEF ImageInv
<1>4. \A v \in {"VerifyAndStoreTPs", "ResetMib"} :
        DOMAIN Table[v] = {"Starting"} /\ Table[v]["Starting"] \notin {"Disabled", "Starting"}
  BY DEF Table
<1> HIDE DEF ev
<1>5. SUFFICES ASSUME Live' PROVE OneThing'
  BY <1>2 DEF Wire
<1>6. CASE ul = "Starting"
  <2>1. ul \in DOMAIN Table[ev] /\ Table[ev][ul] \notin {"Disabled", "Starting"}
    BY <1>3, <1>4, <1>6
  <2>2. dev'.clean = dev.clean
    BY <1>1, <1>3, <2>1, TransitionEffect
  <2>3. sent = <<>> /\ back = <<>> /\ chan = <<>> /\ Idle /\ ~flow
    BY <1>2, <1>5, <1>6, <2>2 DEF ImageInv, FreshStart, Wire, NoThing, Live
  <2>4. Clear
    BY <2>3, HasEmpty DEF Clear, Absent
  <2> QED BY <1>1, <1>2, <1>3, <2>1, <2>3, <2>4, ThingTaken DEF Idle
<1>7. CASE ul = "Disabled"
  <2>1. ul \notin DOMAIN Table[ev]
    BY <1>3, <1>4, <1>7
  <2>2. ul' = ul
    BY <1>1, <2>1 DEF Transition
  <2> QED BY <1>5, <1>7, <2>2 DEF Live
<1> QED BY <1>2, <1>6, <1>7 DEF ImageInv, FreshStart

\* CancelProcessing fires the stop event.
LEMMA WireCancel ==
  ASSUME ImageInv, Frame, Wire, CancelStopsFsm
  PROVE  Wire'
<1>1. Transition("Stop", "dh", pend, FALSE) /\ UNCHANGED <<chan, back, img, mds, flow>> /\ dh' = "clear"
  BY DEF CancelStopsFsm
<1>2. "Stop" \in Events /\ Shape
  BY EventNames DEF ImageInv
<1>3. CASE ul \in DOMAIN Table["Stop"]
  <2>1. ul' = Table["Stop"][ul]
    BY <1>1, <1>2, <1>3, TransitionEffect
  <2>2. ul' = "Disabled"
    BY <1>3, <2>1 DEF Table
  <2> QED BY <1>1, <2>2 DEF Wire, Live
<1>4. CASE ul \notin DOMAIN Table["Stop"]
  <2>1. UNCHANGED <<ul, dev>>
    BY <1>1, <1>4 DEF Transition
  <2>2. Live' => OneThing'
    BY <1>1, <1>4, <2>1, Rejected DEF Wire, Live
  <2> QED BY <1>1, <2>2 DEF Wire
<1> QED BY <1>3, <1>4

\* CheckAndStartMibUploadFsm starts the run.
LEMMA WireOnuUp ==
  ASSUME ImageInv, Frame, Wire, OnuUp, ul = "Disabled"
  PROVE  Wire'
<1>1. dh = "off" /\ pend = {} /\ flow' = flow /\ Transition("Start", "dh", pend, FALSE)
  BY DEF OnuUp, Settled
<1>2. "Start" \in Events /\ ul \in DOMAIN Table["Start"] /\ Table["Start"][ul] = "Starting" /\ Shape
  BY EventNames DEF Table, ImageInv
<1>3. ul' = "Starting" /\ pend' = pend
  BY <1>1, <1>2, Begun
<1>4. dev'.clean => ~flow'
  BY <1>1, <1>2, TransitionEffect DEF NothingLeft
<1> QED BY <1>1, <1>3, <1>4 DEF Wire, NoThing, Idle, Live

-----------------------------------------------------------------------------
(* The other steps.                                                        *)

\* A step in which the FSM takes no event need only keep the one thing.
LEMMA WireBy ==
  ASSUME Shape, Wire, Stays, OneThing => OneThing',
         dh' = "started" /\ dev.clean /\ ul = "Starting" => NoThing'
  PROVE  Wire'
<1>1. ul' = ul /\ dev'.clean = dev.clean
  BY StaysPut
<1> QED BY <1>1 DEF Wire, Live

\* The steps that add no request, no event of a run and no callback.
LEMMA WireQuiet ==
  ASSUME ImageInv, Wire, Stays,
         \/ RestoreEndsWithoutFlows \/ ProcStarts \/ AuditTimer \/ Configuration \/ OnuDiverges
         \/ ProcessMibDatabaseSync \/ ReconcilingEnds \/ UpdateInterface
         \/ (OnuUp /\ ul # "Disabled") \/ UNCHANGED vars
         \/ OnuAnswers \/ Deliver \/ RequestTimeout \/ RequestLost \/ OnuDown \/ CancelAborts \/ RxSignalEnds
  PROVE  Wire'
<1>s. Shape /\ ul' = ul
  BY StaysPut DEF ImageInv
<1>1. cb' = cb \/ cb' = NoCb
  BY DEF RestoreEndsWithoutFlows, CallbackEnds, ProcStarts, AuditTimer, Configuration, ConfigStarts,
         OnuExecutes, ConfigResponse, ConfigEnds, OnuDiverges, ProcessMibDatabaseSync, ReconcilingEnds,
         UpdateInterface, OnuUp, vars, OnuAnswers, Deliver, RequestTimeout, RequestLost, OnuDown,
         CancelAborts, RxSignalEnds
<1>2. (flow' = flow \/ ~flow') /\ last' = last
  BY DEF RestoreEndsWithoutFlows, CallbackEnds, ProcStarts, AuditTimer, Configuration, ConfigStarts,
         OnuExecutes, ConfigResponse, ConfigEnds, OnuDiverges, ProcessMibDatabaseSync, ReconcilingEnds,
         UpdateInterface, OnuUp, vars, OnuAnswers, Deliver, RequestTimeout, RequestLost, OnuDown,
         CancelAborts, RxSignalEnds
<1>3. pend' \subseteq pend \cup {Go("AuditMib"), Go("Stop")}
  BY DEF RestoreEndsWithoutFlows, CallbackEnds, ProcStarts, AuditTimer, Configuration, ConfigStarts,
         OnuExecutes, ConfigResponse, ConfigEnds, OnuDiverges, ProcessMibDatabaseSync, ReconcilingEnds,
         UpdateInterface, OnuUp, vars, OnuAnswers, Deliver, RequestTimeout, RequestLost, OnuDown,
         CancelAborts, RxSignalEnds
<1>4. dh' = "started" => dh = "started"
  BY DEF RestoreEndsWithoutFlows, CallbackEnds, ProcStarts, AuditTimer, Configuration, ConfigStarts,
         OnuExecutes, ConfigResponse, ConfigEnds, OnuDiverges, ProcessMibDatabaseSync, ReconcilingEnds,
         UpdateInterface, OnuUp, vars, OnuAnswers, Deliver, RequestTimeout, RequestLost, OnuDown,
         CancelAborts, RxSignalEnds
<1>5. \A x \in pend' : x.ev \in Progress => x \in pend
  BY <1>3 DEF Go, Progress
<1>6. \A r \in Tokens : Kept(r)
  <2>1. CASE OnuAnswers \/ Deliver \/ RequestTimeout \/ RequestLost \/ OnuDown \/ CancelAborts \/ RxSignalEnds
    BY <1>s, <2>1, TokensKept
  <2>2. CASE ~(OnuAnswers \/ Deliver \/ RequestTimeout \/ RequestLost \/ OnuDown \/ CancelAborts \/ RxSignalEnds)
    <3>1. UNCHANGED <<sent, back, chan>>
      BY <2>2 DEF RestoreEndsWithoutFlows, ProcStarts, AuditTimer, Configuration, ConfigStarts,
         OnuExecutes, ConfigResponse, ConfigEnds, OnuDiverges, ProcessMibDatabaseSync, ReconcilingEnds,
         UpdateInterface, OnuUp, vars
    <3> QED BY <3>1 DEF Kept, Absent, Single
  <2> QED BY <2>1, <2>2
<1>7. OneThing => OneThing'
  BY <1>s, <1>1, <1>2, <1>5, <1>6, ThingKept
<1>8. dh' = "started" /\ dev.clean /\ ul = "Starting" => NoThing'
  BY <1>2, <1>4, <1>5 DEF Wire, NoThing, Idle
<1> QED BY <1>s, <1>7, <1>8, WireBy

\* The steps of the callbacks and of the goroutine that waits for flows.
LEMMA WireCallbacks ==
  ASSUME ImageInv, Frame, Wire, Stays,
         \/ TestingEnds \/ TPsVerified \/ RestoreFails \/ RestoreTPs \/ FlowsReconciled \/ FlowExpiry
  PROVE  Wire'
<1>s. Shape /\ ul' = ul
  BY StaysPut DEF ImageInv
<1>a. /\ "GetFirstSwVersion" \in Ahead("TestingExtOmciSupport")
      /\ \A s \in Examining : Ahead(s) = {"Success", "Mismatch"}
  BY DEF Ahead, Examining
<1>g. \A v : Go(v).ev = v
  BY DEF Go
<1>c. \A at \in DOMAIN CbIn : cb.at = at => ul = CbIn[at] /\ cb # NoCb
  BY DEF Frame, CbIn, NoCb
<1>k. UNCHANGED <<sent, back, chan>>
  BY DEF TestingEnds, TPsVerified, RestoreFails, RestoreTPs, FlowsReconciled, FlowExpiry
<1>l. (Clear' <=> Clear) /\ last' = last
  BY <1>k DEF Clear, Absent, TestingEnds, TPsVerified, RestoreFails, RestoreTPs, FlowsReconciled, FlowExpiry
<1>1. CASE TestingEnds \/ TPsVerified \/ RestoreFails
  <2>1. /\ cb.at \in {"test", "verify", "restore"} /\ cb' = NoCb /\ flow' = flow
        /\ \/ cb.at = "test" /\ pend' = pend \cup {Go("GetFirstSwVersion")}
           \/ cb.at \in {"verify", "restore"} /\ pend' = pend \cup {Go("Success")}
           \/ cb.at \in {"verify", "restore"} /\ pend' = pend \cup {Go("Mismatch")}
    BY <1>1 DEF TestingEnds, TPsVerified, RestoreFails, CallbackEnds
  <2>2. dh' # "started"
    BY <1>1, CallbackNotStarted DEF TestingEnds, TPsVerified, RestoreFails, CallbackEnds
  <2>3. PICK x : x.ev \in Ahead(ul) /\ pend' = pend \cup {x}
    <3>1. CASE cb.at = "test"
      <4>1. ul = "TestingExtOmciSupport" /\ pend' = pend \cup {Go("GetFirstSwVersion")}
        BY <2>1, <3>1, <1>c DEF CbIn
      <4> QED BY <4>1, <1>a, <1>g
    <3>2. CASE cb.at \in {"verify", "restore"}
      <4>1. ul \in Examining
        BY <3>2, <1>c DEF CbIn, Examining
      <4> QED BY <2>1, <3>2, <4>1, <1>a, <1>g
    <3> QED BY <2>1, <3>1, <3>2
  <2>4. ASSUME OneThing PROVE OneThing'
    <3>1. cb # NoCb /\ cb.at # "flows" /\ (cb.at # "restore" => ul # "ExaminingMdsSuccess")
      BY <2>1, <1>c DEF CbIn
    <3>2. Clear /\ Idle /\ ~flow
      BY <2>1, <2>4, <3>1 DEF OneThing, OneCallback, FlowsWait
    <3> QED BY <1>s, <1>l, <2>1, <2>3, <3>2, ThingPosted
  <2> QED BY <1>s, <2>2, <2>4, WireBy
<1>2. CASE RestoreTPs
  <2>1. cb.at = "restore" /\ cb' = [cb EXCEPT !.at = "flows"] /\ pend' = pend /\ dh' = dh
    BY <1>2 DEF RestoreTPs
  <2>2. dh' # "started"
    BY <2>1, CallbackNotStarted
  <2>3. ASSUME OneThing PROVE OneThing'
    <3>1. cb # NoCb /\ ul = "ExaminingMdsSuccess"
      BY <2>1, <1>c DEF CbIn
    <3>2. Clear /\ Idle
      BY <2>1, <2>3, <3>1 DEF OneThing, OneCallback
    <3>3. Clear' /\ Idle'
      BY <1>l, <2>1, <3>2 DEF Idle
    <3>4. Token' /\ OneEvent'
      BY <3>3 DEF Token, OneEvent, Clear, Idle
    <3>6. cb'.at # "restore"
      BY <2>1
    <3> QED BY <1>s, <3>1, <3>3, <3>4, <3>6 DEF OneThing, OneCallback, FlowsWait, LastGet
  <2> QED BY <1>s, <2>2, <2>3, WireBy
<1>3. CASE FlowsReconciled
  <2>1. /\ cb.at = "flows" /\ cb' = NoCb
        /\ \/ ~flow' /\ flow /\ pend' = pend \cup {Go("Success")}
           \/ (flow' = flow \/ ~flow') /\ pend' = pend
    BY <1>3 DEF FlowsReconciled, CallbackEnds
  <2>2. dh' # "started"
    BY <1>3, CallbackNotStarted DEF FlowsReconciled, CallbackEnds
  <2>3. ASSUME OneThing PROVE OneThing'
    <3>1. cb # NoCb /\ ul = "ExaminingMdsSuccess" /\ "Success" \in Ahead(ul)
      BY <2>1, <1>c, <1>a DEF CbIn, Examining
    <3>2. CASE pend' = pend /\ (flow' = flow \/ ~flow')
      <4>1. \A r \in Tokens : Kept(r)
        BY <1>k DEF Kept, Absent, Single
      <4> QED BY <1>s, <1>l, <2>1, <2>3, <3>2, <4>1, ThingKept
    <3>3. CASE flow /\ ~flow' /\ pend' = pend \cup {Go("Success")}
      <4>1. Clear' /\ Idle
        BY <1>l, <2>3, <3>1, <3>3 DEF OneThing, OneCallback, FlowsWait
      <4> QED BY <1>s, <1>g, <2>1, <3>1, <3>3, <4>1, ThingPosted
    <3> QED BY <2>1, <3>2, <3>3
  <2> QED BY <1>s, <2>2, <2>3, WireBy
<1>4. CASE FlowExpiry
  <2>1. flow /\ ~flow' /\ pend' = pend \cup {Go("Mismatch")} /\ cb' = cb /\ dh' = dh
    BY <1>4 DEF FlowExpiry
  <2>2. dh' = "started" /\ dev.clean /\ ul = "Starting" => NoThing'
    BY <2>1 DEF Wire, NoThing
  <2>3. ASSUME OneThing PROVE OneThing'
    <3>1. ul = "ExaminingMdsSuccess" /\ Idle
      BY <2>1, <2>3 DEF OneThing, FlowsWait
    <3>2. "Mismatch" \in Ahead(ul) /\ Asked(ul) = {}
      BY <3>1, <1>a, AskedNames DEF Examining
    <3>3. Clear'
      BY <1>l, <2>3, <3>2 DEF OneThing, Token, Clear
    <3>4. \A f \in pend' : f.ev \in Progress => f = Go("Mismatch")
      BY <2>1, <3>1 DEF Idle
    <3>5. Token' /\ OneEvent'
      BY <1>s, <1>g, <3>2, <3>3, <3>4 DEF Token, OneEvent, Clear
    <3>6. OneCallback'
      <4>1. cb # NoCb => cb.at = "flows"
        <5>1. cb # NoCb => cb.at \in {"restore", "flows"}
          BY <3>1 DEF Frame, CbIn
        <5>2. cb # NoCb => cb.at # "restore"
          BY <2>1, <2>3 DEF OneThing, OneCallback
        <5> QED BY <5>1, <5>2
      <4> QED BY <2>1, <3>3, <4>1 DEF OneCallback
    <3> QED BY <2>1, <3>3, <3>5, <3>6 DEF OneThing, FlowsWait, LastGet
  <2> QED BY <1>s, <2>2, <2>3, WireBy
<1> QED BY <1>1, <1>2, <1>3, <1>4

\* The search for a template ends with a signal.
LEMMA WireTemplate ==
  ASSUME ImageInv, Frame, Wire, Stays, TemplateSearched
  PROVE  Wire'
<1>s. Shape /\ ul' = ul
  BY StaysPut DEF ImageInv
<1>1. PICK v \in {"templateOk", "templateFailed"} : chan' = Append(chan, Signal(v))
  BY DEF TemplateSearched
<1>2. cb.at = "template" /\ cb' = NoCb /\ UNCHANGED <<ul, pend, sent, back, last, flow>>
  BY DEF TemplateSearched, CallbackEnds
<1>3. dh' # "started"
  BY CallbackNotStarted DEF TemplateSearched, CallbackEnds
<1>4. ASSUME OneThing PROVE OneThing'
  <2>1. cb # NoCb /\ ul = "GettingMibTemplate"
    BY <1>2 DEF Frame, CbIn, NoCb
  <2>2. Clear /\ Idle /\ ~flow
    BY <1>2, <1>4, <2>1 DEF OneThing, OneCallback, FlowsWait
  <2>3. v \in Asked(ul) /\ ul \notin DOMAIN GetOf
    BY <2>1 DEF Asked, GetOf
  <2> DEFINE x == Signal(v)
  <2>4. x \in Msgs /\ x.req = v
    BY DEF Signal, Msgs, SignalNames
  <2>a. chan' = Append(chan, x) /\ chan \in Seq(Msgs)
    BY <1>1, <1>s DEF Shape
  <2> HIDE DEF x
  <2>5. \A r : /\ Has(r, chan') <=> Has(r, chan) \/ v = r
               /\ One(r, chan) /\ ~(Has(r, chan) /\ v = r) => One(r, chan')
    BY <2>a, <2>4, HasAppend
  <2>6. v \in Tokens /\ \A r \in Tokens : ~Has(r, sent) /\ ~Has(r, back) /\ ~Has(r, chan)
    BY <2>2 DEF Clear, Absent, Tokens
  <2>7. One(v, sent) /\ One(v, back) /\ One(v, chan)
    BY <2>6 DEF Has, One
  <2>8. Single(v)'
    BY <1>2, <2>5, <2>6, <2>7 DEF Single
  <2>9. \A r \in Tokens \ {v} : Absent(r)'
    BY <1>2, <2>5, <2>6 DEF Absent
  <2>10. Idle'
    BY <1>2, <2>2 DEF Idle
  <2> QED BY <1>s, <1>2, <2>2, <2>3, <2>8, <2>9, <2>10, ThingSent
<1> QED BY <1>s, <1>3, <1>4, WireBy

-----------------------------------------------------------------------------
(* The message processor.                                                  *)

\* A run that is about to start has nothing to read.
LEMMA NothingToRead ==
  ASSUME ImageInv, Take, dh' = dh
  PROVE  ~(dh' = "started" /\ dev.clean /\ ul = "Starting")
BY DEF ImageInv, FreshStart, Take

\* The handler of an answer posts the event of its state, or the stop event.
LEMMA WireAnswered ==
  ASSUME ImageInv, Wire, Stays, Take, UNCHANGED <<dh, cb, flow, back, sent>>, NEW q \in Tokens, Message.req = q,
         NEW v, Post(v), q \in Asked(ul) => v \in Ahead(ul) \cup {"Stop"}
  PROVE  Wire'
<1>s. Shape /\ ul' = ul
  BY StaysPut DEF ImageInv
<1>1. ASSUME OneThing PROVE OneThing'
  <2>1. q \in Asked(ul) /\ Idle /\ ~flow /\ cb = NoCb /\ Clear'
    BY <1>s, <1>1, Reads
  <2> DEFINE x == [ev |-> v, by |-> "proc"]
  <2>2. pend' \subseteq pend \cup {x} /\ x.ev \in Ahead(ul) \cup {"Stop"}
    BY <2>1 DEF Post
  <2> HIDE DEF x
  <2> QED BY <1>s, <2>1, <2>2, ThingPosted
<1> QED BY <1>s, <1>1, NothingToRead, WireBy

\* Or none, and sends nothing.
LEMMA WireSilent ==
  ASSUME ImageInv, Wire, Stays, Take, UNCHANGED <<dh, cb, flow, back, sent, pend>>, NEW q \in Tokens, Message.req = q
  PROVE  Wire'
<1>s. Shape /\ ul' = ul
  BY StaysPut DEF ImageInv
<1>1. ASSUME OneThing PROVE OneThing'
  <2>1. Idle /\ ~flow /\ cb = NoCb /\ Clear'
    BY <1>s, <1>1, Reads
  <2> DEFINE x == Go("Stop")
  <2>2. pend' \subseteq pend \cup {x} /\ x.ev \in Ahead(ul) \cup {"Stop"}
    BY DEF Go
  <2> HIDE DEF x
  <2> QED BY <1>s, <2>1, <2>2, ThingPosted
<1> QED BY <1>s, <1>1, NothingToRead, WireBy

\* Or sends the next request of the upload.
LEMMA WireNext ==
  ASSUME ImageInv, Wire, Stays, Take, UNCHANGED <<dh, cb, flow, back, pend>>, NEW q \in {"upload", "next"}, Message.req = q,
         NEW n \in Nat, sent' = Append(sent, Request("next", n))
  PROVE  Wire'
<1>s. Shape /\ ul' = ul
  BY StaysPut DEF ImageInv
<1>q. q \in Tokens /\ "next" \in Reqs
  BY DEF Tokens, Reqs
<1>1. ASSUME OneThing PROVE OneThing'
  <2>1. /\ q \in Asked(ul) /\ Idle /\ ~flow /\ cb = NoCb /\ sent = <<>>
        /\ \A r \in Tokens : ~Has(r, back') /\ ~Has(r, chan')
    BY <1>s, <1>q, <1>1, Reads
  <2>2. ul = "Uploading"
    BY <2>1, AskedNames
  <2>3. "next" \in Asked(ul) /\ ul \notin DOMAIN GetOf
    BY <2>2 DEF Asked, GetOf
  <2>4. sent' = <<Request("next", n)>>
    BY <2>1
  <2>5. Single("next")' /\ \A r \in Tokens \ {"next"} : Absent(r)'
    BY <1>q, <2>1, <2>4, SingleSent
  <2>6. Idle'
    BY <2>1 DEF Idle
  <2> QED BY <1>s, <2>1, <2>3, <2>5, <2>6, ThingSent
<1> QED BY <1>s, <1>1, NothingToRead, WireBy

\* The events after an answer are those of the state.
LEMMA AnswerEvents ==
  ASSUME NEW m, m.req \in MEs, m.req \in Asked(ul)
  PROVE  /\ GetResponseEvents(m) \subseteq Ahead(ul) \cup {"Stop"}
         /\ GetResponseErrorEvents(m) \subseteq Ahead(ul) \cup {"Stop"}
         /\ GetResponseEvents(m) # {}
         /\ m.req = last.me => GetResponseErrorEvents(m) # {}
<1>1. ul \in DOMAIN GetOf /\ m.req = GetOf[ul]
  BY AskedNames
<1>2. ul \in GetStates \cup {"ExaminingMds", "Auditing", "ReAuditing"}
  BY <1>1 DEF GetOf, GetStates
<1>3. CASE ul = "GettingVendorAndSerial"
  <2>1. m.req = "onuG" /\ Ahead(ul) = {"GetVersion"}
    BY <1>1, <1>3 DEF GetOf, Ahead, Examining
  <2> QED BY <1>3, <2>1 DEF GetResponseEvents, GetResponseErrorEvents
<1>4. CASE ul = "GettingVersion"
  <2>1. m.req = "onuG" /\ Ahead(ul) = {"GetEquipIDAndOmcc"}
    BY <1>1, <1>4 DEF GetOf, Ahead, Examining
  <2> QED BY <1>4, <2>1 DEF GetResponseEvents, GetResponseErrorEvents
<1>5. CASE ul = "GettingEquipIDAndOmcc"
  <2>1. m.req = "onu2G" /\ Ahead(ul) = {"TestExtOmciSupport", "GetFirstSwVersion"}
    BY <1>1, <1>5 DEF GetOf, Ahead, Examining
  <2> QED BY <1>5, <2>1 DEF GetResponseEvents, GetResponseErrorEvents
<1>6. CASE ul = "GettingFirstSwVersion"
  <2>1. m.req = "sw0" /\ Ahead(ul) = {"GetSecondSwVersion"}
    BY <1>1, <1>6 DEF GetOf, Ahead, Examining
  <2> QED BY <1>6, <2>1 DEF GetResponseEvents, GetResponseErrorEvents
<1>7. CASE ul = "GettingSecondSwVersion"
  <2>1. m.req = "sw1" /\ Ahead(ul) = {"GetMacAddress"}
    BY <1>1, <1>7 DEF GetOf, Ahead, Examining
  <2> QED BY <1>7, <2>1 DEF GetResponseEvents, GetResponseErrorEvents
<1>8. CASE ul = "GettingMacAddress"
  <2>1. m.req = "mac" /\ Ahead(ul) = {"GetMibTemplate"}
    BY <1>1, <1>8 DEF GetOf, Ahead, Examining
  <2> QED BY <1>8, <2>1 DEF GetResponseEvents, GetResponseErrorEvents
<1>9. CASE ul \in {"ExaminingMds", "Auditing", "ReAuditing"}
  <2>1. m.req = "mds" /\ Ahead(ul) = {"Success", "Mismatch"}
    BY <1>1, <1>9 DEF GetOf, Ahead, Examining
  <2>2. GetResponseEvents(m) = CheckMdsValue(m.val)
    BY <2>1 DEF GetResponseEvents
  <2>3. CheckMdsValue(m.val) \subseteq {"Success", "Mismatch"} /\ CheckMdsValue(m.val) # {}
    BY <1>9 DEF CheckMdsValue
  <2> QED BY <2>1, <2>2, <2>3 DEF GetResponseErrorEvents
<1> QED BY <1>2, <1>3, <1>4, <1>5, <1>6, <1>7, <1>8, <1>9 DEF GetStates

\* In a run of its own state the handler of get responses fires an event.
LEMMA WireGetResponse ==
  ASSUME ImageInv, Wire, Stays, HandleGetResponse
  PROVE  Wire'
<1>s. Shape /\ ul' = ul
  BY StaysPut DEF ImageInv
<1>1. Take /\ Message.req \in MEs /\ UNCHANGED <<dh, cb, flow, back>>
  BY DEF HandleGetResponse, Is
<1>2. Message.req \in Tokens
  BY <1>1 DEF Tokens, Reqs
<1>3. ASSUME OneThing PROVE OneThing'
  <2>1. /\ Message.req \in Asked(ul) /\ Idle /\ ~flow /\ cb = NoCb /\ last.type = "get" /\ last.me = Message.req
        /\ sent' = sent => Clear'
    BY <1>s, <1>1, <1>2, <1>3, Reads
  <2> DEFINE events == IF Message.res # "ok" THEN GetResponseErrorEvents(Message)
                       ELSE IF Message.req = last.me THEN GetResponseEvents(Message) ELSE {"Stop"}
  <2>2. (IF events = {} THEN NoEvent ELSE \E ev \in events : Post(ev)) /\ sent' = sent
    <3>1. ~(last.type # "get" \/ last.me = "none")
      BY <1>1, <2>1 DEF MEs
    <3> QED BY <3>1 DEF HandleGetResponse
  <2>3. events # {} /\ events \subseteq Ahead(ul) \cup {"Stop"}
    BY <1>1, <2>1, AnswerEvents
  <2> HIDE DEF events
  <2>4. PICK v \in events : Post(v)
    BY <2>2, <2>3
  <2> DEFINE x == [ev |-> v, by |-> "proc"]
  <2>5. pend' \subseteq pend \cup {x} /\ x.ev \in Ahead(ul) \cup {"Stop"}
    BY <2>3, <2>4 DEF Post
  <2> HIDE DEF x
  <2> QED BY <1>s, <1>1, <2>1, <2>2, <2>5, ThingPosted
<1> QED BY <1>s, <1>1, <1>3, NothingToRead, WireBy

\* The other handlers of the message processor.
LEMMA WireHandlers ==
  ASSUME ImageInv, Wire, Stays,
         HandleTestMsg \/ HandleMibResetResponse \/ HandleMibUploadResponse \/ HandleMibUploadNextResponse
  PROVE  Wire'
<1>s. Shape /\ ul' = ul /\ up.seq \in Nat /\ DOMAIN up = UpMembers
  BY StaysPut DEF ImageInv, Shape
<1>q. {"templateOk", "templateFailed", "reset", "upload", "next"} \subseteq Tokens
  BY DEF Tokens, Reqs
<1>1. CASE HandleTestMsg
  <2>1. /\ Take /\ UNCHANGED <<dh, cb, flow, back, sent>> /\ Message.req \in {"templateOk", "templateFailed"}
        /\ Post("Success") \/ Post("UploadMib")
    BY <1>1 DEF HandleTestMsg
  <2>2. Message.req \in Asked(ul) => ul = "GettingMibTemplate"
    BY <2>1, AskedNames
  <2>3. Ahead("GettingMibTemplate") = {"Success", "UploadMib"}
    BY DEF Ahead, Examining
  <2> QED BY <2>1, <2>2, <2>3, <1>q, WireAnswered
<1>2. CASE HandleMibResetResponse
  <2>1. Take /\ UNCHANGED <<dh, cb, flow, back>> /\ Message.req = "reset"
    BY <1>2 DEF HandleMibResetResponse, Is
  <2>2. CASE ul = "ResettingMib"
    <3>1. sent' = sent /\ (Post("GetVendorAndSerial") \/ Post("Stop"))
      BY <1>2, <2>2 DEF HandleMibResetResponse
    <3>2. Ahead(ul) = {"GetVendorAndSerial"}
      BY <2>2 DEF Ahead, Examining
    <3> QED BY <2>1, <3>1, <3>2, <1>q, WireAnswered
  <2>3. CASE ul # "ResettingMib"
    <3>1. ~OneThing
      BY <2>1, <2>3, <1>q, <1>s, Reads, AskedNames
    <3> QED BY <3>1, <2>1, <1>s, NothingToRead, WireBy
  <2> QED BY <2>2, <2>3
<1>3. CASE HandleMibUploadResponse
  <2> DEFINE u == [up EXCEPT !.cmds = Message.val]
  <2>1. Take /\ UNCHANGED <<dh, cb, flow, back>> /\ Message.req = "upload"
    BY <1>3 DEF HandleMibUploadResponse, Is
  <2>2. \/ SendMibUploadNext(u) /\ NoEvent
        \/ Post("Timeout") /\ sent' = sent
    BY <1>3 DEF HandleMibUploadResponse
  <2>3. u.seq \in Nat
    BY <1>s DEF UpMembers
  <2> HIDE DEF u
  <2>4. CASE Post("Timeout") /\ sent' = sent
    <3>1. Message.req \in Asked(ul) => ul = "Uploading"
      BY <2>1, AskedNames
    <3>2. "Timeout" \in Ahead("Uploading")
      BY DEF Ahead, Examining
    <3> QED BY <2>1, <2>4, <3>1, <3>2, <1>q, WireAnswered
  <2>5. CASE SendMibUploadNext(u) /\ NoEvent
    <3>1. pend' = pend /\ (sent' = sent \/ sent' = Append(sent, Request("next", u.seq)))
      BY <2>5 DEF SendMibUploadNext, NoEvent
    <3> QED BY <2>1, <2>3, <3>1, <1>q, WireSilent, WireNext
  <2> QED BY <2>2, <2>4, <2>5
<1>4. CASE HandleMibUploadNextResponse
  <2> DEFINE u == [up EXCEPT !.got = IF up.db = "none" THEN @ ELSE @ \cup {Message.val}]
  <2>1. Take /\ UNCHANGED <<dh, cb, flow, back>> /\ Message.req = "next"
    BY <1>4 DEF HandleMibUploadNextResponse, Is
  <2>2. \/ NoEvent /\ sent' = sent
        \/ Post("Success") /\ sent' = sent
        \/ SendMibUploadNext(u) /\ NoEvent
    BY <1>4 DEF HandleMibUploadNextResponse
  <2>3. u.seq \in Nat
    BY <1>s DEF UpMembers
  <2> HIDE DEF u
  <2>4. CASE Post("Success") /\ sent' = sent
    <3>1. Message.req \in Asked(ul) => ul = "Uploading"
      BY <2>1, AskedNames
    <3>2. "Success" \in Ahead("Uploading")
      BY DEF Ahead, Examining
    <3> QED BY <2>1, <2>4, <3>1, <3>2, <1>q, WireAnswered
  <2>5. CASE (NoEvent /\ sent' = sent) \/ (SendMibUploadNext(u) /\ NoEvent)
    <3>1. pend' = pend /\ (sent' = sent \/ sent' = Append(sent, Request("next", u.seq)))
      BY <2>5 DEF SendMibUploadNext, NoEvent
    <3> QED BY <2>1, <2>3, <3>1, <1>q, WireSilent, WireNext
  <2> QED BY <2>2, <2>4, <2>5
<1> QED BY <1>1, <1>2, <1>3, <1>4

-----------------------------------------------------------------------------
\* In the beginning there is nothing on the way.
LEMMA WireInit ==
  ASSUME Init
  PROVE  Wire
BY DEF Init, Wire, Live

\* Every step keeps it.
LEMMA WireStep ==
  ASSUME ImageInv, Frame, Wire, [Next]_vars
  PROVE  Wire'
<1>1. CASE Stays
  BY <1>1, WireQuiet, WireCallbacks, WireTemplate, WireHandlers, WireGetResponse
     DEF Stays, Callbacks, Processor, Timers, Requests
<1>2. CASE OnuRepeats
  BY <1>2, Repeated DEF Wire, Live, ImageInv
<1>3. CASE ~Stays /\ ~OnuRepeats
  BY <1>3, StepsOf, WireFire, WireFirst, WireCancel, WireOnuUp
<1> QED BY <1>1, <1>2, <1>3

-----------------------------------------------------------------------------
(***************************************************************************)
(* The upload.  The command n is asked for, or its answer is on the way,   *)
(* only when the content of all the commands before it has been stored and *)
(* the counter stands behind it.                                           *)
(***************************************************************************)
Asking(n) ==
  /\ up.db = "part" /\ up.seq = n + 1 /\ up.cmds = NCmds
  /\ n \in Nat /\ n < NCmds /\ up.got = 0 .. n - 1

\* The MIB is there.
Complete == up.db = "template" \/ (up.db = "uploaded" /\ up.got = 0 .. NCmds - 1)

\* In a run and after its end one request of an upload at most is on its way
\* or answered, and then the database is being filled, with the mutex locked.
Served(q) == Absent(q) \/ (Single(q) /\ up.db = "part")
Database ==
  dev.clean => /\ ~dev.panic /\ (up.db = "part" => up.held)
               /\ Served("upload") /\ Served("next") /\ (Absent("upload") \/ Absent("next"))

\* What the search for a template has found is what the FSM is told.
TemplateKnown ==
  ul = "GettingMibTemplate" =>
    /\ ~Absent("templateOk") \/ Waits("Success") => up.db = "template"
    /\ ~Absent("templateFailed") \/ Waits("UploadMib") => up.db = "part" /\ up.got = {}

\* What is asked and answered in an upload.
UploadAsked ==
  /\ ~Absent("upload") => up.db = "part" /\ up.seq = 0 /\ up.got = {}
  /\ \A m \in Answered : m.req = "upload" => m.val \in {NCmds, 0}
  /\ \A r \in In(sent) : r.req = "next" => Asking(r.n)
  /\ \A m \in Answered : m.req = "next" /\ m.res # "undecodable" => Asking(m.val)

\* An upload ends with the MIB.
UploadEnded ==
  /\ ul = "Uploading" /\ Waits("Success") => Complete
  /\ ul = "UploadDone" => Complete

Upload == Database /\ (Live => TemplateKnown /\ UploadAsked /\ UploadEnded)

-----------------------------------------------------------------------------
\* A request that is absent has no answer either.
LEMMA AbsentIn ==
  ASSUME NEW r, Absent(r)
  PROVE  (\A m \in In(sent) : m.req # r) /\ (\A m \in Answered : m.req # r)
BY InHas DEF Absent, Answered

\* The same after the step.
LEMMA AbsentInNext ==
  ASSUME NEW r, Absent(r)'
  PROVE  (\A m \in In(sent') : m.req # r) /\ (\A m \in Answered' : m.req # r)
<1>1. ~Has(r, sent') /\ ~Has(r, back') /\ ~Has(r, chan')
  BY DEF Absent
<1>2. /\ \A m \in In(sent') : m.req # r
      /\ \A m \in In(back') : m.req # r
      /\ \A m \in In(chan') : m.req # r
  BY <1>1, InHas
<1> QED BY <1>2 DEF Answered

\* Nothing of an upload on the way.
LEMMA NothingAsked ==
  ASSUME Absent("upload")', Absent("next")'
  PROVE  UploadAsked'
<1>1. /\ \A m \in In(sent') : m.req # "next"
      /\ \A m \in Answered' : m.req # "next" /\ m.req # "upload"
  BY AbsentInNext
<1> QED BY <1>1 DEF UploadAsked

\* The requests and signals of an upload.
UpTokens == {"upload", "next", "templateOk", "templateFailed"}

\* A step that asks for nothing and leaves the database alone.
LEMMA DatabaseKept ==
  ASSUME Database, dev'.clean = dev.clean, dev'.panic = dev.panic, up'.db = up.db, up'.held = up.held,
         \A r \in UpTokens : Kept(r)
  PROVE  Database'
BY DEF Database, Served, Kept, UpTokens

\* The answer of an upload is taken, and one command at most is asked for.
LEMMA NextAfter ==
  ASSUME Shape, Take, back' = back, Message.req \in {"upload", "next"}, Single(Message.req),
         Absent("upload") \/ Absent("next"),
         sent' = sent \/ \E n \in Nat : sent' = Append(sent, Request("next", n))
  PROVE  /\ Absent("upload")' /\ (Absent("next")' \/ Single("next")')
         /\ sent' = sent => Absent("next")'
<1>1. chan # <<>> /\ chan' = Tail(chan)
  BY DEF Take
<1>2. ASSUME NEW q \in {"upload", "next"} PROVE ~Has(q, sent) /\ ~Has(q, back') /\ ~Has(q, chan')
  <2>1. /\ Has(q, chan) <=> Has(q, Tail(chan)) \/ Head(chan).req = q
        /\ One(q, chan) => ~(Head(chan).req = q /\ Has(q, Tail(chan)))
    BY <1>1, HasTail DEF Shape
  <2>2. Has(Message.req, chan)
    <3>1. \A m : Has(m, chan) <=> Has(m, Tail(chan)) \/ Head(chan).req = m
      BY <1>1, HasTail DEF Shape
    <3> QED BY <3>1 DEF Message
  <2>3. CASE q = Message.req
    BY <1>1, <2>1, <2>2, <2>3 DEF Single, Message
  <2>4. CASE q # Message.req
    <3>1. Absent(q)
      BY <2>2, <2>4 DEF Absent
    <3> QED BY <1>1, <2>1, <3>1 DEF Absent
  <2> QED BY <2>3, <2>4
<1>3. sent' = sent => Absent("upload")' /\ Absent("next")'
  BY <1>2 DEF Absent
<1>4. ASSUME NEW n \in Nat, sent' = Append(sent, Request("next", n))
      PROVE  Absent("upload")' /\ Single("next")'
  <2> DEFINE x == Request("next", n)
  <2>1. x \in Sents /\ x.req = "next"
    BY DEF Request, Sents, Reqs
  <2> HIDE DEF x
  <2>2. \A q : /\ Has(q, Append(sent, x)) <=> Has(q, sent) \/ x.req = q
               /\ One(q, sent) /\ ~(Has(q, sent) /\ x.req = q) => One(q, Append(sent, x))
    BY <2>1, HasAppend DEF Shape
  <2>3. One("next", sent) /\ One("next", back') /\ One("next", chan')
    BY <1>2 DEF Has, One
  <2> QED BY <1>2, <1>4, <2>1, <2>2, <2>3 DEF Absent, Single, x
<1> QED BY <1>3, <1>4

\* A step that adds nothing to an upload.
LEMMA UploadKept ==
  ASSUME Upload, ul' = ul, up' = up, dev'.clean = dev.clean, dev'.panic = dev.panic,
         \A r \in UpTokens : Kept(r),
         \A s \in In(sent') : s.req = "next" => \E t \in In(sent) : t.req = s.req /\ t.n = s.n,
         \A m \in Answered' : m.req \in {"upload", "next"} => m \in Answered,
         ul \in {"GettingMibTemplate", "Uploading"} =>
           (Waits("Success")' => Waits("Success")) /\ (Waits("UploadMib")' => Waits("UploadMib"))
  PROVE  Upload'
<1>a. \A r \in UpTokens : ~Absent(r)' => ~Absent(r)
  BY DEF Kept
<1>b. \A n : Asking(n) => Asking(n)'
  BY DEF Asking
<1>1. Database'
  BY DatabaseKept DEF Upload
<1>2. SUFFICES ASSUME Live PROVE TemplateKnown' /\ UploadAsked' /\ UploadEnded'
  BY <1>1 DEF Upload, Live
<1>3. TemplateKnown'
  BY <1>a, <1>2 DEF Upload, TemplateKnown, UpTokens
<1>4. UploadAsked'
  <2>1. ~Absent("upload")' => up'.db = "part" /\ up'.seq = 0 /\ up'.got = {}
    BY <1>a, <1>2 DEF Upload, UploadAsked, UpTokens
  <2>2. \A m \in Answered' : m.req = "upload" => m.val \in {NCmds, 0}
    BY <1>2 DEF Upload, UploadAsked
  <2>3. \A r \in In(sent') : r.req = "next" => Asking(r.n)'
    BY <1>b, <1>2 DEF Upload, UploadAsked
  <2>4. \A m \in Answered' : m.req = "next" /\ m.res # "undecodable" => Asking(m.val)'
    BY <1>b, <1>2 DEF Upload, UploadAsked
  <2> QED BY <2>1, <2>2, <2>3, <2>4 DEF UploadAsked
<1>5. UploadEnded'
  BY <1>2 DEF Upload, UploadEnded, Complete
<1> QED BY <1>3, <1>4, <1>5

\* A step that leaves the channels and the upload alone.
LEMMA UploadQuiet ==
  ASSUME Upload, Shape, Stays, up' = up, dev'.panic = dev.panic, UNCHANGED <<sent, back, chan>>,
         \/ pend' \subseteq pend \cup {Go("AuditMib"), Go("Stop"), Go("GetFirstSwVersion"), Go("Mismatch")}
         \/ ul \notin {"GettingMibTemplate", "Uploading"}
  PROVE  Upload'
<1>1. ul' = ul /\ dev'.clean = dev.clean
  BY StaysPut
<1>2. \A r \in UpTokens : Kept(r)
  BY DEF Absent, Single, Kept
<1>3. Answered' = Answered /\ In(sent') = In(sent)
  BY DEF Answered
<1>4. ul \in {"GettingMibTemplate", "Uploading"} =>
        (Waits("Success")' => Waits("Success")) /\ (Waits("UploadMib")' => Waits("UploadMib"))
  BY DEF Waits, Go
<1> QED BY <1>1, <1>2, <1>3, <1>4, UploadKept

\* The steps that leave the channels alone.
LEMMA UploadElsewhere ==
  ASSUME ImageInv, Frame, Wire, Upload, Stays,
         \/ TestingEnds \/ TPsVerified \/ RestoreFails \/ RestoreEndsWithoutFlows \/ RestoreTPs \/ FlowsReconciled
         \/ ProcStarts \/ Timers \/ Configuration \/ OnuDiverges
         \/ ProcessMibDatabaseSync \/ ReconcilingEnds \/ UpdateInterface
         \/ (OnuUp /\ ul # "Disabled") \/ UNCHANGED vars
  PROVE  Upload'
<1>s. Shape /\ DOMAIN dev = DevMembers /\ DOMAIN up = UpMembers /\ ul' = ul /\ dev'.clean = dev.clean
  BY StaysPut DEF ImageInv, Shape
<1>c. \A at \in DOMAIN CbIn : cb.at = at => ul = CbIn[at] /\ cb # NoCb
  BY DEF Frame, CbIn, NoCb
<1>1. CASE TestingEnds \/ TPsVerified \/ RestoreFails
  <2>1. /\ UNCHANGED <<up, dev, sent, back, chan>> /\ cb.at \in {"test", "verify", "restore"}
    BY <1>1 DEF TestingEnds, TPsVerified, RestoreFails, CallbackEnds
  <2>2. ul \notin {"GettingMibTemplate", "Uploading"}
    BY <2>1, <1>c DEF CbIn
  <2> QED BY <1>s, <2>1, <2>2, UploadQuiet
<1>2. CASE FlowsReconciled
  <2>1. /\ UNCHANGED <<up, sent, back, chan>> /\ cb.at = "flows"
        /\ dev' = [dev EXCEPT !.recon = "no", !.service = TRUE] \/ dev' = [dev EXCEPT !.recon = "no"]
    BY <1>2 DEF FlowsReconciled, CallbackEnds
  <2>2. ul \notin {"GettingMibTemplate", "Uploading"} /\ dev'.panic = dev.panic
    BY <2>1, <1>c, <1>s DEF CbIn, DevMembers
  <2> QED BY <1>s, <2>1, <2>2, UploadQuiet
<1>3. CASE RestoreEndsWithoutFlows \/ RestoreTPs
  <2>1. /\ UNCHANGED <<pend, sent, back, chan>> /\ cb.at = "restore" /\ up' = [up EXCEPT !.db = "template"]
        /\ \E v : dev' = [dev EXCEPT !.recon = v, !.ready = TRUE]
    BY <1>3 DEF RestoreEndsWithoutFlows, RestoreTPs, CallbackEnds
  <2>2. ul = "ExaminingMdsSuccess" /\ dev'.panic = dev.panic /\ up'.db = "template"
    BY <2>1, <1>c, <1>s DEF CbIn, DevMembers, UpMembers
  <2>a. ASSUME Live PROVE Absent("upload")' /\ Absent("next")'
    <3>1. Absent("upload") /\ Absent("next")
      BY <2>2, <2>a, AskedNames DEF Wire, OneThing, Token, Tokens, Reqs
    <3> QED BY <2>1, <3>1 DEF Absent
  <2>3. Database'
    BY <1>s, <2>2, <2>a DEF Upload, Database, Served, Live
  <2>4. ASSUME Live PROVE UploadAsked'
    BY <2>4, <2>a, NothingAsked
  <2> QED BY <1>s, <2>2, <2>3, <2>4 DEF Upload, Live, TemplateKnown, UploadEnded
<1>4. CASE ProcStarts \/ Timers \/ Configuration \/ OnuDiverges \/ UpdateInterface
           \/ (OnuUp /\ ul # "Disabled") \/ UNCHANGED vars
  <2>1. UNCHANGED <<up, sent, back, chan>>
    BY <1>4 DEF ProcStarts, Timers, FlowExpiry, AuditTimer, Configuration, ConfigStarts, OnuExecutes,
                ConfigResponse, ConfigEnds, OnuDiverges, UpdateInterface, OnuUp, vars
  <2>2. pend' \subseteq pend \cup {Go("AuditMib"), Go("Mismatch")}
    BY <1>4 DEF ProcStarts, Timers, FlowExpiry, AuditTimer, Configuration, ConfigStarts, OnuExecutes,
                ConfigResponse, ConfigEnds, OnuDiverges, UpdateInterface, OnuUp, vars
  <2>3. \/ dev' = dev \/ dev' = [dev EXCEPT !.touched = TRUE] \/ dev' = [dev EXCEPT !.service = TRUE]
        \/ dev' = [dev EXCEPT !.intact = FALSE]
        \/ dev' = [dev EXCEPT !.recon = "no", !.synced = FALSE, !.state = "init", !.ready = FALSE,
                              !.service = FALSE, !.intact = FALSE]
    BY <1>4 DEF ProcStarts, Timers, FlowExpiry, AuditTimer, Configuration, ConfigStarts, OnuExecutes,
                ConfigResponse, ConfigEnds, OnuDiverges, UpdateInterface, OnuUp, vars
  <2>4. dev'.panic = dev.panic
    BY <1>s, <2>3 DEF DevMembers
  <2> QED BY <1>s, <2>1, <2>2, <2>4, UploadQuiet
<1>5. CASE ProcessMibDatabaseSync \/ ReconcilingEnds
  <2>1. UNCHANGED <<up, sent, back, chan, pend>>
    BY <1>5 DEF ProcessMibDatabaseSync, ReconcilingEnds
  <2>2. \/ dev' = [dev EXCEPT !.note = FALSE, !.raise = FALSE, !.ready = TRUE, !.blank = FALSE]
        \/ dev' = [dev EXCEPT !.recon = "no", !.service = TRUE] \/ dev' = [dev EXCEPT !.recon = "no"]
    BY <1>5 DEF ProcessMibDatabaseSync, ReconcilingEnds
  <2>3. dev'.panic = dev.panic
    BY <1>s, <2>2 DEF DevMembers
  <2> QED BY <1>s, <2>1, <2>3, UploadQuiet
<1> QED BY <1>1, <1>2, <1>3, <1>4, <1>5

-----------------------------------------------------------------------------
(* What the channels carry after a step.                                   *)

\* Requests are lost or no longer supervised, answers are delivered, signals
\* are added.
LEMMA ChannelIn ==
  ASSUME Shape, Deliver \/ RequestTimeout \/ RequestLost \/ OnuDown \/ CancelAborts \/ RxSignalEnds
  PROVE  /\ \A s \in In(sent') : \E t \in In(sent) : t.req = s.req /\ t.n = s.n
         /\ \A m \in Answered' : m \in Answered \/ m.req \in {"timeout", "abort"}
<1>s. sent \in Seq(Sents) /\ back \in Seq(Msgs) /\ chan \in Seq(Msgs)
  BY DEF Shape
<1>g. \A v \in {"timeout", "abort"} : Signal(v) \in Msgs /\ Signal(v).req = v
  BY DEF Signal, SignalNames, Msgs
<1>h. sent # <<>> => Head(sent) \in In(sent) /\ Head(sent) \in Sents /\ In(Tail(sent)) \subseteq In(sent)
  BY <1>s, InTail
<1>1. CASE Deliver
  <2>1. back # <<>> /\ chan' = Append(chan, Head(back)) /\ back' = Tail(back) /\ sent' = sent
    BY <1>1 DEF Deliver
  <2>2. In(back) = In(Tail(back)) \cup {Head(back)} /\ Head(back) \in Msgs
    BY <1>s, <2>1, InTail
  <2>3. In(chan') = In(chan) \cup {Head(back)}
    BY <1>s, <2>1, <2>2, InAppend
  <2> QED BY <2>1, <2>2, <2>3 DEF Answered
<1>2. CASE RequestTimeout
  <2>1. /\ sent # <<>> /\ sent' = [sent EXCEPT ![1].sup = FALSE] /\ back' = back
        /\ chan' = chan \/ chan' = Append(chan, Signal("timeout"))
    BY <1>2 DEF RequestTimeout
  <2>2. In(chan') \subseteq In(chan) \cup {Signal("timeout")}
    <3>1. In(Append(chan, Signal("timeout"))) = In(chan) \cup {Signal("timeout")}
      BY <1>s, <1>g, InAppend
    <3> QED BY <2>1, <3>1
  <2>3. 1 \in 1 .. Len(sent) /\ sent[1] \in Sents /\ Len(sent') = Len(sent)
    BY <1>s, <2>1
  <2>4. /\ [sent[1] EXCEPT !.sup = FALSE].req = sent[1].req /\ [sent[1] EXCEPT !.sup = FALSE].n = sent[1].n
    BY <2>3 DEF Sents
  <2>5. \A k \in 1 .. Len(sent) : sent'[k].req = sent[k].req /\ sent'[k].n = sent[k].n
    BY <1>s, <2>1, <2>3, <2>4
  <2>6. \A s \in In(sent') : \E t \in In(sent) : t.req = s.req /\ t.n = s.n
    BY <2>3, <2>5 DEF In
  <2> QED BY <2>1, <2>2, <2>6, <1>g DEF Answered
<1>3. CASE RequestLost
  <2>1. sent # <<>> /\ sent' = Tail(sent) /\ back' = back /\ chan' = chan
    BY <1>3 DEF RequestLost
  <2> QED BY <2>1, <1>h DEF Answered
<1>4. CASE OnuDown
  <2>1. sent' = CancelMonitoring /\ back' = back /\ chan' = chan
    BY <1>4 DEF OnuDown
  <2>2. CASE sent = <<>>
    BY <2>1, <2>2, InEmpty DEF CancelMonitoring, Answered
  <2>3. CASE sent # <<>>
    <3> DEFINE x == [Head(sent) EXCEPT !.sup = FALSE]
    <3>1. sent' = <<x>> /\ x.req = Head(sent).req /\ x.n = Head(sent).n
      BY <2>1, <2>3, <1>h DEF CancelMonitoring, Sents
    <3> HIDE DEF x
    <3>2. In(<<x>>) = {x}
      BY DEF In
    <3> QED BY <2>1, <2>3, <3>1, <3>2, <1>h DEF Answered
  <2> QED BY <2>2, <2>3
<1>5. CASE CancelAborts
  <2>1. sent' = sent /\ back' = back /\ chan' = Append(chan, Signal("abort"))
    BY <1>5 DEF CancelAborts
  <2>2. In(chan') = In(chan) \cup {Signal("abort")}
    BY <1>s, <1>g, <2>1, InAppend
  <2> QED BY <2>1, <2>2, <1>g DEF Answered
<1>6. CASE RxSignalEnds
  <2>1. chan # <<>> /\ chan' = Tail(chan) /\ back' = back /\ sent' = sent
    BY <1>6 DEF RxSignalEnds, Take
  <2>2. In(chan') \subseteq In(chan)
    BY <1>s, <2>1, InTail
  <2> QED BY <2>1, <2>2 DEF Answered
<1> QED BY <1>1, <1>2, <1>3, <1>4, <1>5, <1>6

\* The ONU answers.
AnswersWith(a) ==
  /\ a.req = Head(sent).req /\ Answered' = Answered \cup {a}
  /\ \/ /\ a.res = "ok" /\ a.val \in AnswerVals(Head(sent))
        /\ mds' = IF a.req = "reset" THEN [mds EXCEPT !.onu = 0] ELSE mds
        /\ dev' = IF a.req = "reset" THEN [dev EXCEPT !.intact = TRUE] ELSE dev
     \/ /\ UNCHANGED <<mds, dev>>
        /\ \/ a.res # "ok" /\ (a.req = "next" => a.res = "undecodable") /\ a.req # "upload"
           \/ a.req = "upload" /\ a.val = 0

\* What the ONU's answer leaves alone, and what it is.
LEMMA AnswerIn ==
  ASSUME Shape, OnuAnswers
  PROVE  /\ sent # <<>> /\ Head(sent) \in In(sent) /\ In(sent') \subseteq In(sent)
         /\ UNCHANGED <<ul, cb, pend, proc, chan, last, up, img, cfg, dh, flow>>
         /\ \E a : AnswersWith(a)
<1>s. sent \in Seq(Sents) /\ back \in Seq(Msgs) /\ chan \in Seq(Msgs)
  BY DEF Shape
<1>1. /\ sent # <<>> /\ sent' = Tail(sent)
      /\ UNCHANGED <<ul, cb, pend, proc, chan, last, up, img, cfg, dh, flow>>
  BY DEF OnuAnswers
<1>2. Head(sent) \in In(sent) /\ In(sent') \subseteq In(sent)
  BY <1>s, <1>1, InTail
<1> DEFINE q == Head(sent)
           b(res, v) == [req |-> q.req, res |-> res, val |-> v]
<1>3. q \in Sents
  BY <1>s, <1>1
<1>4. \A v \in AnswerVals(q) : v \in Nat
  <2>1. mds.onu \in Nat /\ NCmds \in Nat /\ q.n \in Nat
    BY <1>3, MibSyncAssumption DEF Shape, Sents
  <2> QED BY <2>1 DEF AnswerVals
<1>5. ASSUME NEW res \in {"ok", "refused", "unsupported", "undecodable"}, NEW v \in Nat, back' = Append(back, b(res, v))
      PROVE  Answered' = Answered \cup {b(res, v)} /\ b(res, v).req = q.req /\ b(res, v).res = res /\ b(res, v).val = v
  <2>1. b(res, v) \in Msgs /\ b(res, v).req = q.req /\ b(res, v).res = res /\ b(res, v).val = v
    BY <1>3 DEF Msgs, Sents
  <2>2. In(back') = In(back) \cup {b(res, v)}
    BY <1>s, <1>5, <2>1, InAppend
  <2> QED BY <1>1, <2>1, <2>2 DEF Answered
<1>6. CASE /\ \E v \in AnswerVals(q) : back' = Append(back, b("ok", v))
           /\ mds' = IF q.req = "reset" THEN [mds EXCEPT !.onu = 0] ELSE mds
           /\ dev' = IF q.req = "reset" THEN [dev EXCEPT !.intact = TRUE] ELSE dev
  <2>1. PICK v \in AnswerVals(q) : back' = Append(back, b("ok", v))
    BY <1>6
  <2>2. Answered' = Answered \cup {b("ok", v)} /\ b("ok", v).req = q.req /\ b("ok", v).res = "ok" /\ b("ok", v).val = v
    BY <1>4, <1>5, <2>1
  <2>3. AnswersWith(b("ok", v))
    BY <1>6, <2>2 DEF AnswersWith
  <2> QED BY <1>1, <1>2, <2>3
<1>7. CASE /\ UNCHANGED <<mds, dev>>
           /\ \/ q.req = "mac" /\ back' = Append(back, b("unsupported", 0))
              \/ q.req \notin {"upload", "next"} /\ back' = Append(back, b("refused", 0))
              \/ q.req = "next" /\ back' = Append(back, b("undecodable", 0))
              \/ q.req = "upload" /\ back' = Append(back, b("ok", 0))
  <2>1. PICK res \in {"ok", "refused", "unsupported", "undecodable"} :
           /\ back' = Append(back, b(res, 0))
           /\ \/ res # "ok" /\ (q.req = "next" => res = "undecodable") /\ q.req # "upload"
              \/ q.req = "upload"
    BY <1>7
  <2>2. Answered' = Answered \cup {b(res, 0)} /\ b(res, 0).req = q.req /\ b(res, 0).res = res /\ b(res, 0).val = 0
    BY <1>5, <2>1
  <2>3. AnswersWith(b(res, 0))
    BY <1>7, <2>1, <2>2 DEF AnswersWith
  <2> QED BY <1>1, <1>2, <2>3
<1> QED BY <1>6, <1>7 DEF OnuAnswers

-----------------------------------------------------------------------------
(* The upload, continued.                                                  *)

\* The channels lose, delay or deliver what is asked and answered.
LEMMA UploadChannels ==
  ASSUME ImageInv, Upload, Stays,
         Deliver \/ RequestTimeout \/ RequestLost \/ OnuDown \/ CancelAborts \/ RxSignalEnds
  PROVE  Upload'
<1>s. Shape /\ DOMAIN dev = DevMembers /\ ul' = ul /\ dev'.clean = dev.clean
  BY StaysPut DEF ImageInv, Shape
<1>1. /\ \A s \in In(sent') : \E t \in In(sent) : t.req = s.req /\ t.n = s.n
      /\ \A m \in Answered' : m \in Answered \/ m.req \in {"timeout", "abort"}
  BY <1>s, ChannelIn
<1>2. UpTokens \subseteq Tokens
  BY DEF UpTokens, Tokens, Reqs
<1>3. \A r \in UpTokens : Kept(r)
  BY <1>s, <1>2, TokensKept
<1>4. /\ up' = up /\ pend' \subseteq pend \cup {Go("Stop")}
      /\ dev' = dev \/ dev' = [dev EXCEPT !.raise = FALSE]
  BY DEF Deliver, RequestTimeout, RequestLost, OnuDown, CancelAborts, RxSignalEnds
<1>5. dev'.panic = dev.panic
  BY <1>s, <1>4 DEF DevMembers
<1>6. (Waits("Success")' => Waits("Success")) /\ (Waits("UploadMib")' => Waits("UploadMib"))
  BY <1>4 DEF Waits, Go
<1> QED BY <1>s, <1>1, <1>3, <1>4, <1>5, <1>6, UploadKept

\* The answer to a command of the upload has its number.
LEMMA UploadAnswer ==
  ASSUME ImageInv, Upload, Stays, OnuAnswers
  PROVE  Upload'
<1>s. Shape /\ DOMAIN dev = DevMembers /\ ul' = ul /\ dev'.clean = dev.clean
  BY StaysPut DEF ImageInv, Shape
<1>1. PICK a : AnswersWith(a)
  BY <1>s, AnswerIn
<1>2. /\ Head(sent) \in In(sent) /\ In(sent') \subseteq In(sent)
      /\ UNCHANGED <<ul, pend, up>>
  BY <1>s, AnswerIn
<1>3. a.req = Head(sent).req /\ Answered' = Answered \cup {a}
  BY <1>1 DEF AnswersWith
<1>4. dev'.panic = dev.panic
  <2>1. dev' = dev \/ dev' = [dev EXCEPT !.intact = TRUE]
    BY <1>1 DEF AnswersWith
  <2> QED BY <1>s, <2>1 DEF DevMembers
<1>5. UpTokens \subseteq Tokens
  BY DEF UpTokens, Tokens, Reqs
<1>k. \A r \in UpTokens : Kept(r)
  BY <1>s, <1>5, TokensKept
<1>6. \A r \in UpTokens : ~Absent(r)' => ~Absent(r)
  BY <1>k DEF Kept
<1>b. \A n : Asking(n) => Asking(n)'
  BY <1>2 DEF Asking
<1>7. Database'
  BY <1>s, <1>2, <1>4, <1>k, DatabaseKept DEF Upload
<1>8. SUFFICES ASSUME Live PROVE TemplateKnown' /\ UploadAsked' /\ UploadEnded'
  BY <1>s, <1>7 DEF Upload, Live
<1>9. TemplateKnown'
  BY <1>2, <1>6, <1>8 DEF Upload, TemplateKnown, UpTokens, Waits
<1>10. UploadEnded'
  BY <1>2, <1>8 DEF Upload, UploadEnded, Complete, Waits
<1>11. UploadAsked'
  <2>1. ~Absent("upload")' => up'.db = "part" /\ up'.seq = 0 /\ up'.got = {}
    BY <1>2, <1>6, <1>8 DEF Upload, UploadAsked, UpTokens
  <2>2. \A r \in In(sent') : r.req = "next" => Asking(r.n)'
    BY <1>b, <1>2, <1>8 DEF Upload, UploadAsked
  <2>3. a.req = "upload" => a.val \in {NCmds, 0}
    BY <1>1, <1>3 DEF AnswersWith, AnswerVals
  <2>4. a.req = "next" /\ a.res # "undecodable" => Asking(a.val)'
    <3>1. SUFFICES ASSUME a.req = "next", a.res # "undecodable" PROVE Asking(a.val)
      BY <1>b
    <3>2. a.val \in AnswerVals(Head(sent))
      BY <1>1, <3>1 DEF AnswersWith
    <3>3. a.val = Head(sent).n
      BY <1>3, <3>1, <3>2 DEF AnswerVals
    <3> QED BY <1>2, <1>3, <1>8, <3>1, <3>3 DEF Upload, UploadAsked
  <2>5. \A m \in Answered' : m.req = "upload" => m.val \in {NCmds, 0}
    BY <1>3, <1>8, <2>3 DEF Upload, UploadAsked
  <2>6. \A m \in Answered' : m.req = "next" /\ m.res # "undecodable" => Asking(m.val)'
    BY <1>b, <1>3, <1>8, <2>4 DEF Upload, UploadAsked
  <2> QED BY <2>1, <2>2, <2>5, <2>6 DEF UploadAsked
<1> QED BY <1>9, <1>10, <1>11

\* The search for a template decides on the database.
LEMMA UploadTemplate ==
  ASSUME ImageInv, Frame, Wire, Upload, Stays, TemplateSearched
  PROVE  Upload'
<1>s. Shape /\ DOMAIN up = UpMembers /\ ul' = ul /\ dev'.clean = dev.clean
  BY StaysPut DEF ImageInv, Shape
<1>1. PICK found \in BOOLEAN :
        /\ chan' = Append(chan, Signal(IF found THEN "templateOk" ELSE "templateFailed"))
        /\ up' = [up EXCEPT !.db = IF found THEN "template" ELSE "part", !.got = {}, !.held = ~found]
  BY DEF TemplateSearched
<1>2. cb.at = "template" /\ UNCHANGED <<pend, sent, back, dev>>
  BY DEF TemplateSearched, CallbackEnds
<1>3. cb # NoCb /\ ul = "GettingMibTemplate"
  BY <1>2 DEF Frame, CbIn, NoCb
<1> DEFINE v == IF found THEN "templateOk" ELSE "templateFailed"
           x == Signal(v)
<1>4. x \in Msgs /\ x.req = v /\ v \in {"templateOk", "templateFailed"} /\ v \notin {"upload", "next"}
  BY DEF Signal, Msgs, SignalNames
<1>5. chan' = Append(chan, x) /\ chan \in Seq(Msgs)
  BY <1>1, <1>s DEF Shape
<1>u. up'.db = (IF found THEN "template" ELSE "part") /\ up'.got = {} /\ up'.held = ~found
  BY <1>1, <1>s DEF UpMembers
<1> HIDE DEF x
<1>6. \A r : Has(r, chan') <=> Has(r, chan) \/ v = r
  BY <1>4, <1>5, HasAppend
<1>8. SUFFICES ASSUME Live PROVE Database' /\ TemplateKnown' /\ UploadAsked' /\ UploadEnded'
  <2>1. ~Live => ~dev'.clean
    BY <1>s, <1>3 DEF Live
  <2> QED BY <1>s, <2>1 DEF Upload, Database, Live
<1>9. Clear /\ Idle
  BY <1>2, <1>3, <1>8 DEF Wire, OneThing, OneCallback
<1>10. {"upload", "next", "templateOk", "templateFailed"} \subseteq Tokens /\ {"Success", "UploadMib"} \subseteq Progress
  BY EventNames DEF Tokens, Reqs, Progress
<1>11. ~Waits("Success")' /\ ~Waits("UploadMib")'
  BY <1>2, <1>9, <1>10 DEF Idle, Waits
<1>12. \A r \in {"upload", "next", "templateOk", "templateFailed"} : r # v => Absent(r)'
  BY <1>2, <1>6, <1>9, <1>10 DEF Clear, Absent
<1>13. TemplateKnown'
  BY <1>u, <1>11, <1>12 DEF TemplateKnown
<1>14. UploadAsked'
  BY <1>4, <1>12, NothingAsked
<1>15. UploadEnded'
  BY <1>s, <1>3 DEF UploadEnded
<1>16. Database'
  BY <1>2, <1>4, <1>8, <1>u, <1>12 DEF Upload, Database, Served, Live
<1> QED BY <1>13, <1>14, <1>15, <1>16

-----------------------------------------------------------------------------
(* The message processor and the upload.                                   *)

\* The message that is taken was on its way, and nothing comes up behind it.
LEMMA MessageTaken ==
  ASSUME Shape, Take, back' = back
  PROVE  /\ Message \in Answered /\ Message \in Msgs /\ Answered' \subseteq Answered
         /\ ~Absent(Message.req)
         /\ \A r : sent' = sent \/ (\E q, n : sent' = Append(sent, Request(q, n)) /\ q \in Reqs \ {r} /\ n \in Nat) =>
                     Kept(r)
<1>1. chan # <<>> /\ chan' = Tail(chan) /\ chan \in Seq(Msgs) /\ sent \in Seq(Sents)
  BY DEF Take, Shape
<1>2. In(chan) = In(Tail(chan)) \cup {Head(chan)}
  BY <1>1, InTail
<1>3. Head(chan) \in Msgs
  BY <1>1
<1>4. ASSUME NEW r
      PROVE  /\ Has(r, chan) <=> Has(r, Tail(chan)) \/ Head(chan).req = r
  BY <1>1, HasTail
<1>5. ASSUME NEW r, NEW q, NEW n, sent' = Append(sent, Request(q, n)), q \in Reqs \ {r}, n \in Nat
      PROVE  (Has(r, sent') => Has(r, sent)) /\ (One(r, sent) => One(r, sent'))
  <2>1. Request(q, n) \in Sents /\ Request(q, n).req # r
    BY <1>5 DEF Request, Sents
  <2>2. /\ Has(r, Append(sent, Request(q, n))) <=> Has(r, sent) \/ Request(q, n).req = r
        /\ One(r, sent) /\ ~(Has(r, sent) /\ Request(q, n).req = r) => One(r, Append(sent, Request(q, n)))
    BY <1>1, <2>1, HasAppend
  <2> QED BY <1>5, <2>1, <2>2
<1>6. ASSUME NEW r, sent' = sent \/ (\E q, n : sent' = Append(sent, Request(q, n)) /\ q \in Reqs \ {r} /\ n \in Nat)
      PROVE  Kept(r)
  <2>1. (Has(r, sent') => Has(r, sent)) /\ (One(r, sent) => One(r, sent'))
    BY <1>5, <1>6
  <2> QED BY <1>1, <2>1, TakeKept
<1>7. ~Absent(Head(chan).req)
  BY <1>4 DEF Absent
<1> QED BY <1>1, <1>2, <1>3, <1>6, <1>7 DEF Message, Answered

\* The event of a handler is then the only one of the run.
LEMMA OnlyPosted ==
  ASSUME Idle, NEW v, Post(v) \/ pend' = pend
  PROVE  \A w \in Progress : Waits(w)' => w = v
BY DEF Idle, Post, Waits

\* The next command is asked for.
LEMMA NextAsked ==
  ASSUME \A r \in Tokens : ~Has(r, back') /\ ~Has(r, chan'), NEW n \in Nat,
         sent' = <<Request("next", n)>>, Asking(n)'
  PROVE  UploadAsked'
<1>1. {"upload", "next"} \subseteq Tokens /\ "next" \in Reqs
  BY DEF Tokens, Reqs
<1>2. Absent("upload")'
  BY <1>1, SingleSent
<1>3. \A m \in Answered' : m.req # "upload" /\ m.req # "next"
  <2>1. ~Has("upload", back') /\ ~Has("upload", chan') /\ ~Has("next", back') /\ ~Has("next", chan')
    BY <1>1
  <2>2. /\ \A m \in In(back') : m.req # "upload" /\ m.req # "next"
        /\ \A m \in In(chan') : m.req # "upload" /\ m.req # "next"
    BY <2>1, InHas
  <2> QED BY <2>2 DEF Answered
<1>4. In(sent') = {Request("next", n)} /\ Request("next", n).n = n
  <2>1. In(<<Request("next", n)>>) = {Request("next", n)}
    BY DEF In
  <2> QED BY <2>1 DEF Request
<1>5. \A r \in In(sent') : r.req = "next" => Asking(r.n)'
  BY <1>4
<1> QED BY <1>2, <1>3, <1>5 DEF UploadAsked

\* The template is used, or the upload begins.
LEMMA UploadTestMsg ==
  ASSUME ImageInv, Wire, Upload, Stays, HandleTestMsg
  PROVE  Upload'
<1>s. Shape /\ ul' = ul
  BY StaysPut DEF ImageInv
<1>1. /\ Take /\ UNCHANGED <<up, dev, sent, back>> /\ Message.req \in {"templateOk", "templateFailed"}
      /\ Post(IF Message.req = "templateOk" THEN "Success" ELSE "UploadMib")
  BY DEF HandleTestMsg, Is, Take
<1>2. \A r : Kept(r)
  BY <1>s, <1>1, MessageTaken
<1>3. Database'
  BY <1>1, <1>2, DatabaseKept DEF Upload
<1>4. SUFFICES ASSUME Live PROVE TemplateKnown' /\ UploadAsked' /\ UploadEnded'
  BY <1>s, <1>1, <1>3 DEF Upload, Live
<1>t. UpTokens \subseteq Tokens /\ {"Success", "UploadMib"} \subseteq Progress
  BY EventNames DEF UpTokens, Tokens, Reqs, Progress
<1>5. Message.req \in Asked(ul) /\ Idle /\ Clear' /\ ~Absent(Message.req)
  BY <1>s, <1>1, <1>4, <1>t, Reads DEF Wire, UpTokens
<1>6. ul = "GettingMibTemplate"
  BY <1>1, <1>5, AskedNames
<1>7. \A r \in UpTokens : Absent(r)'
  BY <1>5, <1>t DEF Clear
<1>8. \A w \in Progress : Waits(w)' => w = IF Message.req = "templateOk" THEN "Success" ELSE "UploadMib"
  BY <1>1, <1>5, OnlyPosted
<1>9. TemplateKnown'
  BY <1>1, <1>4, <1>5, <1>6, <1>7, <1>8, <1>t DEF TemplateKnown, Upload, UpTokens
<1>10. UploadAsked'
  BY <1>7, NothingAsked DEF UpTokens
<1>11. UploadEnded'
  BY <1>s, <1>6 DEF UploadEnded
<1> QED BY <1>9, <1>10, <1>11

\* The number of commands is known: the first one is asked for.
LEMMA UploadResponse ==
  ASSUME ImageInv, Wire, Upload, Stays, HandleMibUploadResponse
  PROVE  Upload'
<1>s. Shape /\ ul' = ul /\ DOMAIN up = UpMembers /\ up.seq \in Nat
  BY StaysPut DEF ImageInv, Shape
<1> DEFINE u == [up EXCEPT !.cmds = Message.val]
<1>1. /\ Take /\ UNCHANGED <<dev, back>> /\ Message.req = "upload"
      /\ \/ u.seq < u.cmds /\ SendMibUploadNext(u) /\ pend' = pend
         \/ up' = u /\ Post("Timeout") /\ sent' = sent
  BY DEF HandleMibUploadResponse, Is, Take, NoEvent
<1>u. /\ u.seq = up.seq /\ u.cmds = Message.val /\ u.db = up.db /\ u.got = up.got /\ u.held = up.held
      /\ DOMAIN u = UpMembers
  BY <1>s DEF UpMembers
<1> HIDE DEF u
<1>2. /\ up'.db = up.db /\ up'.got = up.got /\ up'.held = up.held
      /\ \/ /\ u.seq < u.cmds /\ pend' = pend /\ up'.seq = up.seq + 1 /\ up'.cmds = Message.val
            /\ sent' = sent \/ sent' = Append(sent, Request("next", up.seq))
         \/ Post("Timeout") /\ sent' = sent
  BY <1>1, <1>u DEF SendMibUploadNext, UpMembers
<1>3. Message \in Answered /\ ~Absent("upload") /\ Message.val \in Nat
  BY <1>s, <1>1, MessageTaken DEF Msgs
<1>4. Database'
  <2>1. SUFFICES ASSUME dev.clean PROVE Database'
    BY <1>1 DEF Database
  <2>2. Single("upload") /\ up.db = "part" /\ (Absent("upload") \/ Absent("next"))
    BY <1>3, <2>1 DEF Upload, Database, Served
  <2>3. Absent("upload")' /\ (Absent("next")' \/ Single("next")')
    BY <1>s, <1>1, <1>2, <2>2, NextAfter
  <2> QED BY <1>1, <1>2, <2>1, <2>2, <2>3 DEF Upload, Database, Served
<1>5. SUFFICES ASSUME Live PROVE TemplateKnown' /\ UploadAsked' /\ UploadEnded'
  BY <1>s, <1>1, <1>4 DEF Upload, Live
<1>t. UpTokens \subseteq Tokens /\ {"Success", "UploadMib"} \subseteq Progress
  BY EventNames DEF UpTokens, Tokens, Reqs, Progress
<1>6. /\ Message.req \in Asked(ul) /\ Idle /\ sent = <<>> /\ (sent' = sent => Clear')
      /\ \A r \in Tokens : ~Has(r, back') /\ ~Has(r, chan')
  BY <1>s, <1>1, <1>5, <1>t, Reads DEF Wire, UpTokens
<1>7. ul = "Uploading"
  BY <1>1, <1>6, AskedNames
<1>8. TemplateKnown'
  BY <1>s, <1>7 DEF TemplateKnown
<1>9. UploadEnded'
  <2>1. ~Waits("Success")'
    BY <1>2, <1>6, <1>t, OnlyPosted
  <2> QED BY <1>s, <1>7, <2>1 DEF UploadEnded
<1>10. UploadAsked'
  <2>1. CASE sent' = sent
    BY <1>6, <1>t, <2>1, NothingAsked DEF Clear, UpTokens
  <2>2. CASE sent' # sent
    <3>1. /\ u.seq < u.cmds /\ up'.seq = up.seq + 1 /\ up'.cmds = Message.val
          /\ sent' = Append(sent, Request("next", up.seq))
      BY <1>2, <2>2
    <3>2. up.db = "part" /\ up.seq = 0 /\ up.got = {} /\ Message.val \in {NCmds, 0}
      BY <1>1, <1>3, <1>5 DEF Upload, UploadAsked
    <3>3. Message.val = NCmds /\ 0 < NCmds
      BY <1>u, <3>1, <3>2, MibSyncAssumption
    <3>4. 0 .. 0 - 1 = {}
      OBVIOUS
    <3>5. Asking(0)'
      BY <1>2, <3>1, <3>2, <3>3, <3>4 DEF Asking
    <3>6. sent' = <<Request("next", 0)>>
      BY <1>6, <3>1, <3>2
    <3> QED BY <1>6, <3>5, <3>6, NextAsked
  <2> QED BY <2>1, <2>2
<1> QED BY <1>8, <1>9, <1>10

\* The content of a command arrives.
LEMMA UploadNextResponse ==
  ASSUME ImageInv, Wire, Upload, Stays, HandleMibUploadNextResponse
  PROVE  Upload'
<1>s. Shape /\ ul' = ul /\ DOMAIN up = UpMembers /\ up.seq \in Nat /\ DOMAIN dev = DevMembers /\ dev'.clean = dev.clean
  BY StaysPut DEF ImageInv, Shape
<1> DEFINE g == IF up.db = "none" THEN up.got ELSE up.got \cup {Message.val}
           u == [up EXCEPT !.got = g]
<1>1. /\ Take /\ back' = back /\ Message.req = "next"
      /\ IF Message.res = "undecodable" THEN pend' = pend /\ UNCHANGED <<up, sent, dev>>
         ELSE IF Finished(u)
         THEN /\ up' = [u EXCEPT !.db = "uploaded", !.held = FALSE]
              /\ dev' = [dev EXCEPT !.panic = @ \/ up.db = "none" \/ ~up.held]
              /\ Post("Success") /\ sent' = sent
         ELSE SendMibUploadNext(u) /\ pend' = pend /\ dev' = dev
  BY DEF HandleMibUploadNextResponse, Is, Take, NoEvent
<1>u. /\ u.seq = up.seq /\ u.cmds = up.cmds /\ u.db = up.db /\ u.got = g /\ u.held = up.held
      /\ DOMAIN u = UpMembers
  BY <1>s DEF UpMembers
<1> HIDE DEF u, g
<1>2. \/ Message.res = "undecodable" /\ pend' = pend /\ UNCHANGED <<up, sent, dev>>
      \/ /\ Message.res # "undecodable" /\ ~(up.seq < up.cmds) /\ up'.db = "uploaded" /\ up'.got = g
         /\ dev'.panic = (dev.panic \/ up.db = "none" \/ ~up.held) /\ Post("Success") /\ sent' = sent
      \/ /\ Message.res # "undecodable" /\ up.seq < up.cmds /\ up'.db = up.db /\ up'.got = g
         /\ up'.cmds = up.cmds /\ up'.seq = up.seq + 1 /\ up'.held = up.held /\ pend' = pend /\ dev' = dev
         /\ sent' = sent \/ sent' = Append(sent, Request("next", up.seq))
  <2>1. CASE Message.res = "undecodable"
    BY <1>1, <2>1
  <2>2. CASE Message.res # "undecodable" /\ Finished(u)
    <3>1. /\ up' = [u EXCEPT !.db = "uploaded", !.held = FALSE] /\ Post("Success") /\ sent' = sent
          /\ dev' = [dev EXCEPT !.panic = @ \/ up.db = "none" \/ ~up.held]
      BY <1>1, <2>2
    <3>2. up'.db = "uploaded" /\ up'.got = g
      BY <1>u, <3>1 DEF UpMembers
    <3>3. dev'.panic = (dev.panic \/ up.db = "none" \/ ~up.held)
      BY <1>s, <3>1, Zenon DEF DevMembers
    <3>4. ~(up.seq < up.cmds)
      BY <1>u, <2>2 DEF Finished
    <3> QED BY <2>2, <3>1, <3>2, <3>3, <3>4
  <2>3. CASE Message.res # "undecodable" /\ ~Finished(u)
    <3>1. SendMibUploadNext(u) /\ pend' = pend /\ dev' = dev
      BY <1>1, <2>3
    <3>2. /\ up' = [u EXCEPT !.seq = @ + 1]
          /\ sent' = sent \/ sent' = Append(sent, Request("next", up.seq))
      BY <1>u, <3>1 DEF SendMibUploadNext
    <3>3. /\ up'.db = up.db /\ up'.got = g /\ up'.cmds = up.cmds /\ up'.held = up.held
          /\ up'.seq = up.seq + 1
      BY <1>u, <3>2 DEF UpMembers
    <3>4. up.seq < up.cmds
      BY <1>u, <2>3 DEF Finished
    <3> QED BY <2>3, <3>1, <3>2, <3>3, <3>4
  <2> QED BY <2>1, <2>2, <2>3
<1>3. Message \in Answered /\ ~Absent("next") /\ Message.val \in Nat
  BY <1>s, <1>1, MessageTaken DEF Msgs
<1>4. Database'
  <2>1. SUFFICES ASSUME dev.clean PROVE Database'
    BY <1>s DEF Database
  <2>2. Single("next") /\ up.db = "part" /\ up.held /\ ~dev.panic /\ (Absent("upload") \/ Absent("next"))
    BY <1>3, <2>1 DEF Upload, Database, Served
  <2>3. Absent("upload")' /\ (Absent("next")' \/ Single("next")') /\ (sent' = sent => Absent("next")')
    BY <1>s, <1>1, <1>2, <2>2, NextAfter
  <2> QED BY <1>2, <2>2, <2>3 DEF Database, Served
<1>5. SUFFICES ASSUME Live PROVE TemplateKnown' /\ UploadAsked' /\ UploadEnded'
  BY <1>s, <1>4 DEF Upload, Live
<1>t. UpTokens \subseteq Tokens /\ {"Success", "UploadMib"} \subseteq Progress
  BY EventNames DEF UpTokens, Tokens, Reqs, Progress
<1>6. /\ Message.req \in Asked(ul) /\ Idle /\ sent = <<>> /\ (sent' = sent => Clear')
      /\ \A r \in Tokens : ~Has(r, back') /\ ~Has(r, chan')
  BY <1>s, <1>1, <1>5, <1>t, Reads DEF Wire, UpTokens
<1>7. ul = "Uploading"
  BY <1>1, <1>6, AskedNames
<1>8. TemplateKnown'
  BY <1>s, <1>7 DEF TemplateKnown
<1>n. NCmds \in Nat
  BY MibSyncAssumption
<1>9. ASSUME Message.res # "undecodable"
      PROVE  /\ up.db = "part" /\ up.seq = Message.val + 1 /\ up.cmds = NCmds
             /\ Message.val < NCmds /\ g = 0 .. Message.val
  <2>1. Asking(Message.val)
    BY <1>1, <1>3, <1>5, <1>9 DEF Upload, UploadAsked
  <2>2. (0 .. Message.val - 1) \cup {Message.val} = 0 .. Message.val
    BY <1>3
  <2> QED BY <2>1, <2>2 DEF Asking, g
<1>10. UploadEnded'
  <2>1. CASE pend' = pend
    <3>1. ~Waits("Success")'
      <4>1. \A w \in Progress : Waits(w)' => w = "Timeout"
        BY <1>6, <2>1, OnlyPosted
      <4> QED BY <4>1, <1>t
    <3> QED BY <1>s, <1>7, <3>1 DEF UploadEnded
  <2>2. CASE pend' # pend
    <3>1. Message.res # "undecodable" /\ ~(up.seq < up.cmds) /\ up'.db = "uploaded" /\ up'.got = g
      BY <1>2, <2>2
    <3>2. Message.val = NCmds - 1
      BY <1>3, <1>9, <1>n, <3>1
    <3>3. Complete'
      BY <1>9, <3>1, <3>2 DEF Complete
    <3> QED BY <3>3 DEF UploadEnded
  <2> QED BY <2>1, <2>2
<1>11. UploadAsked'
  <2>1. CASE sent' = sent
    BY <1>6, <1>t, <2>1, NothingAsked DEF Clear, UpTokens
  <2>2. CASE sent' # sent
    <3>1. /\ Message.res # "undecodable" /\ up.seq < up.cmds /\ up'.db = up.db /\ up'.got = g
          /\ up'.cmds = up.cmds /\ up'.seq = up.seq + 1
          /\ sent' = Append(sent, Request("next", up.seq))
      BY <1>2, <2>2
    <3>2. PICK n \in Nat : n = up.seq
      BY <1>s
    <3>3. up'.seq = n + 1 /\ n < NCmds /\ g = 0 .. n - 1
      BY <1>3, <1>9, <3>1, <3>2
    <3>4. Asking(n)'
      BY <1>9, <3>1, <3>2, <3>3 DEF Asking
    <3>5. sent' = <<Request("next", n)>>
      BY <1>6, <3>1, <3>2
    <3> QED BY <1>6, <3>4, <3>5, NextAsked
  <2> QED BY <2>1, <2>2
<1> QED BY <1>8, <1>10, <1>11

-----------------------------------------------------------------------------
\* A request that is appended.
LEMMA SentAppended ==
  ASSUME Shape, NEW q \in Reqs, NEW n \in Nat, sent' = Append(sent, Request(q, n))
  PROVE  In(sent') = In(sent) \cup {Request(q, n)}
<1>1. Request(q, n) \in Sents
  BY DEF Request, Sents
<1> QED BY <1>1, InAppend DEF Shape

\* The handlers of the reset and get responses have no part in an upload.
LEMMA UploadOtherAnswers ==
  ASSUME ImageInv, Upload, Stays, HandleMibResetResponse \/ HandleGetResponse
  PROVE  Upload'
<1>s. Shape /\ ul' = ul
  BY StaysPut DEF ImageInv
<1>1. /\ Take /\ UNCHANGED <<back, up, dev>> /\ Message.req \in MEs \cup {"reset"}
      /\ sent' = sent \/ sent' = Append(sent, Request("mds", 1)) \/ sent' = Append(sent, Request("reset", 1))
  BY DEF HandleMibResetResponse, HandleGetResponse, Is
<1>q. {"mds", "reset"} \subseteq Reqs /\ {"mds", "reset"} \cap UpTokens = {}
  BY DEF Reqs, MEs, UpTokens
<1>2. Answered' \subseteq Answered
  BY <1>s, <1>1, MessageTaken
<1>3. \A r \in UpTokens : Kept(r)
  BY <1>s, <1>1, <1>q, MessageTaken
<1>4. \A s \in In(sent') : s.req = "next" => s \in In(sent)
  <2>1. CASE sent' = sent
    BY <2>1
  <2>2. ASSUME NEW q \in {"mds", "reset"}, sent' = Append(sent, Request(q, 1))
        PROVE  \A s \in In(sent') : s.req = "next" => s \in In(sent)
    <3>1. Request(q, 1).req = q
      BY DEF Request
    <3> QED BY <1>s, <1>q, <2>2, <3>1, SentAppended
  <2> QED BY <1>1, <2>1, <2>2
<1>5. ASSUME ul \in {"GettingMibTemplate", "Uploading"}
      PROVE  \E v : v \notin {"Success", "UploadMib"} /\ (Post(v) \/ pend' = pend)
  <2>1. CASE HandleMibResetResponse
    <3>1. ul # "ResettingMib"
      BY <1>5
    <3>2. Post("Stop") \/ pend' = pend
      BY <2>1, <3>1 DEF HandleMibResetResponse, NoEvent
    <3> QED BY <3>2
  <2>2. CASE HandleGetResponse
    <3>1. Message.req \in MEs
      BY <2>2 DEF HandleGetResponse, Is
    <3>2. GetResponseErrorEvents(Message) \subseteq {"GetMibTemplate", "Stop"}
      BY ErrorEventNames
    <3>3. "Success" \notin GetResponseEvents(Message) /\ "UploadMib" \notin GetResponseEvents(Message)
      <4>1. CASE Message.req = "mds"
        <5>1. CheckMdsValue(Message.val) = {}
          BY <1>5 DEF CheckMdsValue
        <5> QED BY <4>1, <5>1 DEF GetResponseEvents
      <4>2. CASE Message.req # "mds"
        BY <3>1, <4>2 DEF GetResponseEvents, MEs
      <4> QED BY <4>1, <4>2
    <3> DEFINE events == IF Message.res # "ok" THEN GetResponseErrorEvents(Message)
                         ELSE IF Message.req = last.me THEN GetResponseEvents(Message) ELSE {"Stop"}
    <3>4. events \cap {"Success", "UploadMib"} = {}
      BY <3>2, <3>3
    <3>5. pend' = pend \/ \E v \in events : Post(v)
      BY <2>2 DEF HandleGetResponse, NoEvent
    <3> HIDE DEF events
    <3>6. CASE pend' = pend
      <4>1. "Stop" \notin {"Success", "UploadMib"}
        OBVIOUS
      <4> QED BY <3>6, <4>1
    <3>7. CASE \E v \in events : Post(v)
      BY <3>4, <3>7
    <3> QED BY <3>5, <3>6, <3>7
  <2> QED BY <2>1, <2>2
<1>6. ul \in {"GettingMibTemplate", "Uploading"} =>
        (Waits("Success")' => Waits("Success")) /\ (Waits("UploadMib")' => Waits("UploadMib"))
  <2>1. SUFFICES ASSUME ul \in {"GettingMibTemplate", "Uploading"}, NEW w \in {"Success", "UploadMib"}, NEW x \in pend', x.ev = w
                 PROVE  x \in pend
    BY DEF Waits
  <2>2. PICK v : v \notin {"Success", "UploadMib"} /\ (Post(v) \/ pend' = pend)
    BY <1>5, <2>1
  <2>3. x \in pend \/ x = [ev |-> v, by |-> "proc"]
    BY <2>1, <2>2 DEF Post
  <2> QED BY <2>1, <2>2, <2>3
<1> QED BY <1>s, <1>1, <1>2, <1>3, <1>4, <1>6, UploadKept

-----------------------------------------------------------------------------
(* The steps of the FSM and the upload.                                    *)

\* A callback sends the request of its state at most.
LEMMA SentTaken ==
  ASSUME Shape, Frame, NEW ev \in Events, NEW by, NEW base, NEW err \in BOOLEAN,
         Transition(ev, by, base, err), ul \in DOMAIN Table[ev], Table[ev][ul] # "Starting"
  PROVE  /\ \A r : Has(r, sent') => Has(r, sent) \/ r \in (Asked(ul') \cap Reqs) \ {"next"}
         /\ \A w \in Progress : Waits(w)' =>
              \/ \E x \in base : x.ev = w
              \/ w = "Success" /\ ul' \in {"UploadDone", "ExaminingMds", "Auditing", "ReAuditing"}
<1>1. PICK e : Does(e, base)
  BY Taken
<1>2. Acts(e, ul') /\ pend' = base \cup e.post /\ sent' = e.sent \o e.send
  BY <1>1 DEF Does
<1>3. e.sent \in Seq(Sents) /\ \A r : Has(r, e.sent) => Has(r, sent)
  BY <1>2, HasMonitored DEF Acts, Shape
<1>4. sent' \in Seq(Sents)
  BY TransitionEffect
<1>5. ASSUME NEW r, Has(r, sent')
      PROVE  Has(r, sent) \/ r \in (Asked(ul') \cap Reqs) \ {"next"}
  <2>1. CASE e.send = <<>>
    <3>1. sent' = e.sent
      BY <1>2, <1>3, <2>1
    <3> QED BY <1>3, <1>5, <3>1
  <2>2. CASE e.send # <<>>
    <3>1. PICK q \in Asked(ul') \ {"next"} : e.send = <<Request(q, 0)>>
      BY <1>2, <2>2 DEF Acts
    <3> DEFINE x == Request(q, 0)
    <3>2. x.req = q
      BY DEF Request
    <3> HIDE DEF x
    <3>3. sent' = e.sent \o <<x>>
      BY <1>2, <3>1 DEF x
    <3>4. Len(sent') = Len(e.sent) + 1 /\ sent'[Len(e.sent) + 1] = x /\ \A k \in 1 .. Len(e.sent) : sent'[k] = e.sent[k]
      BY <1>3, <3>3
    <3>5. Len(e.sent) \in Nat
      BY <1>3
    <3>6. Len(e.sent) + 1 \in 1 .. Len(sent')
      BY <3>4, <3>5
    <3>7. x \in Sents
      BY <1>4, <3>4, <3>6
    <3>8. q \in Reqs
      BY <3>2, <3>7 DEF Sents
    <3>9. PICK k \in 1 .. Len(sent') : sent'[k].req = r
      BY <1>5 DEF Has
    <3>10. k \in 1 .. Len(e.sent) \/ k = Len(e.sent) + 1
      BY <3>4, <3>5
    <3>11. CASE k \in 1 .. Len(e.sent)
      BY <1>3, <3>4, <3>9, <3>11 DEF Has
    <3>12. CASE k = Len(e.sent) + 1
      BY <3>1, <3>2, <3>4, <3>8, <3>9, <3>12
    <3> QED BY <3>10, <3>11, <3>12
  <2> QED BY <2>1, <2>2
<1>6. Go("Stop").ev = "Stop" /\ Go("Success").ev = "Success" /\ "Stop" \notin Progress
  BY DEF Go, Progress
<1>7. ASSUME NEW w \in Progress, Waits(w)'
      PROVE  \/ \E x \in base : x.ev = w
             \/ w = "Success" /\ ul' \in {"UploadDone", "ExaminingMds", "Auditing", "ReAuditing"}
  <2>1. PICK x \in pend' : x.ev = w
    BY <1>7 DEF Waits
  <2>2. x \in base \/ x \in e.post
    BY <1>2, <2>1
  <2>3. x \in e.post => w = "Success" /\ ul' \in {"UploadDone", "ExaminingMds", "Auditing", "ReAuditing"}
    BY <1>2, <1>6, <2>1 DEF Acts
  <2> QED BY <2>1, <2>2, <2>3
<1> QED BY <1>5, <1>7

\* Where an upload begins and where it ends.
LEMMA UploadMoves ==
  ASSUME NEW ev \in Events, NEW s \in DOMAIN Table[ev]
  PROVE  /\ Table[ev][s] = "Uploading" => ev = "UploadMib" /\ s = "GettingMibTemplate"
         /\ Table[ev][s] = "UploadDone" => ev = "Success" /\ s \in {"GettingMibTemplate", "Uploading"}
BY DEF Events, Table, States, Stoppable, GetStates

\* The device's record, as an event leaves it.
LEMMA TakenDev ==
  ASSUME Shape, Frame, NEW ev \in Events, NEW by, NEW base, NEW err \in BOOLEAN,
         Transition(ev, by, base, err), ul \in DOMAIN Table[ev], Table[ev][ul] # "Starting"
  PROVE  dev'.panic = dev.panic /\ dev'.clean = dev.clean /\ dev'.intact = dev.intact
<1>s. DOMAIN dev = DevMembers
  BY DEF Shape
<1>1. PICK e : Does(e, base)
  BY Taken
<1>2. Leaves(e, ul') /\ dev' = e.dev /\ ul' # "Starting"
  BY <1>1, Taken DEF Does
<1>3. CASE ul' = "ResettingMib"
  <2>1. DOMAIN Restarted = DevMembers /\ Restarted.panic = dev.panic /\ Restarted.clean = dev.clean
        /\ Restarted.intact = dev.intact
    BY <1>s DEF Restarted, DevMembers
  <2>2. \E m : dev' = [Restarted EXCEPT !.blank = TRUE, !.midway = m]
    BY <1>2, <1>3 DEF Leaves
  <2> QED BY <2>1, <2>2 DEF DevMembers
<1>4. CASE ul' # "ResettingMib"
  <2>1. \/ dev' = dev \/ dev' = [dev EXCEPT !.raise = FALSE] \/ dev' = [dev EXCEPT !.state = "sync", !.note = TRUE]
        \/ dev' = [dev EXCEPT !.synced = TRUE] \/ dev' = [dev EXCEPT !.touched = FALSE]
    BY <1>2, <1>4 DEF Leaves
  <2> QED BY <2>1, <1>s DEF DevMembers
<1> QED BY <1>3, <1>4

\* An event is taken when nothing else is on the way.
LEMMA UploadTaken ==
  ASSUME Shape, Frame, Upload, NEW ev \in Events, NEW by, NEW base, NEW err \in BOOLEAN,
         Transition(ev, by, base, err), ul \in DOMAIN Table[ev],
         Table[ev][ul] \notin {"Disabled", "Starting"}, UNCHANGED <<chan, back>>,
         dev.clean => Clear /\ \A x \in base : x.ev \notin Progress,
         ev \in {"UploadMib", "Success"} => Waits(ev), Wire'
  PROVE  Upload'
<1>s. DOMAIN up = UpMembers
  BY DEF Shape
<1>1. PICK e : Does(e, base)
  BY Taken
<1>2. Leaves(e, ul') /\ up' = e.up /\ ul' = Table[ev][ul] /\ dev'.panic = dev.panic /\ dev'.clean = dev.clean
  BY <1>1, Taken, TakenDev DEF Does
<1>3. /\ \A r : Has(r, sent') => Has(r, sent) \/ r \in (Asked(ul') \cap Reqs) \ {"next"}
      /\ \A w \in Progress : Waits(w)' =>
              \/ \E x \in base : x.ev = w
              \/ w = "Success" /\ ul' \in {"UploadDone", "ExaminingMds", "Auditing", "ReAuditing"}
  BY SentTaken
<1>4. up'.db = up.db /\ up'.got = up.got /\ up'.held = up.held
  BY <1>s, <1>2 DEF Leaves, UpMembers
<1>5. CASE ~dev.clean
  BY <1>2, <1>5 DEF Upload, Database, Live
<1>6. CASE dev.clean
  <2>1. Clear /\ \A x \in base : x.ev \notin Progress
    BY <1>6
  <2>t. UpTokens \subseteq Tokens /\ {"Success", "UploadMib"} \subseteq Progress
    BY EventNames DEF UpTokens, Tokens, Reqs, Progress
  <2>2. \A r \in UpTokens : r \notin (Asked(ul') \cap Reqs) \ {"next"} => Absent(r)'
    BY <1>3, <2>1, <2>t DEF Clear, Absent
  <2>3. Absent("next")' /\ Absent("templateOk")' /\ Absent("templateFailed")'
    <3>1. "templateOk" \notin Reqs /\ "templateFailed" \notin Reqs
      BY DEF Reqs, MEs
    <3> QED BY <2>2, <3>1 DEF UpTokens
  <2>4. ul' # "Uploading" => Absent("upload")'
    BY <2>2, AskedNames DEF UpTokens
  <2>5. ul' # "UploadDone" => ul' \notin {"GettingMibTemplate", "Uploading"} \/ (~Waits("Success")' /\ ~Waits("UploadMib")')
    BY <1>3, <2>1, <2>t
  <2>l. ul \notin {"Disabled", "Starting"} => Live
    BY <1>6 DEF Live
  <2>6. TemplateKnown'
    BY <2>3, <2>5 DEF TemplateKnown
  <2>7. ASSUME ul' = "Uploading"
        PROVE  up'.db = "part" /\ up'.seq = 0 /\ up'.got = {}
    <3>0. Table[ev][ul] = "Uploading"
      BY <1>2, <2>7
    <3>1. ev = "UploadMib" /\ ul = "GettingMibTemplate"
      BY <3>0, UploadMoves
    <3>2. up.db = "part" /\ up.got = {}
      BY <2>l, <3>1 DEF Upload, TemplateKnown
    <3>3. up'.seq = 0
      BY <1>s, <1>2, <2>7 DEF Leaves, UpMembers
    <3> QED BY <1>4, <3>2, <3>3
  <2>8. UploadAsked'
    <3>1. CASE ul' # "Uploading"
      BY <2>3, <2>4, <3>1, NothingAsked
    <3>2. CASE ul' = "Uploading"
      <4>1. \A m \in In(sent') : m.req # "next"
        BY <2>3, AbsentInNext
      <4>2. \A m \in Answered' : m.req # "next" /\ m.req # "upload"
        <5>1. Absent("next") /\ Absent("upload")
          BY <2>1, <2>t DEF Clear, UpTokens
        <5>2. Answered' = Answered
          BY DEF Answered
        <5> QED BY <5>1, <5>2, AbsentIn
      <4> QED BY <2>7, <3>2, <4>1, <4>2 DEF UploadAsked
    <3> QED BY <3>1, <3>2
  <2>9. UploadEnded'
    <3>1. ASSUME ul' = "UploadDone" PROVE Complete'
      <4>1. ev = "Success" /\ ul \in {"GettingMibTemplate", "Uploading"}
        BY <1>2, <3>1, UploadMoves
      <4>2. Complete
        BY <2>l, <4>1 DEF Upload, TemplateKnown, UploadEnded, Complete
      <4> QED BY <1>4, <4>2 DEF Complete
    <3> QED BY <2>5, <3>1 DEF UploadEnded
  <2>10. Database'
    <3>1. ul' # "Uploading" => Absent("upload")'
      BY <2>4
    <3>2. Absent("upload")' \/ Single("upload")'
      <4>1. Token'
        BY <1>2, <1>6 DEF Wire, Live, OneThing
      <4> QED BY <4>1, <2>t DEF Token, UpTokens
    <3> QED BY <1>2, <1>4, <1>6, <2>3, <2>7, <3>1, <3>2 DEF Upload, Database, Served
  <2> QED BY <2>6, <2>8, <2>9, <2>10 DEF Upload
<1> QED BY <1>5, <1>6

\* An event ends the run.
LEMMA UploadDisabled ==
  ASSUME Shape, Frame, Upload, NEW ev \in Events, NEW by, NEW base, NEW err \in BOOLEAN,
         Transition(ev, by, base, err), ul \in DOMAIN Table[ev],
         Table[ev][ul] = "Disabled", UNCHANGED <<chan, back>>
  PROVE  Upload'
<1>1. PICK e : Does(e, base)
  BY Taken
<1>2. Leaves(e, ul') /\ up' = e.up /\ ul' = "Disabled" /\ dev'.panic = dev.panic /\ dev'.clean = dev.clean
  BY <1>1, Taken, TakenDev DEF Does
<1>3. up' = up
  BY <1>2 DEF Leaves
<1>4. sent' = sent
  <2>1. sent' = Enter("Disabled", by, err).sent \o Enter("Disabled", by, err).send
    BY DEF Transition
  <2>2. Enter("Disabled", by, err) = EnterDisabled
    BY DEF Enter, GetStates
  <2>3. EnterDisabled.sent = sent /\ EnterDisabled.send = <<>>
    BY DEF EnterDisabled, Keep
  <2>4. sent' = sent \o <<>>
    BY <2>1, <2>2, <2>3
  <2> QED BY <2>4 DEF Shape
<1>5. \A r \in UpTokens : Kept(r)
  BY <1>4 DEF Kept, Absent, Single
<1>6. Database'
  BY <1>2, <1>3, <1>5, DatabaseKept DEF Upload
<1> QED BY <1>2, <1>6 DEF Upload, Live

\* An event begins the run.
LEMMA UploadBegun ==
  ASSUME Shape, Frame, NEW ev \in Events, NEW by, NEW base, NEW err \in BOOLEAN,
         Transition(ev, by, base, err), ul \in DOMAIN Table[ev],
         Table[ev][ul] = "Starting", UNCHANGED <<chan, back>>
  PROVE  Upload'
<1>a. ul' = "Starting" /\ sent' = sent /\ up' = [up EXCEPT !.db = "none", !.got = {}]
  BY Begun
<1>1. ul' = "Starting" /\ sent' = sent /\ up'.db = "none"
  BY <1>a DEF Shape, UpMembers
<1>b. \E c \in BOOLEAN : /\ c <=> NothingLeft
                         /\ dev' = [dev EXCEPT !.raise = TRUE, !.panic = FALSE, !.clean = c]
  BY Begun
<1>2. PICK c \in BOOLEAN : /\ c <=> NothingLeft
                           /\ dev' = [dev EXCEPT !.raise = TRUE, !.panic = FALSE, !.clean = c]
  BY <1>b
<1>3. ~dev'.panic /\ dev'.clean = c
  BY <1>2 DEF Shape, DevMembers
<1>4. c => sent' = <<>> /\ back' = <<>> /\ chan' = <<>>
  <2>1. ASSUME chan \o back = <<>> PROVE back = <<>> /\ chan = <<>>
    <3>1. Len(chan \o back) = Len(chan) + Len(back) /\ Len(chan) \in Nat /\ Len(back) \in Nat
      BY DEF Shape
    <3>2. Len(chan) = 0 /\ Len(back) = 0
      BY <2>1, <3>1
    <3> QED BY <3>2 DEF Shape
  <2> QED BY <1>1, <1>2, <2>1 DEF NothingLeft
<1>5. c => Absent("next")' /\ Absent("upload")'
  BY <1>4, HasEmpty DEF Absent
<1> QED BY <1>1, <1>3, <1>5 DEF Upload, Database, Served, Live

\* An event is rejected.
LEMMA UploadRejected ==
  ASSUME Upload, NEW ev, NEW by, NEW base, base \subseteq pend, NEW err \in BOOLEAN,
         Transition(ev, by, base, err), ul \notin DOMAIN Table[ev], UNCHANGED <<chan, back>>
  PROVE  Upload'
<1>1. UNCHANGED <<ul, up, sent, dev>> /\ pend' \subseteq pend
  BY DEF Transition
<1>2. Answered' = Answered /\ In(sent') = In(sent) /\ \A r : Kept(r)
  BY <1>1 DEF Answered, Absent, Single, Kept
<1>3. (Waits("Success")' => Waits("Success")) /\ (Waits("UploadMib")' => Waits("UploadMib"))
  BY <1>1 DEF Waits
<1> QED BY <1>1, <1>2, <1>3, UploadKept

-----------------------------------------------------------------------------
\* A goroutine's event that takes a run further finds nothing else on the way.
LEMMA FiredAlone ==
  ASSUME Shape, Wire, NEW e \in pend, ul \in DOMAIN Table[e.ev],
         Table[e.ev][ul] \notin {"Disabled", "Starting"}, dev.clean
  PROVE  Live /\ Clear /\ ~flow /\ \A x \in pend \ {e} : x.ev \notin Progress
<1>1. e.ev \in Events /\ e.ev \in PostedEvents
  BY DEF Shape, Posts, PostedEvents
<1>2. ul \notin {"Disabled", "Starting"}
  BY <1>1, Moves DEF PostedEvents
<1>3. Live /\ OneThing
  BY <1>2 DEF Wire, Live
<1> QED BY <1>3, Fired

\* The first event of a clean run finds nothing at all.
LEMMA FirstAlone ==
  ASSUME ImageInv, Wire, dh = "started", ul = "Starting", dev.clean
  PROVE  Clear /\ Idle /\ ~flow
<1>1. sent = <<>> /\ back = <<>> /\ chan = <<>> /\ Idle /\ ~flow
  BY DEF ImageInv, FreshStart, Wire, NoThing
<1> QED BY <1>1, HasEmpty DEF Clear, Absent

\* Every step of the FSM keeps the account of the upload.
LEMMA UploadEvents ==
  ASSUME ImageInv, Frame, Wire, Wire', Upload,
         Fire \/ FirstEvent \/ CancelStopsFsm \/ (OnuUp /\ ul = "Disabled")
  PROVE  Upload'
<1>s. Shape
  BY DEF ImageInv
<1>1. CASE Fire
  <2>1. PICK e \in pend, err \in BOOLEAN : Transition(e.ev, e.by, pend \ {e}, err)
    BY <1>1 DEF Fire
  <2>2. UNCHANGED <<chan, back>> /\ e.ev \in Events /\ Waits(e.ev)
    BY <1>1, <1>s DEF Fire, Shape, Posts, PostedEvents, Waits
  <2>3. CASE ul \notin DOMAIN Table[e.ev]
    BY <2>1, <2>2, <2>3, UploadRejected
  <2>4. CASE ul \in DOMAIN Table[e.ev] /\ Table[e.ev][ul] = "Disabled"
    BY <1>s, <2>1, <2>2, <2>4, UploadDisabled
  <2>5. CASE ul \in DOMAIN Table[e.ev] /\ Table[e.ev][ul] = "Starting"
    BY <1>s, <2>1, <2>2, <2>5, UploadBegun
  <2>6. CASE ul \in DOMAIN Table[e.ev] /\ Table[e.ev][ul] \notin {"Disabled", "Starting"}
    <3>1. dev.clean => Clear /\ \A x \in pend \ {e} : x.ev \notin Progress
      BY <1>s, <2>6, FiredAlone
    <3> QED BY <1>s, <2>1, <2>2, <2>6, <3>1, UploadTaken
  <2> QED BY <2>3, <2>4, <2>5, <2>6
<1>2. CASE FirstEvent
  <2> DEFINE ev == IF dev.synced THEN "VerifyAndStoreTPs" ELSE "ResetMib"
  <2>1. PICK err \in BOOLEAN : Transition(ev, "dh", pend, err)
    BY <1>2 DEF FirstEvent
  <2>2. dh = "started" /\ UNCHANGED <<chan, back>>
    BY <1>2 DEF FirstEvent
  <2>3. ev \in Events /\ ev \in {"VerifyAndStoreTPs", "ResetMib"}
    BY EventNames
  <2>4. \A v \in {"VerifyAndStoreTPs", "ResetMib"} :
          DOMAIN Table[v] = {"Starting"} /\ Table[v]["Starting"] \notin {"Disabled", "Starting"}
    BY DEF Table
  <2> HIDE DEF ev
  <2>5. CASE ul = "Starting"
    <3>1. dev.clean => Clear /\ \A x \in pend : x.ev \notin Progress
      BY <2>2, <2>5, FirstAlone DEF Idle
    <3>2. ul \in DOMAIN Table[ev] /\ Table[ev][ul] \notin {"Disabled", "Starting"} /\ ev \notin {"UploadMib", "Success"}
      BY <2>3, <2>4, <2>5
    <3> QED BY <1>s, <2>1, <2>2, <2>3, <3>1, <3>2, UploadTaken
  <2>6. CASE ul # "Starting"
    <3>1. ul \notin DOMAIN Table[ev]
      BY <2>3, <2>4, <2>6
    <3> QED BY <2>1, <2>2, <3>1, UploadRejected
  <2> QED BY <2>5, <2>6
<1>3. CASE CancelStopsFsm
  <2>1. Transition("Stop", "dh", pend, FALSE) /\ UNCHANGED <<chan, back>> /\ "Stop" \in Events
    BY <1>3, EventNames DEF CancelStopsFsm
  <2>2. ul \in DOMAIN Table["Stop"] => Table["Stop"][ul] = "Disabled"
    BY DEF Table
  <2> QED BY <1>s, <2>1, <2>2, UploadRejected, UploadDisabled
<1>4. CASE OnuUp /\ ul = "Disabled"
  <2>1. Transition("Start", "dh", pend, FALSE) /\ UNCHANGED <<chan, back>> /\ "Start" \in Events
    BY <1>4, EventNames DEF OnuUp
  <2>2. ul \in DOMAIN Table["Start"] /\ Table["Start"][ul] = "Starting"
    BY <1>4 DEF Table
  <2> QED BY <1>s, <2>1, <2>2, UploadBegun
<1> QED BY <1>1, <1>2, <1>3, <1>4

\* The account holds in the beginning.
LEMMA UploadInit ==
  ASSUME Init
  PROVE  Upload
<1>1. ul = "Disabled" /\ sent = <<>> /\ back = <<>> /\ chan = <<>>
  BY DEF Init
<1>2. ~dev.panic /\ up.db = "none"
  BY DEF Init
<1>3. Absent("next") /\ Absent("upload")
  BY <1>1, HasEmpty DEF Absent
<1> QED BY <1>1, <1>2, <1>3 DEF Upload, Database, Served, Live

\* Every step keeps it.
LEMMA UploadStep ==
  ASSUME ImageInv, Frame, Wire, Upload, [Next]_vars
  PROVE  Upload'
<1>1. CASE Stays
  BY <1>1, UploadElsewhere, UploadChannels, UploadAnswer, UploadTemplate, UploadTestMsg, UploadResponse,
     UploadNextResponse, UploadOtherAnswers DEF Stays, Callbacks, Processor, Requests
<1>2. CASE OnuRepeats
  BY <1>2, Repeated DEF Upload, Database, Live, ImageInv
<1>3. CASE ~Stays /\ ~OnuRepeats
  BY <1>3, StepsOf, WireStep, UploadEvents
<1> QED BY <1>1, <1>2, <1>3

\* HandleMibUploadNextResponse: in a run that began with nothing left of an
\* earlier one, and as long as no answer is repeated, a MIB upload that counts
\* as done has received all of its commands, or a template stands for it; the
\* adapter does not finish a database that nobody created nor unlock a mutex
\* that is not locked.  This is for every number of commands and every number
\* of disturbances, and for the answers that come after the end of the run too.
THEOREM UploadIsComplete == Spec => []UploadComplete
<1> DEFINE Inv == ImageInv /\ Frame /\ Wire /\ Upload
<1>1. Init => Inv
  BY ImageInvInit, FrameInit, WireInit, UploadInit
<1>2. Inv /\ [Next]_vars => Inv'
  <2>1. ImageInv => Shape
    BY DEF ImageInv
  <2> QED BY <2>1, ImageInvStep, FrameStep, WireStep, UploadStep
<1>3. Inv => UploadComplete
  BY DEF Upload, Database, UploadEnded, Complete, Live, UploadComplete
<1> HIDE DEF Inv
<1> QED BY <1>1, <1>2, <1>3, PTL DEF Spec

-----------------------------------------------------------------------------
(***************************************************************************)
(* The life of the ONU.  What the device handler knows, and whether the    *)
(* other FSMs run, in the states of a run that began with empty channels.  *)
(***************************************************************************)
\* The states before the MIB of a run is there.
EarlyStates == {"Disabled", "Starting", "ResettingMib", "TestingExtOmciSupport"} \cup GetStates

\* While the ONU is lost nobody waits for its flows, and the FSM is disabled or
\* was at least caught before the MIB was there.
EndedWithTheOnu == dh = "off" => ul \in EarlyStates /\ ~flow

\* The states of an ONU whose MIB is known, and those on the way there.
SyncedStates == {"InSync", "Auditing", "ReAuditing"}
UpStates == GetStates \cup {"ResettingMib", "TestingExtOmciSupport", "GettingMibTemplate", "Uploading"}

\* The other FSMs configure an ONU whose MIB has been in sync.
Configured ==
  /\ cfg.air => cfg.run
  /\ cfg.run => dev.synced
  /\ ul \in SyncedStates => dev.synced

\* A run that is about to start.
BeforeRun ==
  dh \in {"off", "started"} =>
    ~cfg.run /\ dev.state = "init" /\ (dev.synced => ~dev.blank) /\ (dev.synced \/ dev.recon = "no")

\* An ONU that was reset is about to be provisioned, unless the reset ran into
\* reconciling.
Provisioned == ~dev.midway => (dev.blank => dev.note)

\* In a run: the device state, and that the other FSMs are idle.
LifeOfRun ==
  /\ ul \in Examining => ~cfg.run /\ dev.synced /\ dev.state = "init" /\ ~dev.blank
  /\ ul \in UpStates /\ ~dev.midway => ~cfg.run /\ dev.state = "init"
  /\ ul = "UploadDone" => dev.state = "sync" /\ (~dev.midway => ~cfg.run) /\ Provisioned
  /\ ul = "ExaminingMdsSuccess" /\ Waits("Success") => dev.recon = "no"
  /\ ul \in SyncedStates => (dev.recon = "omci" => dev.state = "sync") /\ Provisioned

Life == Configured /\ BeforeRun /\ (Live => LifeOfRun)

-----------------------------------------------------------------------------
\* A step that leaves the device and the configuration alone, as far as they
\* matter here.
LEMMA LifeKept ==
  ASSUME Life, ul' = ul, cfg' = cfg, dev'.clean = dev.clean, dev'.midway = dev.midway,
         dev'.synced = dev.synced, dev'.state = dev.state, dev'.recon = dev.recon \/ dev'.recon = "no",
         (dev'.blank = dev.blank /\ dev'.note = dev.note) \/ ~dev'.blank,
         dh' \in {"off", "started"} => dh \in {"off", "started"},
         Live /\ ul = "ExaminingMdsSuccess" /\ Waits("Success")' => Waits("Success") \/ dev'.recon = "no"
  PROVE  Life'
<1>1. Configured'
  BY DEF Life, Configured
<1>2. BeforeRun'
  BY DEF Life, BeforeRun
<1>3. Provisioned => Provisioned'
  BY DEF Provisioned
<1>4. Live' => LifeOfRun'
  BY <1>3 DEF Life, Live, LifeOfRun
<1> QED BY <1>1, <1>2, <1>4 DEF Life

\* In a live run that restores the configuration there is nothing to read.
LEMMA NoReading ==
  ASSUME Shape, Wire, Live, Take, back' = back, Message.req \in Tokens
  PROVE  ul # "ExaminingMdsSuccess"
BY Reads, AskedNames DEF Wire

\* The goroutines that end a callback.
LEMMA LifeCallbacks ==
  ASSUME ImageInv, Frame, Wire, Life, EndedWithTheOnu, Stays, Callbacks
  PROVE  Life'
<1>s. /\ Shape /\ DOMAIN dev = DevMembers /\ ul' = ul /\ dev'.clean = dev.clean /\ dev'.midway = dev.midway
  BY StaysPut DEF ImageInv, Shape
<1>c. \A at \in DOMAIN CbIn : cb.at = at => ul = CbIn[at] /\ cb # NoCb
  BY DEF Frame, CbIn, NoCb
<1>g. \A v : Go(v).ev = v
  BY DEF Go
<1>1. CASE TestingEnds \/ TemplateSearched \/ TPsVerified \/ RestoreFails
  <2>1. UNCHANGED <<dev, cfg>> /\ dh' \in {dh, "up"}
    BY <1>1 DEF TestingEnds, TemplateSearched, TPsVerified, RestoreFails, CallbackEnds
  <2>2. ul = "ExaminingMdsSuccess" /\ Waits("Success")' => Waits("Success")
    <3>1. CASE TestingEnds \/ TemplateSearched \/ TPsVerified
      <4>1. cb.at \in {"test", "template", "verify"}
        BY <3>1 DEF TestingEnds, TemplateSearched, TPsVerified, CallbackEnds
      <4> QED BY <4>1, <1>c DEF CbIn
    <3>2. CASE RestoreFails
      <4>1. pend' = pend \cup {Go("Mismatch")}
        BY <3>2 DEF RestoreFails
      <4> QED BY <4>1, <1>g DEF Waits
    <3> QED BY <1>1, <3>1, <3>2
  <2> QED BY <1>s, <2>1, <2>2, LifeKept
<1>2. CASE RestoreEndsWithoutFlows \/ FlowsReconciled
  <2>1. /\ cfg' = cfg /\ dh' \in {dh, "up"}
        /\ \/ dev' = [dev EXCEPT !.recon = "no", !.ready = TRUE] \/ dev' = [dev EXCEPT !.recon = "no", !.service = TRUE]
           \/ dev' = [dev EXCEPT !.recon = "no"]
    BY <1>2 DEF RestoreEndsWithoutFlows, FlowsReconciled, CallbackEnds
  <2>2. /\ dev'.synced = dev.synced /\ dev'.state = dev.state /\ dev'.recon = "no" /\ dev'.blank = dev.blank
        /\ dev'.note = dev.note
    BY <1>s, <2>1 DEF DevMembers
  <2> QED BY <1>s, <2>1, <2>2, LifeKept
<1>3. CASE RestoreTPs
  <2>1. /\ cb.at = "restore" /\ UNCHANGED <<cfg, dh, pend>>
        /\ \E v : dev' = [dev EXCEPT !.recon = v, !.ready = TRUE]
    BY <1>3 DEF RestoreTPs
  <2>2. ul = "ExaminingMdsSuccess" /\ cb # NoCb
    BY <2>1, <1>c DEF CbIn
  <2>3. dev'.synced = dev.synced /\ dev'.state = dev.state /\ dev'.blank = dev.blank
    BY <1>s, <2>1 DEF DevMembers
  <2>5. Configured'
    BY <1>s, <2>1, <2>3 DEF Life, Configured
  <2>6. dh \notin {"off", "started"}
    BY <2>2 DEF ImageInv, FreshStart, EndedWithTheOnu, EarlyStates, GetStates
  <2>7. ASSUME Live PROVE LifeOfRun'
    <3>1. Idle /\ "Success" \in Progress
      BY <2>1, <2>2, <2>7, EventNames DEF Wire, OneThing, OneCallback, Progress
    <3>2. ~Waits("Success")'
      BY <2>1, <3>1 DEF Idle, Waits
    <3>3. ul \notin UpStates /\ ul \notin SyncedStates
      BY <2>2 DEF UpStates, SyncedStates, GetStates
    <3> QED BY <1>s, <2>1, <2>2, <2>3, <2>7, <3>2, <3>3 DEF Life, LifeOfRun
  <2> QED BY <1>s, <2>1, <2>3, <2>5, <2>6, <2>7 DEF Life, Live, BeforeRun
<1> QED BY <1>1, <1>2, <1>3 DEF Callbacks

\* The message processor, the timers, the channels and the device handler.
LEMMA LifeQuiet ==
  ASSUME ImageInv, Wire, Life, Stays,
         \/ Processor \/ Timers \/ Requests \/ OnuDiverges \/ OnuDown \/ ProcessMibDatabaseSync
         \/ ReconcilingEnds \/ CancelAborts \/ (OnuUp /\ ul # "Disabled") \/ UNCHANGED vars
  PROVE  Life'
<1>s. /\ Shape /\ DOMAIN dev = DevMembers /\ ul' = ul /\ dev'.clean = dev.clean /\ dev'.midway = dev.midway
  BY StaysPut DEF ImageInv, Shape
<1>1. CASE Processor
  <2>1. cfg' = cfg /\ dh' = dh /\ (dev' = dev \/ \E v : dev' = [dev EXCEPT !.panic = v])
    BY <1>1 DEF Processor, ProcStarts, RxSignalEnds, HandleTestMsg, HandleMibResetResponse,
                HandleMibUploadResponse, HandleMibUploadNextResponse, HandleGetResponse
  <2>2. /\ dev'.synced = dev.synced /\ dev'.state = dev.state /\ dev'.recon = dev.recon /\ dev'.blank = dev.blank
        /\ dev'.note = dev.note
    BY <1>s, <2>1 DEF DevMembers
  <2>3. Live /\ ul = "ExaminingMdsSuccess" /\ Waits("Success")' => Waits("Success")
    <3>1. CASE ProcStarts \/ RxSignalEnds
      <4>1. pend' \subseteq pend \cup {Go("Stop")} /\ Go("Stop").ev = "Stop"
        BY <3>1 DEF ProcStarts, RxSignalEnds, Go
      <4> QED BY <4>1 DEF Waits
    <3>2. CASE ~(ProcStarts \/ RxSignalEnds)
      <4>1. Take /\ back' = back /\ Message.req \in Tokens
        BY <1>1, <3>2 DEF Processor, HandleTestMsg, HandleMibResetResponse, HandleMibUploadResponse,
                          HandleMibUploadNextResponse, HandleGetResponse, Is, Tokens, Reqs
      <4> QED BY <1>s, <4>1, NoReading
    <3> QED BY <3>1, <3>2
  <2> QED BY <1>s, <2>1, <2>2, <2>3, LifeKept
<1>2. CASE Timers \/ Requests \/ OnuDiverges \/ OnuDown \/ CancelAborts \/ (OnuUp /\ ul # "Disabled") \/ UNCHANGED vars
  <2>1. /\ cfg' = cfg /\ (dh' = dh \/ dh' \in {"cancel", "clear", "stop", "refused"})
        /\ \/ dev' = dev \/ dev' = [dev EXCEPT !.intact = TRUE] \/ dev' = [dev EXCEPT !.intact = FALSE]
           \/ dev' = [dev EXCEPT !.raise = FALSE]
    BY <1>2 DEF Timers, FlowExpiry, AuditTimer, Requests, OnuAnswers, Deliver, RequestTimeout, RequestLost,
                OnuDiverges, OnuDown, CancelAborts, OnuUp, vars
  <2>2. /\ dev'.synced = dev.synced /\ dev'.state = dev.state /\ dev'.recon = dev.recon /\ dev'.blank = dev.blank
        /\ dev'.note = dev.note
    BY <1>s, <2>1 DEF DevMembers
  <2>3. pend' \subseteq pend \cup {Go("Mismatch"), Go("AuditMib")} /\ Go("Mismatch").ev # "Success" /\ Go("AuditMib").ev # "Success"
    BY <1>2 DEF Timers, FlowExpiry, AuditTimer, Requests, OnuAnswers, Deliver, RequestTimeout, RequestLost,
                OnuDiverges, OnuDown, CancelAborts, OnuUp, vars, Go
  <2>4. Waits("Success")' => Waits("Success")
    BY <2>3 DEF Waits
  <2> QED BY <1>s, <2>1, <2>2, <2>4, LifeKept
<1>3. CASE ProcessMibDatabaseSync \/ ReconcilingEnds
  <2>1. /\ UNCHANGED <<cfg, dh, pend>>
        /\ \/ dev' = [dev EXCEPT !.note = FALSE, !.raise = FALSE, !.ready = TRUE, !.blank = FALSE]
           \/ dev' = [dev EXCEPT !.recon = "no", !.service = TRUE] \/ dev' = [dev EXCEPT !.recon = "no"]
    BY <1>3 DEF ProcessMibDatabaseSync, ReconcilingEnds
  <2>2. /\ dev'.synced = dev.synced /\ dev'.state = dev.state /\ (dev'.recon = dev.recon \/ dev'.recon = "no")
        /\ (dev'.blank = dev.blank /\ dev'.note = dev.note) \/ ~dev'.blank
    BY <1>s, <2>1 DEF DevMembers
  <2>3. Waits("Success")' => Waits("Success")
    BY <2>1 DEF Waits
  <2> QED BY <1>s, <2>1, <2>2, <2>3, LifeKept
<1> QED BY <1>1, <1>2, <1>3

\* The other FSMs configure the ONU, and the adapter forgets a lost ONU.
LEMMA LifeConfiguration ==
  ASSUME ImageInv, Frame, Life, EndedWithTheOnu, EndedWithTheOnu', Stays, Configuration \/ UpdateInterface
  PROVE  Life'
<1>s. /\ Shape /\ DOMAIN dev = DevMembers /\ ul' = ul /\ dev'.clean = dev.clean /\ dev'.midway = dev.midway
      /\ DOMAIN cfg = {"run", "air", "n"}
  BY StaysPut DEF ImageInv, Shape, Frame
<1>1. CASE Configuration
  <2>1. UNCHANGED <<dh, pend>>
    BY <1>1 DEF Configuration, ConfigStarts, OnuExecutes, ConfigResponse, ConfigEnds
  <2>2. \/ dev' = dev \/ dev' = [dev EXCEPT !.touched = TRUE] \/ dev' = [dev EXCEPT !.service = TRUE]
    BY <1>1 DEF Configuration, ConfigStarts, OnuExecutes, ConfigResponse, ConfigEnds
  <2>3. /\ dev'.synced = dev.synced /\ dev'.state = dev.state /\ dev'.recon = dev.recon /\ dev'.blank = dev.blank
        /\ dev'.note = dev.note
    BY <1>s, <2>2 DEF DevMembers
  <2>5. cfg'.run = cfg.run \/ cfg'.run = FALSE \/ (cfg'.run = TRUE /\ ul \in SyncedStates /\ ~cfg.run)
    <3>1. ConfigStarts => cfg' = [cfg EXCEPT !.run = TRUE] /\ ul \in SyncedStates /\ ~cfg.run
      BY DEF ConfigStarts, SyncedStates
    <3>2. OnuExecutes => cfg' = [cfg EXCEPT !.air = TRUE, !.n = @ + 1]
      BY DEF OnuExecutes
    <3>3. ConfigResponse => cfg' = [cfg EXCEPT !.air = FALSE]
      BY DEF ConfigResponse
    <3>4. ConfigEnds => cfg' = [cfg EXCEPT !.run = FALSE]
      BY DEF ConfigEnds
    <3> QED BY <1>s, <1>1, <3>1, <3>2, <3>3, <3>4 DEF Configuration
  <2>6. cfg'.air => cfg'.run
    <3>1. ConfigStarts => cfg' = [cfg EXCEPT !.run = TRUE]
      BY DEF ConfigStarts
    <3>2. OnuExecutes => cfg' = [cfg EXCEPT !.air = TRUE, !.n = @ + 1] /\ cfg.run
      BY DEF OnuExecutes
    <3>3. ConfigResponse => cfg' = [cfg EXCEPT !.air = FALSE]
      BY DEF ConfigResponse
    <3>4. ConfigEnds => cfg' = [cfg EXCEPT !.run = FALSE] /\ ~cfg.air
      BY DEF ConfigEnds
    <3> QED BY <1>s, <1>1, <3>1, <3>2, <3>3, <3>4 DEF Configuration
  <2>7. Configured'
    BY <1>s, <2>3, <2>5, <2>6 DEF Life, Configured
  <2>8. ul \in SyncedStates => dh \notin {"off", "started"} /\ ul \notin Examining \cup UpStates \cup {"UploadDone"}
    BY DEF SyncedStates, Examining, UpStates, EarlyStates, GetStates, ImageInv, FreshStart, EndedWithTheOnu
  <2>9. BeforeRun'
    BY <2>1, <2>3, <2>5, <2>8 DEF Life, BeforeRun
  <2>10. (Waits("Success")' <=> Waits("Success")) /\ (Provisioned => Provisioned')
    BY <1>s, <2>1, <2>3 DEF Waits, Provisioned
  <2>11. Live => LifeOfRun'
    BY <1>s, <2>3, <2>5, <2>8, <2>10 DEF Life, LifeOfRun
  <2> QED BY <1>s, <2>7, <2>9, <2>11 DEF Life, Live
<1>2. CASE UpdateInterface
  <2>1. /\ dh' = "off" /\ cfg' = [cfg EXCEPT !.run = FALSE, !.air = FALSE]
        /\ dev' = [dev EXCEPT !.recon = "no", !.synced = FALSE, !.state = "init", !.ready = FALSE,
                              !.service = FALSE, !.intact = FALSE]
    BY <1>2 DEF UpdateInterface
  <2>2. dev'.recon = "no" /\ ~dev'.synced /\ dev'.state = "init" /\ ~cfg'.run /\ ~cfg'.air
    BY <1>s, <2>1 DEF DevMembers
  <2>3. ul' \notin Examining \cup SyncedStates \cup {"UploadDone"}
    BY <2>1 DEF EndedWithTheOnu, EarlyStates, GetStates, Examining, SyncedStates
  <2>4. Configured' /\ BeforeRun'
    BY <2>2, <2>3 DEF Configured, BeforeRun
  <2>5. LifeOfRun'
    BY <2>2, <2>3 DEF LifeOfRun, Examining
  <2> QED BY <2>4, <2>5 DEF Life
<1> QED BY <1>1, <1>2

-----------------------------------------------------------------------------
(* The steps of the FSM in the life of the ONU.                            *)

\* Where the states come from.
LEMMA LifeMoves ==
  ASSUME NEW ev \in Events, NEW s \in DOMAIN Table[ev]
  PROVE  /\ Table[ev][s] = "ResettingMib" => s \in Examining \cup {"Starting", "ReAuditing"}
         /\ Table[ev][s] = "VerifyingAndStoringTPs" => s = "Starting"
         /\ Table[ev][s] = "ExaminingMds" => s = "VerifyingAndStoringTPs"
         /\ Table[ev][s] = "ExaminingMdsSuccess" => s = "ExaminingMds"
         /\ Table[ev][s] \in UpStates \ {"ResettingMib"} => s \in UpStates
         /\ Table[ev][s] = "UploadDone" => s \in {"GettingMibTemplate", "Uploading"}
         /\ Table[ev][s] = "InSync" => ev = "Success" /\ s \in {"UploadDone", "ExaminingMdsSuccess", "Auditing", "ReAuditing"}
         /\ Table[ev][s] \in {"Auditing", "ReAuditing"} => s \in {"InSync", "Auditing"}
         /\ s \in EarlyStates => s \in {"Disabled", "Starting"} \/ Table[ev][s] \in {"Disabled", "Starting"} \cup UpStates
BY DEF Events, Table, States, Stoppable, GetStates, Examining, UpStates, EarlyStates

\* An event takes the run further.
LEMMA LifeTaken ==
  ASSUME Shape, Frame, Life, NEW ev \in Events, NEW by, NEW base, NEW err \in BOOLEAN,
         Transition(ev, by, base, err), ul \in DOMAIN Table[ev],
         Table[ev][ul] \notin {"Disabled", "Starting"},
         dh' \in {"off", "started"} => dh = "off" /\ Table[ev][ul] \in UpStates \ {"ResettingMib"},
         dev.clean => \A x \in base : x.ev \notin Progress,
         dev.clean => Live \/ (ul = "Starting" /\ dh = "started"),
         Table[ev][ul] = "VerifyingAndStoringTPs" => dev.synced,
         ev = "Success" => Waits(ev)
  PROVE  Life'
<1>s. DOMAIN dev = DevMembers /\ DOMAIN cfg = {"run", "air", "n"}
  BY DEF Shape, Frame
<1> DEFINE d == Table[ev][ul]
<1>1. PICK e : Does(e, base)
  BY Taken
<1>2. Leaves(e, ul') /\ dev' = e.dev /\ cfg' = e.cfg
  BY <1>1 DEF Does
<1>d. ul' = d /\ d \in States \ {"Disabled", "Starting"} /\ dev'.clean = dev.clean
  BY Taken, TakenDev
<1>b. BeforeRun'
  <2>1. dh' \in {"off", "started"} => ul' \in UpStates \ {"ResettingMib"}
    BY <1>d
  <2>2. dh' \in {"off", "started"} => dev' = dev /\ cfg' = cfg
    BY <1>2, <2>1 DEF Leaves, UpStates, GetStates
  <2> QED BY <2>2 DEF Life, BeforeRun
<1>w. ASSUME dev.clean PROVE ~(ul' = "ExaminingMdsSuccess" /\ Waits("Success")')
  <2>1. "Success" \in Progress
    BY EventNames DEF Progress
  <2> QED BY <1>w, <2>1, SentTaken
<1>v. ul = "Starting" /\ dh = "started" => ~Live
  BY DEF Live
<1>r. dev.clean /\ ul # "Starting" => LifeOfRun
  BY DEF Life
<1>3. CASE d = "ResettingMib"
  <2>1. /\ cfg' = (IF Again THEN [cfg EXCEPT !.run = FALSE, !.air = FALSE] ELSE cfg)
        /\ dev' = [Restarted EXCEPT !.blank = TRUE, !.midway = dev.recon = "omci" /\ dev.state = "sync"]
    BY <1>2, <1>3, <1>d DEF Leaves
  <2>2. /\ DOMAIN Restarted = DevMembers /\ Restarted.synced = dev.synced
        /\ Restarted.state = IF Again THEN "init" ELSE dev.state
    BY <1>s DEF Restarted, DevMembers
  <2>3. /\ dev'.synced = dev.synced /\ dev'.state = (IF Again THEN "init" ELSE dev.state)
        /\ dev'.midway = (dev.recon = "omci" /\ dev.state = "sync")
    BY <2>1, <2>2 DEF DevMembers
  <2>4. (cfg'.run => cfg.run /\ ~Again) /\ (cfg'.air => cfg.air /\ ~Again) /\ (Again => ~cfg'.run /\ ~cfg'.air) /\ (~Again => cfg' = cfg)
    BY <1>s, <2>1
  <2>5. ul' \notin SyncedStates /\ ul' \in UpStates /\ ul' \notin Examining
    BY <1>3, <1>d DEF SyncedStates, UpStates, Examining, GetStates
  <2>6. Configured'
    BY <2>3, <2>4, <2>5 DEF Life, Configured
  <2>7. ASSUME dev.clean PROVE LifeOfRun'
    <3>1. ul \in Examining \cup {"Starting", "ReAuditing"}
      BY <1>3, LifeMoves
    <3>2. ASSUME ~dev'.midway PROVE ~cfg'.run /\ dev'.state = "init"
      <4>1. CASE Again
        BY <2>3, <2>4, <4>1
      <4>2. CASE ~Again
        <5>1. ~cfg.run /\ dev.state = "init"
          <6>1. CASE ul \in Examining
            <7>1. LifeOfRun
              BY <1>r, <2>7, <6>1 DEF Examining
            <7> QED BY <6>1, <7>1 DEF LifeOfRun
          <6>2. CASE ul = "Starting"
            <7>1. dh = "started"
              BY <2>7, <6>2 DEF Live
            <7> QED BY <7>1 DEF Life, BeforeRun
          <6>3. CASE ul = "ReAuditing"
            <7>1. LifeOfRun /\ ul \in SyncedStates
              BY <1>r, <2>7, <6>3 DEF SyncedStates
            <7>2. dev.recon = "omci" => dev.state = "sync"
              BY <7>1 DEF LifeOfRun
            <7>3. dev.recon = "omci"
              <8>1. dev.synced
                BY <7>1 DEF Life, Configured
              <8> QED BY <4>2, <8>1 DEF Again, Frame
            <7> QED BY <3>2, <2>3, <7>2, <7>3
          <6> QED BY <3>1, <6>1, <6>2, <6>3
        <5> QED BY <2>3, <2>4, <4>2, <5>1
      <4> QED BY <4>1, <4>2
    <3> QED BY <1>3, <1>d, <2>5, <3>2 DEF LifeOfRun
  <2> QED BY <1>b, <1>d, <2>6, <2>7 DEF Life, Live
<1>4. CASE d \in Examining
  <2>1. dev' = dev /\ cfg' = cfg
    BY <1>2, <1>4, <1>d DEF Leaves, Examining
  <2>2. ul' \notin SyncedStates /\ ul' \notin UpStates /\ ul' # "UploadDone"
    BY <1>4, <1>d DEF SyncedStates, UpStates, Examining, GetStates
  <2>3. Configured'
    BY <2>1, <2>2 DEF Life, Configured
  <2>4. ASSUME dev.clean PROVE ~cfg.run /\ dev.synced /\ dev.state = "init" /\ ~dev.blank
    <3>1. CASE d = "VerifyingAndStoringTPs"
      <4>1. ul = "Starting"
        BY <3>1, LifeMoves
      <4>2. dh = "started" /\ dev.synced
        BY <2>4, <3>1, <4>1 DEF Live
      <4> QED BY <4>2 DEF Life, BeforeRun
    <3>2. CASE d \in {"ExaminingMds", "ExaminingMdsSuccess"}
      <4>1. ul \in Examining
        BY <3>2, LifeMoves DEF Examining
      <4>2. LifeOfRun
        BY <1>r, <2>4, <4>1 DEF Examining
      <4> QED BY <4>1, <4>2 DEF LifeOfRun
    <3> QED BY <1>4, <3>1, <3>2 DEF Examining
  <2>5. dev.clean => LifeOfRun'
    BY <1>w, <2>1, <2>2, <2>4 DEF LifeOfRun
  <2> QED BY <1>b, <1>d, <2>3, <2>5 DEF Life, Live
<1>5. CASE d \in UpStates \ {"ResettingMib"}
  <2>1. dev' = dev /\ cfg' = cfg
    BY <1>2, <1>5, <1>d DEF Leaves, UpStates, GetStates
  <2>2. ul' \notin SyncedStates /\ ul' \notin Examining /\ ul' # "UploadDone"
    BY <1>5, <1>d DEF SyncedStates, UpStates, Examining, GetStates
  <2>3. Configured'
    BY <2>1, <2>2 DEF Life, Configured
  <2>4. ASSUME dev.clean PROVE LifeOfRun'
    <3>1. ul \in UpStates
      BY <1>5, LifeMoves
    <3>2. LifeOfRun
      BY <1>r, <2>4, <3>1 DEF UpStates, GetStates
    <3> QED BY <2>1, <2>2, <3>1, <3>2 DEF LifeOfRun, Examining
  <2> QED BY <1>b, <1>d, <2>3, <2>4 DEF Life, Live
<1>6. CASE d = "UploadDone"
  <2>1. /\ dev' = (IF dev.state = "init" THEN [dev EXCEPT !.state = "sync", !.note = TRUE] ELSE dev)
        /\ cfg' = cfg
    BY <1>2, <1>6, <1>d DEF Leaves
  <2>2. /\ dev'.synced = dev.synced /\ dev'.midway = dev.midway
        /\ dev'.state = "sync" /\ (dev.state = "init" => dev'.note)
    BY <1>s, <2>1 DEF DevMembers, Frame
  <2>3. ul' \notin SyncedStates /\ ul' \notin Examining /\ ul' \notin UpStates
    BY <1>6, <1>d DEF SyncedStates, UpStates, Examining, GetStates
  <2>4. Configured'
    BY <2>1, <2>2, <2>3 DEF Life, Configured
  <2>5. ASSUME dev.clean PROVE LifeOfRun'
    <3>1. ul \in {"GettingMibTemplate", "Uploading"}
      BY <1>6, LifeMoves
    <3>2. LifeOfRun /\ ul \in UpStates
      BY <1>r, <2>5, <3>1 DEF UpStates
    <3>3. ~dev.midway => ~cfg.run /\ dev.state = "init"
      BY <3>2 DEF LifeOfRun
    <3>4. Provisioned'
      BY <2>2, <3>3 DEF Provisioned
    <3> QED BY <1>6, <1>d, <2>1, <2>2, <2>3, <3>3, <3>4 DEF LifeOfRun, Examining
  <2> QED BY <1>b, <1>d, <2>4, <2>5 DEF Life, Live
<1>7. CASE d = "InSync"
  <2>1. dev' = [dev EXCEPT !.synced = TRUE] /\ cfg' = cfg
    BY <1>2, <1>7, <1>d DEF Leaves
  <2>2. /\ dev'.synced /\ dev'.state = dev.state /\ dev'.midway = dev.midway /\ dev'.blank = dev.blank
        /\ dev'.note = dev.note /\ dev'.recon = dev.recon
    BY <1>s, <2>1 DEF DevMembers
  <2>3. ul' \notin Examining /\ ul' \notin UpStates /\ ul' # "UploadDone"
    BY <1>7, <1>d DEF UpStates, Examining, GetStates
  <2>4. Configured'
    BY <2>1, <2>2 DEF Life, Configured
  <2>5. ASSUME dev.clean PROVE LifeOfRun'
    <3>1. ul \in {"UploadDone", "ExaminingMdsSuccess", "Auditing", "ReAuditing"} /\ Waits("Success")
      BY <1>7, LifeMoves
    <3>2. LifeOfRun
      BY <1>r, <2>5, <3>1
    <3>3. (dev.recon = "omci" => dev.state = "sync") /\ Provisioned
      <4>1. CASE ul = "UploadDone"
        BY <3>2, <4>1 DEF LifeOfRun
      <4>2. CASE ul = "ExaminingMdsSuccess"
        BY <3>1, <3>2, <4>2 DEF LifeOfRun, Provisioned, Examining
      <4>3. CASE ul \in {"Auditing", "ReAuditing"}
        BY <3>2, <4>3 DEF LifeOfRun, SyncedStates
      <4> QED BY <3>1, <4>1, <4>2, <4>3
    <3>4. Provisioned'
      BY <2>2, <3>3 DEF Provisioned
    <3> QED BY <2>2, <2>3, <3>3, <3>4 DEF LifeOfRun, Examining
  <2> QED BY <1>b, <1>d, <2>4, <2>5 DEF Life, Live
<1>8. CASE d \in {"Auditing", "ReAuditing"}
  <2>1. (dev' = dev \/ dev' = [dev EXCEPT !.touched = FALSE]) /\ cfg' = cfg
    BY <1>2, <1>8, <1>d DEF Leaves
  <2>2. /\ dev'.synced = dev.synced /\ dev'.state = dev.state /\ dev'.midway = dev.midway /\ dev'.blank = dev.blank
        /\ dev'.note = dev.note /\ dev'.recon = dev.recon
    BY <1>s, <2>1 DEF DevMembers
  <2>3. ul' \notin Examining /\ ul' \notin UpStates /\ ul' # "UploadDone"
    BY <1>8, <1>d DEF UpStates, Examining, GetStates
  <2>4. ul \in {"InSync", "Auditing"} /\ ul \in SyncedStates
    BY <1>8, LifeMoves DEF SyncedStates
  <2>5. Configured'
    BY <2>1, <2>2, <2>4 DEF Life, Configured
  <2>6. ASSUME dev.clean PROVE LifeOfRun'
    <3>1. LifeOfRun
      BY <1>r, <2>4, <2>6
    <3>2. Provisioned => Provisioned'
      BY <2>2 DEF Provisioned
    <3> QED BY <2>2, <2>3, <2>4, <3>1, <3>2 DEF LifeOfRun, Examining
  <2> QED BY <1>b, <1>d, <2>5, <2>6 DEF Life, Live
<1> HIDE DEF d
<1> QED BY <1>3, <1>4, <1>5, <1>6, <1>7, <1>8, <1>d DEF States, Stoppable, Examining, UpStates

-----------------------------------------------------------------------------
\* An event is rejected, ends the run or begins one.
LEMMA LifeElsewhere ==
  ASSUME Shape, Frame, Life, NEW ev \in Events, NEW by, NEW base, base \subseteq pend, NEW err \in BOOLEAN,
         Transition(ev, by, base, err), ul \in DOMAIN Table[ev] => Table[ev][ul] \in {"Disabled", "Starting"},
         dh' \in {"off", "started"} => dh \in {"off", "started"}
  PROVE  Life'
<1>s. DOMAIN dev = DevMembers
  BY DEF Shape
<1>1. CASE ul \notin DOMAIN Table[ev]
  <2>1. UNCHANGED <<ul, dev, cfg>> /\ pend' \subseteq pend
    BY <1>1 DEF Transition
  <2>2. Waits("Success")' => Waits("Success")
    BY <2>1 DEF Waits
  <2> QED BY <2>1, <2>2, LifeKept
<1>2. CASE ul \in DOMAIN Table[ev]
  <2>1. /\ ul' \in {"Disabled", "Starting"} /\ cfg' = cfg
        /\ \/ dev' = [dev EXCEPT !.raise = FALSE]
           \/ \E c \in BOOLEAN : dev' = [dev EXCEPT !.raise = TRUE, !.panic = FALSE, !.clean = c]
    <3>1. CASE Table[ev][ul] = "Starting"
      BY <1>2, <3>1, Begun
    <3>2. CASE Table[ev][ul] = "Disabled"
      <4>1. PICK e : Does(e, base)
        BY <1>2, <3>2, Taken
      <4>2. Leaves(e, ul') /\ dev' = e.dev /\ cfg' = e.cfg /\ ul' = "Disabled"
        BY <1>2, <3>2, <4>1, Taken DEF Does
      <4> QED BY <4>2 DEF Leaves
    <3> QED BY <1>2, <3>1, <3>2
  <2>2. dev'.synced = dev.synced /\ dev'.state = dev.state /\ dev'.recon = dev.recon /\ dev'.blank = dev.blank
    BY <1>s, <2>1 DEF DevMembers
  <2>3. Configured'
    BY <2>1, <2>2 DEF Life, Configured, SyncedStates
  <2>4. BeforeRun'
    BY <2>1, <2>2 DEF Life, BeforeRun
  <2> QED BY <2>1, <2>3, <2>4 DEF Life, Live
<1> QED BY <1>1, <1>2

\* Goroutines' events find the ONU past its start, the device handler's first
\* one is the right one.
LEMMA LifeEvents ==
  ASSUME ImageInv, Frame, Wire, Life, EndedWithTheOnu,
         Fire \/ FirstEvent \/ CancelStopsFsm \/ (OnuUp /\ ul = "Disabled")
  PROVE  Life'
<1>s. Shape
  BY DEF ImageInv
<1>1. CASE Fire
  <2>1. PICK e \in pend, err \in BOOLEAN : Transition(e.ev, e.by, pend \ {e}, err)
    BY <1>1 DEF Fire
  <2>2. dh' = dh /\ e.ev \in Events /\ e.ev \in PostedEvents /\ Waits(e.ev)
    BY <1>1, <1>s DEF Fire, Shape, Posts, PostedEvents, Waits
  <2>3. CASE ul \in DOMAIN Table[e.ev] => Table[e.ev][ul] \in {"Disabled", "Starting"}
    BY <1>s, <2>1, <2>2, <2>3, LifeElsewhere
  <2>4. CASE ul \in DOMAIN Table[e.ev] /\ Table[e.ev][ul] \notin {"Disabled", "Starting"}
    <3>1. dev.clean => Live /\ \A x \in pend \ {e} : x.ev \notin Progress
      BY <1>s, <2>4, FiredAlone
    <3>2. ul \notin {"Disabled", "Starting"}
      BY <2>2, <2>4, Moves DEF PostedEvents
    <3>3. dh' \in {"off", "started"} => dh = "off" /\ Table[e.ev][ul] \in UpStates \ {"ResettingMib"}
      <4>1. dh # "started"
        BY <3>2 DEF ImageInv, FreshStart
      <4>2. dh = "off" => ul \in EarlyStates /\ ul \notin Examining \cup {"ReAuditing"}
        BY DEF EndedWithTheOnu, EarlyStates, GetStates, Examining
      <4>3. dh = "off" => Table[e.ev][ul] \in UpStates
        BY <2>2, <2>4, <3>2, <4>2, LifeMoves
      <4>4. dh = "off" => Table[e.ev][ul] # "ResettingMib"
        BY <2>2, <2>4, <3>2, <4>2, LifeMoves
      <4> QED BY <2>2, <4>1, <4>3, <4>4
    <3>4. Table[e.ev][ul] # "VerifyingAndStoringTPs"
      BY <2>2, <2>4, <3>2, LifeMoves
    <3> QED BY <1>s, <2>1, <2>2, <2>4, <3>1, <3>3, <3>4, LifeTaken
  <2> QED BY <2>3, <2>4
<1>2. CASE FirstEvent
  <2> DEFINE ev == IF dev.synced THEN "VerifyAndStoreTPs" ELSE "ResetMib"
  <2>1. PICK err \in BOOLEAN : Transition(ev, "dh", pend, err)
    BY <1>2 DEF FirstEvent
  <2>2. dh = "started" /\ dh' \in {"up", "verify"}
    BY <1>2 DEF FirstEvent
  <2>3. ev \in Events /\ ev \in {"VerifyAndStoreTPs", "ResetMib"} /\ (ev = "VerifyAndStoreTPs" => dev.synced)
    BY EventNames
  <2>4. /\ \A v \in {"VerifyAndStoreTPs", "ResetMib"} :
             DOMAIN Table[v] = {"Starting"} /\ Table[v]["Starting"] \notin {"Disabled", "Starting"}
        /\ Table["ResetMib"]["Starting"] = "ResettingMib"
    BY DEF Table
  <2> HIDE DEF ev
  <2>5. CASE ul = "Starting"
    <3>1. dev.clean => \A x \in pend : x.ev \notin Progress
      BY <2>2, <2>5, FirstAlone DEF Idle
    <3>2. /\ ul \in DOMAIN Table[ev] /\ Table[ev][ul] \notin {"Disabled", "Starting"} /\ ev # "Success"
          /\ Table[ev][ul] = "VerifyingAndStoringTPs" => dev.synced
      BY <2>3, <2>4, <2>5
    <3> QED BY <1>s, <2>1, <2>2, <2>3, <2>5, <3>1, <3>2, LifeTaken
  <2>6. CASE ul # "Starting"
    <3>1. ul \notin DOMAIN Table[ev]
      BY <2>3, <2>4, <2>6
    <3> QED BY <1>s, <2>1, <2>2, <2>3, <3>1, LifeElsewhere
  <2> QED BY <2>5, <2>6
<1>3. CASE CancelStopsFsm
  <2>1. Transition("Stop", "dh", pend, FALSE) /\ dh' = "clear" /\ "Stop" \in Events
    BY <1>3, EventNames DEF CancelStopsFsm
  <2>2. ul \in DOMAIN Table["Stop"] => Table["Stop"][ul] = "Disabled"
    BY DEF Table
  <2> QED BY <1>s, <2>1, <2>2, LifeElsewhere
<1>4. CASE OnuUp /\ ul = "Disabled"
  <2>1. Transition("Start", "dh", pend, FALSE) /\ dh = "off" /\ "Start" \in Events
    BY <1>4, EventNames DEF OnuUp
  <2>2. Table["Start"][ul] = "Starting"
    BY <1>4 DEF Table
  <2> QED BY <1>s, <2>1, <2>2, LifeElsewhere
<1> QED BY <1>1, <1>2, <1>3, <1>4

\* A new ONU, or one that is known and reconciled.
LEMMA LifeInit ==
  ASSUME Init
  PROVE  Life
<1>1. ul = "Disabled" /\ cfg = [run |-> FALSE, air |-> FALSE, n |-> 0]
  BY DEF Init
<1>2. dev.state = "init" /\ ~dev.blank /\ (dev.synced \/ dev.recon = "no")
  BY DEF Init
<1> QED BY <1>1, <1>2 DEF Life, Configured, BeforeRun, Live, SyncedStates

\* Every step keeps the account of the life of the ONU.
LEMMA LifeStep ==
  ASSUME ImageInv, Frame, Wire, Life, EndedWithTheOnu, EndedWithTheOnu', [Next]_vars
  PROVE  Life'
<1>1. CASE Stays
  BY <1>1, LifeCallbacks, LifeQuiet, LifeConfiguration DEF Stays
<1>2. CASE OnuRepeats
  <2>1. /\ UNCHANGED <<ul, cfg, dh>> /\ ~dev'.clean
        /\ \E i : dev' = [dev EXCEPT !.intact = i, !.clean = FALSE]
    BY <1>2, Repeated DEF ImageInv
  <2>2. \A f \in DevMembers \ {"intact", "clean"} : dev'[f] = dev[f]
    BY <2>1 DEF ImageInv, Shape, DevMembers
  <2> QED BY <2>1, <2>2 DEF Life, Configured, BeforeRun, Live, DevMembers
<1>3. CASE ~Stays /\ ~OnuRepeats
  BY <1>3, StepsOf, LifeEvents
<1> QED BY <1>1, <1>2, <1>3

\* The invariant so far, and that the premise is enough for it.
LifeInv == ImageInv /\ Frame /\ Wire /\ Life

\* It holds in the beginning and is kept as long as the premise holds.
LEMMA LifeInvariant ==
  /\ Init => LifeInv
  /\ LifeInv /\ EndedWithTheOnu /\ EndedWithTheOnu' /\ [Next]_vars => LifeInv'
<1>1. Init => LifeInv
  BY ImageInvInit, FrameInit, WireInit, LifeInit DEF LifeInv
<1>2. ASSUME LifeInv, EndedWithTheOnu, EndedWithTheOnu', [Next]_vars PROVE LifeInv'
  <2>1. Shape
    BY <1>2 DEF LifeInv, ImageInv
  <2> QED BY <1>2, <2>1, ImageInvStep, FrameStep, WireStep, LifeStep DEF LifeInv
<1> QED BY <1>1, <1>2

\* transferSystemEvent: after a MIB reset the ONU is not taken for
\* synchronised before the device handler has got a new MibDatabaseSync, which
\* has it provisioned anew; provided that the FSM does not survive the loss of
\* the ONU.
LEMMA ResetIsReprovisioned == Spec /\ []EndedWithTheOnu => []Reprovisioned
<1>1. Init => LifeInv
  BY LifeInvariant
<1>2. LifeInv /\ EndedWithTheOnu /\ EndedWithTheOnu' /\ [Next]_vars => LifeInv'
  BY LifeInvariant
<1>3. LifeInv => Reprovisioned
  BY DEF LifeInv, Life, LifeOfRun, Live, SyncedStates, Provisioned, Reprovisioned
<1> QED BY <1>1, <1>2, <1>3, PTL DEF Spec

-----------------------------------------------------------------------------
(***************************************************************************)
(* The counters.  The ONU counts a configuration request when it executes  *)
(* it, the adapter when it gets the response; a MIB reset sets the two to  *)
(* zero one after the other.                                               *)
(***************************************************************************)
Agree == mds.onu = IF cfg.air THEN OnuIncrementMds(mds.adpt) ELSE mds.adpt

\* Before the first event of a run.
MatchBefore ==
  dev.intact =>
    /\ dh = "off" => ul = "Disabled" /\ mds.adpt = mds.onu
    /\ dh = "started" /\ dev.clean /\ ul = "Starting" => mds.adpt = mds.onu

\* In a run: the reset of the ONU may be ahead of that of the adapter.
MatchInRun ==
  IF ul = "ResettingMib"
  THEN /\ Waits("GetVendorAndSerial") => Agree
       /\ \A m \in Answered : m.req = "reset" /\ m.res = "ok" => mds.onu = 0
  ELSE Agree

Match == MatchBefore /\ (Live /\ dev.intact /\ ~dev.midway => MatchInRun)

-----------------------------------------------------------------------------
\* A step that leaves the counters alone.
LEMMA MatchKept ==
  ASSUME Match, ul' = ul, mds' = mds, cfg'.air = cfg.air, dev'.clean = dev.clean, dev'.midway = dev.midway,
         dev'.intact => dev.intact, dh' = "off" => dh = "off", dh' = "started" => dh = "started",
         Live /\ ul = "ResettingMib" =>
           /\ Waits("GetVendorAndSerial")' => Waits("GetVendorAndSerial")
           /\ \A m \in Answered' : m.req = "reset" => m \in Answered
  PROVE  Match'
<1>1. Agree' <=> Agree
  BY DEF Agree, OnuIncrementMds
<1>2. MatchBefore'
  BY DEF Match, MatchBefore
<1>3. ASSUME Live, dev'.intact, ~dev'.midway PROVE MatchInRun'
  <2>1. MatchInRun
    BY <1>3 DEF Match
  <2>2. CASE ul = "ResettingMib"
    <3>1. \A m \in Answered' : m.req = "reset" /\ m.res = "ok" => mds'.onu = 0
      BY <1>3, <2>1, <2>2 DEF MatchInRun
    <3>2. Waits("GetVendorAndSerial")' => Agree'
      BY <1>1, <1>3, <2>1, <2>2 DEF MatchInRun
    <3> QED BY <2>2, <3>1, <3>2 DEF MatchInRun
  <2>3. CASE ul # "ResettingMib"
    BY <1>1, <2>1, <2>3 DEF MatchInRun
  <2> QED BY <2>2, <2>3
<1> QED BY <1>2, <1>3 DEF Match, Live

\* The callbacks, timers, channels and the device handler.
LEMMA MatchQuiet ==
  ASSUME ImageInv, Frame, Match, Stays,
         \/ Callbacks \/ Timers \/ Deliver \/ RequestTimeout \/ RequestLost \/ OnuDown \/ CancelAborts
         \/ ProcessMibDatabaseSync \/ ReconcilingEnds \/ (OnuUp /\ ul # "Disabled") \/ UNCHANGED vars
         \/ ProcStarts \/ RxSignalEnds
  PROVE  Match'
<1>s. /\ Shape /\ DOMAIN dev = DevMembers /\ ul' = ul /\ dev'.clean = dev.clean /\ dev'.midway = dev.midway
  BY StaysPut DEF ImageInv, Shape
<1>c. \A at \in DOMAIN CbIn : cb.at = at => ul = CbIn[at] /\ cb # NoCb
  BY DEF Frame, CbIn, NoCb
<1>1. CASE Callbacks
  <2>1. /\ cb.at \in DOMAIN CbIn /\ UNCHANGED <<mds, cfg>> /\ dh' \in {dh, "up"}
        /\ \/ dev' = dev \/ dev' = [dev EXCEPT !.recon = "no", !.service = TRUE] \/ dev' = [dev EXCEPT !.recon = "no"]
           \/ \E v : dev' = [dev EXCEPT !.recon = v, !.ready = TRUE]
    BY <1>1 DEF Callbacks, TestingEnds, TemplateSearched, TPsVerified, RestoreFails, RestoreEndsWithoutFlows,
                RestoreTPs, FlowsReconciled, CallbackEnds, CbIn
  <2>2. ul # "ResettingMib" /\ dev'.intact = dev.intact
    BY <1>s, <1>c, <2>1 DEF CbIn, DevMembers
  <2> QED BY <1>s, <2>1, <2>2, MatchKept
<1>2. CASE Timers \/ ProcessMibDatabaseSync \/ ReconcilingEnds \/ (OnuUp /\ ul # "Disabled") \/ UNCHANGED vars \/ ProcStarts
  <2>1. /\ UNCHANGED <<mds, cfg, back, chan>> /\ dh' \in {dh, "refused"}
        /\ pend' \subseteq pend \cup {Go("Mismatch"), Go("AuditMib")}
    BY <1>2 DEF Timers, FlowExpiry, AuditTimer, ProcessMibDatabaseSync, ReconcilingEnds, OnuUp, vars, ProcStarts
  <2>2. \/ dev' = dev
        \/ dev' = [dev EXCEPT !.note = FALSE, !.raise = FALSE, !.ready = TRUE, !.blank = FALSE]
        \/ dev' = [dev EXCEPT !.recon = "no", !.service = TRUE] \/ dev' = [dev EXCEPT !.recon = "no"]
    BY <1>2 DEF Timers, FlowExpiry, AuditTimer, ProcessMibDatabaseSync, ReconcilingEnds, OnuUp, vars, ProcStarts
  <2>3. dev'.intact = dev.intact
    BY <1>s, <2>2 DEF DevMembers
  <2>4. Waits("GetVendorAndSerial")' => Waits("GetVendorAndSerial")
    BY <2>1 DEF Waits, Go
  <2>5. Answered' = Answered
    BY <2>1 DEF Answered
  <2> QED BY <1>s, <2>1, <2>3, <2>4, <2>5, MatchKept
<1>3. CASE Deliver \/ RequestTimeout \/ RequestLost \/ OnuDown \/ CancelAborts \/ RxSignalEnds
  <2>1. /\ UNCHANGED <<mds, cfg>> /\ dh' \in {dh, "cancel", "clear", "stop"} /\ pend' \subseteq pend \cup {Go("Stop")}
        /\ dev' = dev \/ dev' = [dev EXCEPT !.raise = FALSE]
    BY <1>3 DEF Deliver, RequestTimeout, RequestLost, OnuDown, CancelAborts, RxSignalEnds
  <2>2. dev'.intact = dev.intact
    BY <1>s, <2>1 DEF DevMembers
  <2>3. Waits("GetVendorAndSerial")' => Waits("GetVendorAndSerial")
    BY <2>1 DEF Waits, Go
  <2>4. \A m \in Answered' : m.req = "reset" => m \in Answered
    BY <1>s, <1>3, ChannelIn
  <2> QED BY <1>s, <2>1, <2>2, <2>3, <2>4, MatchKept
<1> QED BY <1>1, <1>2, <1>3

\* The handlers of other answers.
LEMMA MatchOtherAnswers ==
  ASSUME ImageInv, Wire, Match, Stays,
         HandleTestMsg \/ HandleMibUploadResponse \/ HandleMibUploadNextResponse \/ HandleGetResponse
  PROVE  Match'
<1>s. /\ Shape /\ DOMAIN dev = DevMembers /\ ul' = ul /\ dev'.clean = dev.clean /\ dev'.midway = dev.midway
  BY StaysPut DEF ImageInv, Shape
<1>1. UNCHANGED <<mds, cfg, dh, back>> /\ (dev' = dev \/ \E v : dev' = [dev EXCEPT !.panic = v])
  BY DEF HandleTestMsg, HandleMibUploadResponse, HandleMibUploadNextResponse, HandleGetResponse
<1>2. dev'.intact = dev.intact
  BY <1>s, <1>1 DEF DevMembers
<1>3. Take /\ Message.req \in Tokens /\ Message.req # "reset"
  BY DEF HandleTestMsg, HandleMibUploadResponse, HandleMibUploadNextResponse, HandleGetResponse, Is, Tokens, Reqs, MEs
<1>4. ~(Live /\ ul = "ResettingMib")
  <2>1. SUFFICES ASSUME Live, ul = "ResettingMib" PROVE FALSE
    OBVIOUS
  <2>2. Message.req \in Asked(ul)
    BY <1>s, <1>1, <1>3, <2>1, Reads DEF Wire
  <2>3. Asked(ul) = {"reset"}
    BY <2>1 DEF Asked, GetOf
  <2> QED BY <1>3, <2>2, <2>3
<1> QED BY <1>s, <1>1, <1>2, <1>4, MatchKept

\* The ONU was reset, and now the adapter sets its counter to zero.
LEMMA MatchReset ==
  ASSUME ImageInv, Frame, Wire, Life, Match, Stays, HandleMibResetResponse
  PROVE  Match'
<1>s. /\ Shape /\ DOMAIN mds = {"adpt", "onu"} /\ ul' = ul
  BY StaysPut DEF ImageInv, Shape
<1>1. UNCHANGED <<cfg, dh, back, dev>> /\ Take /\ Message.req = "reset" /\ "reset" \in Tokens
  BY DEF HandleMibResetResponse, Is, Tokens, Reqs
<1>2. Answered' \subseteq Answered /\ Message \in Answered
  BY <1>s, <1>1, MessageTaken
<1>3. CASE mds' = mds /\ (Post("Stop") \/ pend' = pend)
  <2>1. Waits("GetVendorAndSerial")' => Waits("GetVendorAndSerial")
    BY <1>3 DEF Waits, Post
  <2> QED BY <1>s, <1>1, <1>2, <1>3, <2>1, MatchKept
<1>4. CASE ul = "ResettingMib" /\ Message.res = "ok" /\ mds' = [mds EXCEPT !.adpt = 0]
  <2>1. mds'.adpt = 0 /\ mds'.onu = mds.onu
    BY <1>s, <1>4
  <2>2. MatchBefore'
    <3>1. (dev.intact => dh # "off") /\ dh # "started"
      BY <1>4 DEF Match, MatchBefore, ImageInv, FreshStart
    <3> QED BY <1>1, <3>1 DEF MatchBefore
  <2>3. ASSUME Live, dev.intact, ~dev.midway PROVE MatchInRun'
    <3>1. mds.onu = 0
      BY <1>1, <1>2, <1>4, <2>3 DEF Match, MatchInRun
    <3>2. ~cfg.air
      BY <1>4, <2>3 DEF Life, LifeOfRun, Configured, UpStates
    <3>3. Agree'
      BY <1>1, <2>1, <3>1, <3>2 DEF Agree
    <3> QED BY <1>4, <1>s, <2>1, <3>1, <3>3 DEF MatchInRun
  <2> QED BY <1>s, <1>1, <2>2, <2>3 DEF Match, Live
<1> QED BY <1>3, <1>4 DEF HandleMibResetResponse, NoEvent

\* The ONU answers, after it has been reset in the case of a MIB reset.
LEMMA MatchAnswer ==
  ASSUME ImageInv, Wire, Match, Stays, OnuAnswers
  PROVE  Match'
<1>s. /\ Shape /\ DOMAIN mds = {"adpt", "onu"} /\ DOMAIN dev = DevMembers /\ ul' = ul /\ dev'.clean = dev.clean
      /\ dev'.midway = dev.midway
  BY StaysPut DEF ImageInv, Shape
<1>1. PICK a : AnswersWith(a)
  BY <1>s, AnswerIn
<1>2. /\ sent # <<>> /\ Head(sent) \in In(sent)
      /\ UNCHANGED <<pend, cfg, dh>> /\ Reachable
  BY <1>s, AnswerIn DEF OnuAnswers
<1>3. a.req = Head(sent).req /\ Answered' = Answered \cup {a}
  BY <1>1 DEF AnswersWith
<1>w. Waits("GetVendorAndSerial")' <=> Waits("GetVendorAndSerial")
  BY <1>2 DEF Waits
<1>4. CASE mds' = mds /\ dev' = dev /\ ~(a.req = "reset" /\ a.res = "ok")
  <2>1. MatchBefore'
    BY <1>s, <1>2, <1>4 DEF Match, MatchBefore
  <2>2. Agree' <=> Agree
    BY <1>2, <1>4 DEF Agree, OnuIncrementMds
  <2>3. MatchInRun => MatchInRun'
    <3>1. (\A m \in Answered : m.req = "reset" /\ m.res = "ok" => mds.onu = 0) =>
            \A m \in Answered' : m.req = "reset" /\ m.res = "ok" => mds'.onu = 0
      BY <1>3, <1>4
    <3> QED BY <1>s, <1>w, <2>2, <3>1 DEF MatchInRun
  <2> QED BY <1>s, <1>4, <2>1, <2>3 DEF Match, Live
<1>5. CASE a.req = "reset" /\ mds' = [mds EXCEPT !.onu = 0] /\ dev' = [dev EXCEPT !.intact = TRUE]
  <2>1. mds'.onu = 0
    BY <1>s, <1>5
  <2>2. MatchBefore'
    <3>1. dh # "off"
      BY <1>2 DEF Reachable
    <3>2. ~(dh = "started" /\ dev.clean /\ ul = "Starting")
      BY <1>2 DEF ImageInv, FreshStart
    <3> QED BY <1>s, <1>2, <3>1, <3>2 DEF MatchBefore
  <2>3. ASSUME Live PROVE MatchInRun'
    <3>1. Has("reset", sent) /\ "reset" \in Tokens
      BY <1>2, <1>3, <1>5, InHas DEF Tokens, Reqs
    <3>2. ~Absent("reset")
      BY <3>1 DEF Absent
    <3>3. OneThing
      BY <2>3 DEF Wire
    <3>4. "reset" \in Asked(ul) /\ ~Clear
      BY <3>1, <3>2, <3>3 DEF OneThing, Token, Clear
    <3>5. ul = "ResettingMib"
      BY <3>4, AskedNames
    <3>6. "GetVendorAndSerial" \in Progress
      BY EventNames DEF Progress
    <3>7. ~Waits("GetVendorAndSerial")
      BY <3>3, <3>4, <3>6 DEF OneThing, OneEvent, Waits
    <3> QED BY <1>s, <1>w, <2>1, <3>5, <3>7 DEF MatchInRun
  <2> QED BY <1>s, <2>2, <2>3 DEF Match, Live
<1> QED BY <1>1, <1>4, <1>5 DEF AnswersWith

\* The other FSMs configure the ONU; the ONU diverges or is forgotten.
LEMMA MatchConfiguration ==
  ASSUME ImageInv, Frame, Life, Match, Stays, Configuration \/ OnuDiverges \/ UpdateInterface
  PROVE  Match'
<1>s. /\ Shape /\ DOMAIN dev = DevMembers /\ ul' = ul /\ dev'.clean = dev.clean /\ dev'.midway = dev.midway
      /\ DOMAIN cfg = {"run", "air", "n"} /\ DOMAIN mds = {"adpt", "onu"}
  BY StaysPut DEF ImageInv, Shape, Frame
<1>1. CASE OnuDiverges \/ UpdateInterface
  <2>1. \/ dev' = [dev EXCEPT !.intact = FALSE]
        \/ dev' = [dev EXCEPT !.recon = "no", !.synced = FALSE, !.state = "init", !.ready = FALSE,
                              !.service = FALSE, !.intact = FALSE]
    BY <1>1 DEF OnuDiverges, UpdateInterface
  <2>2. ~dev'.intact
    BY <1>s, <2>1 DEF DevMembers
  <2> QED BY <2>2 DEF Match, MatchBefore
<1>2. CASE ConfigStarts \/ ConfigEnds
  <2>1. /\ UNCHANGED <<mds, dh, pend, back, chan>> /\ \E b \in BOOLEAN : cfg' = [cfg EXCEPT !.run = b]
        /\ dev' = [dev EXCEPT !.touched = TRUE] \/ dev' = [dev EXCEPT !.service = TRUE]
    BY <1>2 DEF ConfigStarts, ConfigEnds
  <2>2. cfg'.air = cfg.air /\ dev'.intact = dev.intact
    BY <1>s, <2>1 DEF DevMembers
  <2>3. (Waits("GetVendorAndSerial")' <=> Waits("GetVendorAndSerial")) /\ Answered' = Answered
    BY <2>1 DEF Waits, Answered
  <2> QED BY <1>s, <2>1, <2>2, <2>3, MatchKept
<1>3. ASSUME OnuExecutes \/ ConfigResponse, Agree => Agree', cfg.run PROVE Match'
  <2>1. UNCHANGED <<dh, dev, pend>>
    BY <1>3 DEF OnuExecutes, ConfigResponse
  <2>2. dh \notin {"off", "started"}
    BY <1>3 DEF Life, BeforeRun
  <2>3. MatchBefore'
    BY <2>1, <2>2 DEF MatchBefore
  <2>4. ASSUME Live, ~dev.midway PROVE ul # "ResettingMib"
    BY <1>3, <2>4 DEF Life, LifeOfRun, UpStates
  <2> QED BY <1>s, <1>3, <2>1, <2>3, <2>4 DEF Match, MatchInRun, Live
<1>4. CASE OnuExecutes
  <2>1. cfg.run /\ ~cfg.air /\ cfg' = [cfg EXCEPT !.air = TRUE, !.n = @ + 1]
        /\ mds' = [mds EXCEPT !.onu = OnuIncrementMds(@)]
    BY <1>4 DEF OnuExecutes
  <2>2. cfg'.air /\ mds'.adpt = mds.adpt /\ mds'.onu = OnuIncrementMds(mds.onu)
    BY <1>s, <2>1
  <2>3. Agree => Agree'
    BY <2>1, <2>2 DEF Agree
  <2> QED BY <1>3, <1>4, <2>1, <2>3
<1>5. CASE ConfigResponse
  <2>1. cfg.air /\ cfg' = [cfg EXCEPT !.air = FALSE] /\ mds' = [mds EXCEPT !.adpt = IncrementMds(@)]
    BY <1>5 DEF ConfigResponse
  <2>2. ~cfg'.air /\ mds'.adpt = IncrementMds(mds.adpt) /\ mds'.onu = mds.onu /\ cfg.run
    BY <1>s, <2>1 DEF Life, Configured
  <2>3. IncrementMds(mds.adpt) = OnuIncrementMds(mds.adpt)
    BY SameIncrement DEF Frame
  <2>4. Agree => Agree'
    BY <2>1, <2>2, <2>3 DEF Agree
  <2> QED BY <1>3, <1>5, <2>2, <2>4
<1> QED BY <1>1, <1>2, <1>4, <1>5 DEF Configuration

-----------------------------------------------------------------------------
(* The steps of the FSM and the counters.                                  *)

\* An event other than the one that resets the MIB, in the device's record.
LEMMA TakenMidway ==
  ASSUME Shape, Frame, NEW ev \in Events, NEW by, NEW base, NEW err \in BOOLEAN,
         Transition(ev, by, base, err), ul \in DOMAIN Table[ev],
         Table[ev][ul] \notin {"Starting", "ResettingMib"}
  PROVE  dev'.midway = dev.midway /\ cfg' = cfg
<1>s. DOMAIN dev = DevMembers
  BY DEF Shape
<1>1. PICK e : Does(e, base)
  BY Taken
<1>2. Leaves(e, ul') /\ dev' = e.dev /\ cfg' = e.cfg /\ ul' \notin {"Starting", "ResettingMib"}
  BY <1>1, Taken DEF Does
<1>3. \/ dev' = dev \/ dev' = [dev EXCEPT !.raise = FALSE] \/ dev' = [dev EXCEPT !.state = "sync", !.note = TRUE]
      \/ dev' = [dev EXCEPT !.synced = TRUE] \/ dev' = [dev EXCEPT !.touched = FALSE]
  BY <1>2 DEF Leaves
<1> QED BY <1>2, <1>3, <1>s DEF DevMembers, Leaves

\* The way out of a MIB reset.
LEMMA ResetMoves ==
  ASSUME NEW ev \in Events, "ResettingMib" \in DOMAIN Table[ev],
         Table[ev]["ResettingMib"] \notin {"Disabled", "Starting"}
  PROVE  ev = "GetVendorAndSerial"
BY DEF Events, Table, Stoppable, GetStates

\* An event takes the run further.
LEMMA MatchTaken ==
  ASSUME Shape, Frame, Life, Match, NEW ev \in Events, NEW by, NEW base, NEW err \in BOOLEAN,
         Transition(ev, by, base, err), ul \in DOMAIN Table[ev],
         Table[ev][ul] \notin {"Disabled", "Starting"},
         dh' # "started", dh' = "off" => dh = "off" /\ ul # "Disabled",
         UNCHANGED <<chan, back, mds>>,
         dev.clean => Clear /\ \A x \in base : x.ev \notin Progress,
         dev.clean => Live \/ (ul = "Starting" /\ dh = "started"),
         ul = "ResettingMib" => Waits(ev)
  PROVE  Match'
<1>d. ul' = Table[ev][ul] /\ dev'.clean = dev.clean /\ dev'.intact = dev.intact
  BY Taken, TakenDev
<1>1. MatchBefore'
  BY <1>d DEF Match, MatchBefore
<1>2. ASSUME dev.clean, dev.intact, ~dev'.midway PROVE MatchInRun'
  <2>1. CASE ul' = "ResettingMib"
    <3>1. "GetVendorAndSerial" \in Progress
      BY EventNames DEF Progress
    <3>5. \A w \in Progress : Waits(w)' =>
              \/ \E x \in base : x.ev = w
              \/ w = "Success" /\ ul' \in {"UploadDone", "ExaminingMds", "Auditing", "ReAuditing"}
      BY SentTaken
    <3>2. ~Waits("GetVendorAndSerial")'
      BY <1>2, <3>1, <3>5
    <3>3. Absent("reset") /\ Answered' = Answered
      BY <1>2 DEF Clear, Tokens, Reqs, Answered
    <3>4. \A m \in Answered' : m.req # "reset"
      BY <3>3, AbsentIn
    <3> QED BY <2>1, <3>2, <3>4 DEF MatchInRun
  <2>2. CASE ul' # "ResettingMib"
    <3>1. dev'.midway = dev.midway /\ cfg' = cfg
      BY <1>d, <2>2, TakenMidway
    <3>2. Agree
      <4>1. CASE Live
        <5>1. MatchInRun
          BY <1>2, <3>1, <4>1 DEF Match
        <5>2. CASE ul = "ResettingMib"
          <6>1. Waits("GetVendorAndSerial")
            BY <5>2, ResetMoves
          <6> QED BY <5>1, <5>2, <6>1 DEF MatchInRun
        <5>3. CASE ul # "ResettingMib"
          BY <5>1, <5>3 DEF MatchInRun
        <5> QED BY <5>2, <5>3
      <4>2. CASE ul = "Starting" /\ dh = "started"
        <5>1. mds.adpt = mds.onu
          BY <1>2, <4>2 DEF Match, MatchBefore
        <5>2. ~cfg.air
          BY <4>2 DEF Life, BeforeRun, Configured
        <5> QED BY <5>1, <5>2 DEF Agree
      <4> QED BY <1>2, <4>1, <4>2
    <3>3. Agree'
      BY <3>1, <3>2 DEF Agree, OnuIncrementMds
    <3> QED BY <2>2, <3>3 DEF MatchInRun
  <2> QED BY <2>1, <2>2
<1> QED BY <1>1, <1>2, <1>d DEF Match, Live

\* An event is rejected, ends the run or begins one.
LEMMA MatchElsewhere ==
  ASSUME Shape, Frame, Match, NEW ev \in Events, NEW by, NEW base, base \subseteq pend, NEW err \in BOOLEAN,
         Transition(ev, by, base, err), ul \in DOMAIN Table[ev] => Table[ev][ul] \in {"Disabled", "Starting"},
         UNCHANGED <<chan, back, mds>>, dh' = "off" => dh = "off" /\ (ul = "Disabled" => ul \notin DOMAIN Table[ev]),
         dh' = "started" => \/ dh = "off"
                            \/ dh = "started" /\ (ul \in DOMAIN Table[ev] => Table[ev][ul] = "Disabled")
  PROVE  Match'
<1>s. DOMAIN dev = DevMembers
  BY DEF Shape
<1>1. CASE ul \notin DOMAIN Table[ev]
  <2>1. UNCHANGED <<ul, dev, cfg>> /\ pend' \subseteq pend
    BY <1>1 DEF Transition
  <2>2. Waits("GetVendorAndSerial")' => Waits("GetVendorAndSerial")
    BY <2>1 DEF Waits
  <2>3. Answered' = Answered
    BY DEF Answered
  <2>4. MatchBefore'
    BY <2>1 DEF Match, MatchBefore
  <2>5. Agree' <=> Agree
    BY <2>1 DEF Agree, OnuIncrementMds
  <2>6. MatchInRun => MatchInRun'
    BY <2>1, <2>2, <2>3, <2>5 DEF MatchInRun
  <2> QED BY <2>1, <2>4, <2>6 DEF Match, Live
<1>2. CASE ul \in DOMAIN Table[ev]
  <2>1. /\ ul' = Table[ev][ul]
        /\ \/ dev' = [dev EXCEPT !.raise = FALSE]
           \/ \E c \in BOOLEAN : dev' = [dev EXCEPT !.raise = TRUE, !.panic = FALSE, !.clean = c]
    <3>1. CASE Table[ev][ul] = "Starting"
      BY <1>2, <3>1, Begun
    <3>2. CASE Table[ev][ul] = "Disabled"
      <4>1. PICK e : Does(e, base)
        BY <1>2, <3>2, Taken
      <4>2. Leaves(e, ul') /\ dev' = e.dev /\ ul' = "Disabled"
        BY <1>2, <3>2, <4>1, Taken DEF Does
      <4> QED BY <3>2, <4>2 DEF Leaves
    <3> QED BY <1>2, <3>1, <3>2
  <2>2. dev'.intact = dev.intact
    BY <1>s, <2>1 DEF DevMembers
  <2>3. MatchBefore'
    BY <1>2, <2>1, <2>2 DEF Match, MatchBefore
  <2> QED BY <1>2, <2>1, <2>3 DEF Match, Live
<1> QED BY <1>1, <1>2

\* Every step of the FSM.
LEMMA MatchEvents ==
  ASSUME ImageInv, Frame, Wire, Life, Match,
         Fire \/ FirstEvent \/ CancelStopsFsm \/ (OnuUp /\ ul = "Disabled")
  PROVE  Match'
<1>s. Shape
  BY DEF ImageInv
<1>1. CASE Fire
  <2>1. PICK e \in pend, err \in BOOLEAN : Transition(e.ev, e.by, pend \ {e}, err)
    BY <1>1 DEF Fire
  <2>2. /\ dh' = dh /\ UNCHANGED <<chan, back, mds>>
        /\ e.ev \in Events /\ e.ev \in PostedEvents /\ Waits(e.ev)
    BY <1>1, <1>s DEF Fire, Shape, Posts, PostedEvents, Waits
  <2>m. ul \in DOMAIN Table[e.ev] => ul # "Disabled" /\ (ul = "Starting" => Table[e.ev][ul] = "Disabled")
    BY <2>2, Moves DEF PostedEvents
  <2>3. CASE ul \in DOMAIN Table[e.ev] => Table[e.ev][ul] \in {"Disabled", "Starting"}
    <3>1. dh = "started" => ul \in {"Starting", "Disabled"}
      BY DEF ImageInv, FreshStart
    <3> QED BY <1>s, <2>1, <2>2, <2>m, <2>3, <3>1, MatchElsewhere
  <2>4. CASE ul \in DOMAIN Table[e.ev] /\ Table[e.ev][ul] \notin {"Disabled", "Starting"}
    <3>1. dev.clean => Live /\ Clear /\ \A x \in pend \ {e} : x.ev \notin Progress
      BY <1>s, <2>4, FiredAlone
    <3>2. ul \notin {"Disabled", "Starting"}
      BY <2>4, <2>m
    <3>3. dh' # "started"
      BY <2>2, <3>2 DEF ImageInv, FreshStart
    <3> QED BY <1>s, <2>1, <2>2, <2>4, <3>1, <3>2, <3>3, MatchTaken
  <2> QED BY <2>3, <2>4
<1>2. CASE FirstEvent
  <2> DEFINE ev == IF dev.synced THEN "VerifyAndStoreTPs" ELSE "ResetMib"
  <2>1. PICK err \in BOOLEAN : Transition(ev, "dh", pend, err)
    BY <1>2 DEF FirstEvent
  <2>2. dh = "started" /\ dh' \in {"up", "verify"} /\ UNCHANGED <<chan, back, mds>>
    BY <1>2 DEF FirstEvent
  <2>3. ev \in Events /\ ev \in {"VerifyAndStoreTPs", "ResetMib"}
    BY EventNames
  <2>4. \A v \in {"VerifyAndStoreTPs", "ResetMib"} :
             DOMAIN Table[v] = {"Starting"} /\ Table[v]["Starting"] \notin {"Disabled", "Starting"}
    BY DEF Table
  <2> HIDE DEF ev
  <2>5. CASE ul = "Starting"
    <3>1. dev.clean => Clear /\ \A x \in pend : x.ev \notin Progress
      BY <2>2, <2>5, FirstAlone DEF Idle
    <3>2. ul \in DOMAIN Table[ev] /\ Table[ev][ul] \notin {"Disabled", "Starting"}
      BY <2>3, <2>4, <2>5
    <3> QED BY <1>s, <2>1, <2>2, <2>3, <2>5, <3>1, <3>2, MatchTaken
  <2>6. CASE ul # "Starting"
    <3>1. ul \notin DOMAIN Table[ev]
      BY <2>3, <2>4, <2>6
    <3> QED BY <1>s, <2>1, <2>2, <2>3, <3>1, MatchElsewhere
  <2> QED BY <2>5, <2>6
<1>3. CASE CancelStopsFsm
  <2>1. Transition("Stop", "dh", pend, FALSE) /\ dh' = "clear" /\ "Stop" \in Events /\ UNCHANGED <<chan, back, mds>>
    BY <1>3, EventNames DEF CancelStopsFsm
  <2>2. ul \in DOMAIN Table["Stop"] => Table["Stop"][ul] = "Disabled"
    BY DEF Table
  <2> QED BY <1>s, <2>1, <2>2, MatchElsewhere
<1>4. CASE OnuUp /\ ul = "Disabled"
  <2>1. /\ Transition("Start", "dh", pend, FALSE) /\ dh = "off" /\ dh' = "started" /\ "Start" \in Events
        /\ UNCHANGED <<chan, back, mds>>
    BY <1>4, EventNames DEF OnuUp
  <2>2. Table["Start"][ul] = "Starting"
    BY <1>4 DEF Table
  <2> QED BY <1>s, <2>1, <2>2, MatchElsewhere
<1> QED BY <1>1, <1>2, <1>3, <1>4

\* An adapter that restarts and finds the ONU as it was: the counters agree.
LEMMA MatchInit ==
  ASSUME Init
  PROVE  Match
<1>1. ul = "Disabled"
  BY DEF Init
<1>2. dev.intact => mds.adpt = mds.onu
  <2>1. PICK known \in BOOLEAN, a, o \in 0 .. MdsMax :
          /\ mds = [adpt |-> IF known THEN a ELSE 0, onu |-> o]
          /\ ~known => a = 0
          /\ dev = [synced |-> known, state |-> "init", note |-> FALSE,
                    recon |-> IF known THEN IF SkipConfig THEN "skip" ELSE "omci" ELSE "no",
                    service |-> FALSE, raise |-> FALSE, ready |-> FALSE, panic |-> FALSE,
                    intact |-> known /\ a = o /\ a # 0, blank |-> FALSE,
                    midway |-> FALSE, touched |-> FALSE, clean |-> TRUE]
    BY Zenon DEF Init
  <2>2. dev.intact => known /\ a = o
    BY <2>1
  <2>3. known /\ a = o => mds.adpt = mds.onu
    BY <2>1
  <2> QED BY <2>2, <2>3
<1> QED BY <1>1, <1>2 DEF Match, MatchBefore, Live

\* Every step keeps the account of the counters.
LEMMA MatchStep ==
  ASSUME LifeInv, Match, [Next]_vars
  PROVE  Match'
<1>i. ImageInv /\ Frame /\ Wire /\ Life
  BY DEF LifeInv
<1>1. CASE Stays
  BY <1>i, <1>1, MatchQuiet, MatchOtherAnswers, MatchReset, MatchAnswer, MatchConfiguration
     DEF Stays, Processor, Requests
<1>2. CASE OnuRepeats
  BY <1>i, <1>2, Repeated DEF Match, MatchBefore, Live, ImageInv, Reachable
<1>3. CASE ~Stays /\ ~OnuRepeats
  BY <1>i, <1>3, StepsOf, MatchEvents
<1> QED BY <1>1, <1>2, <1>3

\* IncrementMibDataSync and the MIB reset: the two counters agree while the
\* MIB is in sync, no configuration runs and the ONU is as the adapter left
\* it, for every size of the counter, its wrap around included; provided that
\* the FSM does not survive the loss of the ONU.
LEMMA CountersAgree == Spec /\ []EndedWithTheOnu => []InSyncSound
<1>1. Init => LifeInv /\ Match
  BY LifeInvariant, MatchInit
<1>2. LifeInv /\ Match /\ EndedWithTheOnu /\ EndedWithTheOnu' /\ [Next]_vars => LifeInv' /\ Match'
  BY LifeInvariant, MatchStep
<1>3. LifeInv /\ Match => InSyncSound
  BY DEF LifeInv, Life, Configured, Match, MatchInRun, Agree, Live, InSyncSound
<1> QED BY <1>1, <1>2, <1>3, PTL DEF Spec

-----------------------------------------------------------------------------
(***************************************************************************)
(* The second audit.  If it asks for the counter at all, it does so while  *)
(* no other FSM runs, and as long as none starts the answer is the counter *)
(* that the adapter has.                                                   *)
(***************************************************************************)
Audited == Live /\ ul = "ReAuditing" /\ dev.intact /\ ~dev.touched /\ ~dev.midway

\* The answer to the audit.
AuditAnswer ==
  /\ Absent("mds") \/ ~cfg.run
  /\ \A m \in Answered : m.req = "mds" /\ m.res = "ok" => m.val = mds.onu
  /\ ~Waits("Mismatch")

Audit == Audited => AuditAnswer

-----------------------------------------------------------------------------
\* A step that brings nothing new.
LEMMA AuditKept ==
  ASSUME Audit, ul' = ul, dev'.clean = dev.clean, dev'.midway = dev.midway, dev'.intact = dev.intact,
         dev'.touched = dev.touched,
         Audited => /\ cfg'.run => cfg.run
                    /\ Absent("mds") => Absent("mds")'
                    /\ \A m \in Answered' : m.req = "mds" => m \in Answered
                    /\ mds'.onu = mds.onu
                    /\ Waits("Mismatch")' => Waits("Mismatch")
  PROVE  Audit'
<1>1. Audited' => Audited
  BY DEF Audited, Live
<1> SUFFICES ASSUME Audited, AuditAnswer PROVE AuditAnswer'
  BY <1>1 DEF Audit
<1>2. \A m \in Answered' : m.req = "mds" /\ m.res = "ok" => m.val = mds'.onu
  BY DEF AuditAnswer
<1> QED BY <1>2 DEF AuditAnswer

\* The callbacks, timers, channels and the device handler.
LEMMA AuditQuiet ==
  ASSUME ImageInv, Frame, Wire, Audit, Stays,
         \/ Callbacks \/ Timers \/ Deliver \/ RequestTimeout \/ RequestLost \/ OnuDown \/ CancelAborts
         \/ ProcessMibDatabaseSync \/ ReconcilingEnds \/ (OnuUp /\ ul # "Disabled") \/ UNCHANGED vars
         \/ ProcStarts \/ RxSignalEnds
  PROVE  Audit'
<1>s. /\ Shape /\ DOMAIN dev = DevMembers /\ ul' = ul /\ dev'.clean = dev.clean /\ dev'.midway = dev.midway
  BY StaysPut DEF ImageInv, Shape
<1>c. \A at \in DOMAIN CbIn : cb.at = at => ul = CbIn[at] /\ cb # NoCb
  BY DEF Frame, CbIn, NoCb
<1>v. ul # "ReAuditing" \/ ~dev.clean => Audit'
  BY <1>s DEF Audit, Audited, Live
<1>1. CASE Callbacks
  <2>1. cb.at \in DOMAIN CbIn
    BY <1>1 DEF Callbacks, TestingEnds, TemplateSearched, TPsVerified, RestoreFails, RestoreEndsWithoutFlows,
                RestoreTPs, FlowsReconciled, CallbackEnds, CbIn
  <2>2. ul # "ReAuditing"
    BY <1>c, <2>1 DEF CbIn
  <2> QED BY <1>v, <2>2
<1>2. CASE FlowExpiry
  <2>1. flow
    BY <1>2 DEF FlowExpiry
  <2>2. Live => ul # "ReAuditing"
    BY <2>1 DEF Wire, OneThing, FlowsWait
  <2> QED BY <1>v, <2>2 DEF Live
<1>3. CASE AuditTimer \/ ProcessMibDatabaseSync \/ ReconcilingEnds \/ (OnuUp /\ ul # "Disabled") \/ UNCHANGED vars \/ ProcStarts
  <2>1. UNCHANGED <<mds, cfg, back, chan, sent>> /\ pend' \subseteq pend \cup {Go("AuditMib")}
    BY <1>3 DEF AuditTimer, ProcessMibDatabaseSync, ReconcilingEnds, OnuUp, vars, ProcStarts
  <2>2. \/ dev' = dev
        \/ dev' = [dev EXCEPT !.note = FALSE, !.raise = FALSE, !.ready = TRUE, !.blank = FALSE]
        \/ dev' = [dev EXCEPT !.recon = "no", !.service = TRUE] \/ dev' = [dev EXCEPT !.recon = "no"]
    BY <1>3 DEF AuditTimer, ProcessMibDatabaseSync, ReconcilingEnds, OnuUp, vars, ProcStarts
  <2>3. dev'.intact = dev.intact /\ dev'.touched = dev.touched
    BY <1>s, <2>2 DEF DevMembers
  <2>4. Waits("Mismatch")' => Waits("Mismatch")
    BY <2>1 DEF Waits, Go
  <2>5. Answered' = Answered /\ (Absent("mds") => Absent("mds")')
    BY <2>1 DEF Answered, Absent
  <2> QED BY <1>s, <2>1, <2>3, <2>4, <2>5, AuditKept
<1>4. CASE Deliver \/ RequestTimeout \/ RequestLost \/ OnuDown \/ CancelAborts \/ RxSignalEnds
  <2>1. /\ UNCHANGED <<mds, cfg>> /\ pend' \subseteq pend \cup {Go("Stop")}
        /\ dev' = dev \/ dev' = [dev EXCEPT !.raise = FALSE]
    BY <1>4 DEF Deliver, RequestTimeout, RequestLost, OnuDown, CancelAborts, RxSignalEnds
  <2>2. dev'.intact = dev.intact /\ dev'.touched = dev.touched
    BY <1>s, <2>1 DEF DevMembers
  <2>3. Waits("Mismatch")' => Waits("Mismatch")
    BY <2>1 DEF Waits, Go
  <2>4. \A m \in Answered' : m.req = "mds" => m \in Answered
    BY <1>s, <1>4, ChannelIn
  <2>5. "mds" \in Tokens
    BY DEF Tokens, Reqs, MEs
  <2>6. Absent("mds") => Absent("mds")'
    BY <1>s, <1>4, <2>5, TokensKept DEF Kept
  <2> QED BY <1>s, <2>1, <2>2, <2>3, <2>4, <2>6, AuditKept
<1> QED BY <1>1, <1>2, <1>3, <1>4 DEF Timers

\* The ONU answers with its counter.
LEMMA AuditOnuAnswers ==
  ASSUME ImageInv, Wire, Audit, Stays, OnuAnswers
  PROVE  Audit'
<1>s. /\ Shape /\ ul' = ul /\ dev'.clean = dev.clean
  BY StaysPut DEF ImageInv, Shape
<1>1. PICK a : AnswersWith(a)
  BY <1>s, AnswerIn
<1>2. sent # <<>> /\ Head(sent) \in In(sent) /\ UNCHANGED <<pend, cfg>>
  BY <1>s, AnswerIn
<1>3. a.req = Head(sent).req /\ Answered' = Answered \cup {a}
  BY <1>1 DEF AnswersWith
<1>v. ul # "ReAuditing" \/ ~dev.clean => Audit'
  BY <1>s DEF Audit, Audited, Live
<1>4. SUFFICES ASSUME ul = "ReAuditing", Live PROVE Audit'
  BY <1>v DEF Live
<1>5. a.req # "reset"
  <2>1. SUFFICES ASSUME a.req = "reset" PROVE FALSE
    OBVIOUS
  <2>2. Has("reset", sent) /\ "reset" \in Tokens
    BY <1>2, <1>3, <2>1, InHas DEF Tokens, Reqs
  <2>3. "reset" \in Asked(ul)
    BY <1>4, <2>2 DEF Wire, OneThing, Token, Absent
  <2> QED BY <1>4, <2>3, AskedNames
<1>6. mds' = mds /\ dev' = dev
  BY <1>1, <1>5 DEF AnswersWith
<1>7. a.req = "mds" /\ a.res = "ok" => a.val = mds.onu
  <2>1. a.req = "mds" => AnswerVals(Head(sent)) = {mds.onu}
    BY <1>3 DEF AnswerVals
  <2> QED BY <1>1, <2>1 DEF AnswersWith
<1>8. "mds" \in Tokens
  BY DEF Tokens, Reqs, MEs
<1>9. Absent("mds") => Absent("mds")'
  BY <1>s, <1>8, TokensKept DEF Kept
<1>10. Waits("Mismatch")' <=> Waits("Mismatch")
  BY <1>2 DEF Waits
<1>11. AuditAnswer => AuditAnswer'
  <2>1. (\A m \in Answered : m.req = "mds" /\ m.res = "ok" => m.val = mds.onu) =>
          \A m \in Answered' : m.req = "mds" /\ m.res = "ok" => m.val = mds'.onu
    BY <1>3, <1>6, <1>7
  <2> QED BY <1>2, <1>9, <1>10, <2>1 DEF AuditAnswer
<1> QED BY <1>s, <1>6, <1>11 DEF Audit, Audited, Live

\* The other FSMs configure the ONU; the ONU diverges or is forgotten.
LEMMA AuditConfiguration ==
  ASSUME ImageInv, Frame, Audit, Stays, Configuration \/ OnuDiverges \/ UpdateInterface
  PROVE  Audit'
<1>s. /\ Shape /\ DOMAIN dev = DevMembers /\ ul' = ul /\ dev'.clean = dev.clean /\ dev'.midway = dev.midway
      /\ DOMAIN cfg = {"run", "air", "n"} /\ DOMAIN mds = {"adpt", "onu"}
  BY StaysPut DEF ImageInv, Shape, Frame
<1>1. CASE OnuDiverges \/ UpdateInterface \/ ConfigStarts
  <2>1. \/ dev' = [dev EXCEPT !.intact = FALSE]
        \/ dev' = [dev EXCEPT !.recon = "no", !.synced = FALSE, !.state = "init", !.ready = FALSE,
                              !.service = FALSE, !.intact = FALSE]
        \/ dev' = [dev EXCEPT !.touched = TRUE]
    BY <1>1 DEF OnuDiverges, UpdateInterface, ConfigStarts
  <2>2. ~dev'.intact \/ dev'.touched
    BY <1>s, <2>1 DEF DevMembers
  <2> QED BY <2>2 DEF Audit, Audited
<1>2. CASE ConfigResponse \/ ConfigEnds
  <2>1. /\ UNCHANGED <<pend, back, chan, sent>>
        /\ cfg' = [cfg EXCEPT !.air = FALSE] \/ cfg' = [cfg EXCEPT !.run = FALSE]
        /\ dev' = dev \/ dev' = [dev EXCEPT !.service = TRUE]
        /\ mds' = mds \/ \E v : mds' = [mds EXCEPT !.adpt = v]
    BY <1>2 DEF ConfigResponse, ConfigEnds
  <2>2. (cfg'.run => cfg.run) /\ dev'.intact = dev.intact /\ dev'.touched = dev.touched /\ mds'.onu = mds.onu
    BY <1>s, <2>1 DEF DevMembers
  <2>3. /\ Waits("Mismatch")' => Waits("Mismatch")
        /\ Answered' = Answered /\ (Absent("mds") => Absent("mds")')
    BY <2>1 DEF Waits, Answered, Absent
  <2> QED BY <1>s, <2>2, <2>3, AuditKept
<1>3. CASE OnuExecutes
  <2>1. UNCHANGED <<dev, pend, back, chan, sent>> /\ cfg.run
    BY <1>3 DEF OnuExecutes
  <2>2. ASSUME AuditAnswer PROVE AuditAnswer'
    <3>1. Absent("mds")
      BY <2>1, <2>2 DEF AuditAnswer
    <3>2. Absent("mds")' /\ Answered' = Answered /\ (Waits("Mismatch")' <=> Waits("Mismatch"))
      BY <2>1, <3>1 DEF Absent, Answered, Waits
    <3>3. \A m \in Answered' : m.req # "mds"
      BY <3>1, <3>2, AbsentIn
    <3> QED BY <2>2, <3>2, <3>3 DEF AuditAnswer
  <2> QED BY <1>s, <2>1, <2>2 DEF Audit, Audited, Live
<1> QED BY <1>1, <1>2, <1>3 DEF Configuration

\* The answer is that of the counter, which agrees.
LEMMA AuditGetResponse ==
  ASSUME ImageInv, Wire, Life, Match, Audit, Stays, HandleGetResponse
  PROVE  Audit'
<1>s. /\ Shape /\ ul' = ul
  BY StaysPut DEF ImageInv
<1>1. UNCHANGED <<mds, cfg, dev, back>> /\ Take /\ Message.req \in MEs
  BY DEF HandleGetResponse, Is
<1>v. ~Audited => Audit'
  BY <1>s, <1>1 DEF Audit, Audited, Live
<1>2. SUFFICES ASSUME Audited, AuditAnswer PROVE Audit'
  BY <1>v DEF Audit
<1>3. ul = "ReAuditing" /\ OneThing /\ dev.intact /\ ~dev.midway /\ Live
  BY <1>2 DEF Audited, Wire
<1>4. Message.req \in Tokens
  BY <1>1 DEF Tokens, Reqs
<1>5. Message.req \in Asked(ul) /\ ~Absent(Message.req) /\ last.type = "get" /\ last.me = Message.req
  BY <1>s, <1>1, <1>3, <1>4, Reads
<1>6. Message.req = "mds"
  BY <1>1, <1>3, <1>5, AskedNames DEF GetOf
<1>7. mds.adpt = mds.onu
  <2>1. ~cfg.run
    BY <1>2, <1>5, <1>6 DEF AuditAnswer
  <2>2. ~cfg.air
    BY <2>1 DEF Life, Configured
  <2> QED BY <1>3, <2>2 DEF Match, MatchInRun, Agree
<1>8. Message \in Answered /\ Answered' \subseteq Answered
  BY <1>s, <1>1, MessageTaken
<1>9. Message.res = "ok" => GetResponseEvents(Message) = {"Success"}
  <2>1. Message.res = "ok" => Message.val = mds.onu
    BY <1>2, <1>6, <1>8 DEF AuditAnswer
  <2>2. GetResponseEvents(Message) = CheckMdsValue(Message.val)
    BY <1>6 DEF GetResponseEvents
  <2>3. mds.adpt = Message.val => CheckMdsValue(Message.val) = {"Success"}
    BY <1>3 DEF CheckMdsValue
  <2> QED BY <1>7, <2>1, <2>2, <2>3
<1>10. GetResponseErrorEvents(Message) \subseteq {"GetMibTemplate", "Stop"}
  BY DEF GetResponseErrorEvents
<1>11. sent' = sent /\ (pend' = pend \/ \E v \in {"Success", "GetMibTemplate", "Stop"} : Post(v))
  <2> DEFINE events == IF Message.res # "ok" THEN GetResponseErrorEvents(Message)
                       ELSE IF Message.req = last.me THEN GetResponseEvents(Message) ELSE {"Stop"}
  <2>1. events \subseteq {"Success", "GetMibTemplate", "Stop"}
    BY <1>5, <1>9, <1>10
  <2>2. last.me # "none"
    BY <1>5, <1>6
  <2>3. sent' = sent /\ IF events = {} THEN NoEvent ELSE \E ev \in events : Post(ev)
    BY <1>5, <2>2 DEF HandleGetResponse
  <2> HIDE DEF events
  <2> QED BY <2>1, <2>3 DEF NoEvent
<1>12. Waits("Mismatch")' => Waits("Mismatch")
  BY <1>11 DEF Waits, Post
<1>13. Absent("mds") => Absent("mds")'
  BY <1>5, <1>6
<1> QED BY <1>s, <1>1, <1>8, <1>12, <1>13, AuditKept

\* The handlers of other answers find none in an audit.
LEMMA AuditOtherAnswers ==
  ASSUME ImageInv, Wire, Stays,
         HandleTestMsg \/ HandleMibResetResponse \/ HandleMibUploadResponse \/ HandleMibUploadNextResponse
  PROVE  Audit'
<1>s. /\ Shape /\ ul' = ul /\ dev'.clean = dev.clean
  BY StaysPut DEF ImageInv
<1>1. back' = back /\ Take /\ Message.req \in Tokens /\ Message.req # "mds"
  BY DEF HandleTestMsg, HandleMibResetResponse, HandleMibUploadResponse, HandleMibUploadNextResponse, Is, Tokens, Reqs
<1>2. ASSUME Live, ul = "ReAuditing" PROVE FALSE
  <2>1. Message.req \in Asked(ul)
    BY <1>s, <1>1, <1>2, Reads DEF Wire
  <2>2. Asked(ul) = {"mds"}
    BY <1>2 DEF Asked, GetOf
  <2> QED BY <1>1, <2>1, <2>2
<1> QED BY <1>s, <1>2 DEF Audit, Audited, Live

-----------------------------------------------------------------------------
(* The steps of the FSM and the second audit.                              *)

\* An event.
LEMMA AuditTransition ==
  ASSUME Shape, Frame, Audit, NEW ev \in Events, NEW by, NEW base, base \subseteq pend, NEW err \in BOOLEAN,
         Transition(ev, by, base, err), UNCHANGED <<chan, back, mds>>,
         ul \in DOMAIN Table[ev] /\ Table[ev][ul] = "ReAuditing" /\ dev.clean =>
           Clear /\ \A x \in base : x.ev \notin Progress
  PROVE  Audit'
<1>a. Answered' = Answered
  BY DEF Answered
<1>1. CASE ul \notin DOMAIN Table[ev]
  <2>1. UNCHANGED <<ul, sent, dev, cfg>> /\ pend' \subseteq pend
    BY <1>1 DEF Transition
  <2>2. (Waits("Mismatch")' => Waits("Mismatch")) /\ (Absent("mds") => Absent("mds")')
    BY <2>1 DEF Waits, Absent
  <2> QED BY <1>a, <2>1, <2>2, AuditKept
<1>2. CASE ul \in DOMAIN Table[ev]
  <2>1. CASE Table[ev][ul] # "ReAuditing"
    <3>1. ul' # "ReAuditing"
      BY <1>2, <2>1, Taken, Begun
    <3> QED BY <3>1 DEF Audit, Audited
  <2>2. CASE Table[ev][ul] = "ReAuditing"
    <3>1. PICK e : Does(e, base)
      BY <1>2, <2>2, Taken
    <3>2. /\ Acts(e, ul') /\ Leaves(e, ul') /\ ul' = "ReAuditing" /\ dev'.clean = dev.clean
          /\ sent' = e.sent \o e.send /\ cfg' = e.cfg
      BY <1>2, <2>2, <3>1, Taken, TakenDev DEF Does
    <3>3. SUFFICES ASSUME dev.clean PROVE AuditAnswer'
      BY <3>2 DEF Audit, Audited, Live
    <3>4. Clear /\ (\A x \in base : x.ev \notin Progress) /\ Absent("mds")
      BY <1>2, <2>2, <3>3 DEF Clear, Tokens, Reqs, MEs
    <3>5. "Mismatch" \in Progress
      BY EventNames DEF Progress
    <3>6. \A w \in Progress : Waits(w)' =>
              \/ \E x \in base : x.ev = w
              \/ w = "Success" /\ ul' \in {"UploadDone", "ExaminingMds", "Auditing", "ReAuditing"}
      BY <1>2, <2>2, SentTaken
    <3>7. ~Waits("Mismatch")'
      BY <3>4, <3>5, <3>6
    <3>8. \A m \in Answered' : m.req # "mds"
      BY <1>a, <3>4, AbsentIn
    <3>9. cfg' = cfg /\ (e.send = <<>> \/ ~cfg.run)
      BY <3>2 DEF Leaves
    <3>10. e.send = <<>> => Absent("mds")'
      <4>1. e.sent \in Seq(Sents) /\ \A r : Has(r, e.sent) => Has(r, sent)
        BY <3>2, HasMonitored DEF Acts, Shape
      <4>2. e.send = <<>> => sent' = e.sent
        BY <3>2, <4>1
      <4> QED BY <3>4, <4>1, <4>2 DEF Absent
    <3> QED BY <3>7, <3>8, <3>9, <3>10 DEF AuditAnswer
  <2> QED BY <2>1, <2>2
<1> QED BY <1>1, <1>2

\* The second audit follows the first, by an event of the latter's answer.
LEMMA AuditMoves ==
  ASSUME NEW ev \in Events, NEW s \in DOMAIN Table[ev]
  PROVE  /\ Table[ev][s] = "ReAuditing" => ev = "Mismatch"
         /\ s = "ReAuditing" /\ Table[ev][s] = "ResettingMib" => ev = "Mismatch"
BY DEF Events, Table, States, Stoppable, GetStates

\* Every step of the FSM.
LEMMA AuditEvents ==
  ASSUME ImageInv, Frame, Wire, Audit, Fire \/ FirstEvent \/ CancelStopsFsm \/ (OnuUp /\ ul = "Disabled")
  PROVE  Audit'
<1>s. Shape
  BY DEF ImageInv
<1>1. CASE Fire
  <2>1. PICK e \in pend, err \in BOOLEAN : Transition(e.ev, e.by, pend \ {e}, err)
    BY <1>1 DEF Fire
  <2>2. UNCHANGED <<chan, back, mds>> /\ e.ev \in Events
    BY <1>1, <1>s DEF Fire, Shape, Posts, PostedEvents
  <2>3. ul \in DOMAIN Table[e.ev] /\ Table[e.ev][ul] = "ReAuditing" /\ dev.clean =>
          Clear /\ \A x \in pend \ {e} : x.ev \notin Progress
    BY <1>s, FiredAlone
  <2> QED BY <1>s, <2>1, <2>2, <2>3, AuditTransition
<1>2. ASSUME NEW ev \in {"VerifyAndStoreTPs", "ResetMib", "Stop", "Start"}, NEW err \in BOOLEAN,
             Transition(ev, "dh", pend, err), UNCHANGED <<chan, back, mds>>
      PROVE  Audit'
  <2>1. ev \in Events /\ ev # "Mismatch"
    BY EventNames
  <2>2. ~(ul \in DOMAIN Table[ev] /\ Table[ev][ul] = "ReAuditing")
    BY <2>1, AuditMoves
  <2> QED BY <1>s, <1>2, <2>1, <2>2, AuditTransition
<1>3. CASE FirstEvent
  BY <1>2, <1>3 DEF FirstEvent
<1>4. CASE CancelStopsFsm
  BY <1>2, <1>4 DEF CancelStopsFsm
<1>5. CASE OnuUp /\ ul = "Disabled"
  BY <1>2, <1>5 DEF OnuUp
<1> QED BY <1>1, <1>3, <1>4, <1>5

\* Every step keeps the account of the audit.
LEMMA AuditStep ==
  ASSUME LifeInv, Match, Audit, [Next]_vars
  PROVE  Audit'
<1>i. ImageInv /\ Frame /\ Wire /\ Life
  BY DEF LifeInv
<1>1. CASE Stays
  BY <1>i, <1>1, AuditQuiet, AuditOnuAnswers, AuditConfiguration, AuditGetResponse, AuditOtherAnswers
     DEF Stays, Processor, Requests
<1>2. CASE OnuRepeats
  BY <1>i, <1>2, Repeated DEF Audit, Audited, Live, ImageInv
<1>3. CASE ~Stays /\ ~OnuRepeats
  BY <1>i, <1>3, StepsOf, AuditEvents
<1> QED BY <1>1, <1>2, <1>3

\* The MIB is reset from the second audit only by a mismatch it has found.
LEMMA ResetByMismatch ==
  ASSUME Shape, Frame, [Next]_vars, ul = "ReAuditing", ul' = "ResettingMib"
  PROVE  Waits("Mismatch")
<1>1. ~Stays /\ ~OnuRepeats
  BY StaysPut, Repeated
<1>2. ASSUME NEW ev \in Events, NEW by, NEW base, NEW err \in BOOLEAN, Transition(ev, by, base, err)
      PROVE  ev = "Mismatch"
  <2>1. ul \in DOMAIN Table[ev]
    BY <1>2 DEF Transition
  <2>2. Table[ev][ul] = "ResettingMib"
    BY <1>2, <2>1, Taken, Begun
  <2> QED BY <2>1, <2>2, AuditMoves
<1>3. CASE Fire
  <2>1. PICK e \in pend, err \in BOOLEAN : Transition(e.ev, e.by, pend \ {e}, err)
    BY <1>3 DEF Fire
  <2>2. e.ev \in Events
    BY DEF Shape, Posts, PostedEvents
  <2> QED BY <1>2, <2>1, <2>2 DEF Waits
<1>4. {"VerifyAndStoreTPs", "ResetMib", "Stop", "Start"} \subseteq Events \ {"Mismatch"}
  BY EventNames
<1>5. ~FirstEvent /\ ~CancelStopsFsm /\ ~OnuUp
  <2>1. \A ev \in {"VerifyAndStoreTPs", "ResetMib", "Stop", "Start"}, err \in BOOLEAN : ~Transition(ev, "dh", pend, err)
    BY <1>2, <1>4
  <2>2. OnuUp => Transition("Start", "dh", pend, FALSE)
    BY DEF OnuUp
  <2>3. CancelStopsFsm => Transition("Stop", "dh", pend, FALSE)
    BY DEF CancelStopsFsm
  <2>4. FirstEvent => \E err \in BOOLEAN : Transition(IF dev.synced THEN "VerifyAndStoreTPs" ELSE "ResetMib", "dh", pend, err)
    BY DEF FirstEvent
  <2> QED BY <2>1, <2>2, <2>3, <2>4
<1> QED BY <1>1, <1>3, <1>5, StepsOf

\* checkMdsValue and the audits: the second audit resets the MIB of an ONU in
\* service only if the ONU has diverged, another FSM ran into the audit, or an
\* earlier reset ran into reconciling, for every size of the counter and every
\* number of audits; provided that the FSM does not survive the loss of the
\* ONU.
LEMMA AuditIsSound == Spec /\ []EndedWithTheOnu => AuditSound
<1> DEFINE Inv == LifeInv /\ Match /\ Audit
<1>1. Init => Inv
  <2>1. Init => Audit
    BY DEF Init, Audit, Audited
  <2> QED BY <2>1, LifeInvariant, MatchInit
<1>2. Inv /\ EndedWithTheOnu /\ EndedWithTheOnu' /\ [Next]_vars => Inv'
  BY LifeInvariant, MatchStep, AuditStep
<1>3. Inv /\ [Next]_vars =>
        [ul = "ReAuditing" /\ ul' = "ResettingMib" => ~dev.intact \/ dev.touched \/ dev.midway \/ ~dev.clean]_vars
  <2>1. SUFFICES ASSUME Inv, [Next]_vars, ul = "ReAuditing", ul' = "ResettingMib",
                        dev.intact, ~dev.touched, ~dev.midway, dev.clean
                 PROVE  FALSE
    OBVIOUS
  <2>2. Waits("Mismatch")
    BY <2>1, ResetByMismatch DEF LifeInv, ImageInv
  <2> QED BY <2>1, <2>2 DEF Audit, Audited, AuditAnswer, Live
<1> QED BY <1>1, <1>2, <1>3, PTL DEF Spec, AuditSound

-----------------------------------------------------------------------------
(***************************************************************************)
(* The premise.  An ONU that goes down may break it, for its FSM may       *)
(* survive; it holds, and needs no mention, for an ONU that stays up.      *)
(***************************************************************************)
\* The ONU stays up once it is up.
NeverDown ==
  /\ dh \in {"off", "started", "verify", "up"}
  /\ dh = "off" => ul = "Disabled" /\ ~flow

\* Then the FSM does not outlive the ONU.
LEMMA EndedNeverDown ==
  ASSUME "down" \notin Kinds
  PROVE  Spec => []EndedWithTheOnu
<1> DEFINE Inv == ImageInv /\ Frame /\ NeverDown
<1>1. Init => Inv
  BY ImageInvInit, FrameInit DEF Init, NeverDown
<1>2. Inv /\ [Next]_vars => Inv'
  <2>1. SUFFICES ASSUME Inv, [Next]_vars PROVE NeverDown'
    BY ImageInvStep, FrameStep DEF ImageInv
  <2>s. Shape
    BY <2>1 DEF ImageInv
  <2>c. dh = "off" => cb = NoCb
    BY <2>1 DEF NeverDown, Frame, CbIn
  <2>2. CASE Stays
    <3>1. ul' = ul
      BY <2>s, <2>2, StaysPut
    <3>2. CASE Callbacks
      <4>0. cb.at # "none" /\ (dh' = dh \/ dh' = "up")
        BY <3>2 DEF Callbacks, TestingEnds, TemplateSearched, TPsVerified, RestoreFails, RestoreEndsWithoutFlows,
                    RestoreTPs, FlowsReconciled, CallbackEnds
      <4>1. cb # NoCb /\ dh' \in {dh, "up"}
        BY <4>0 DEF NoCb
      <4> QED BY <2>1, <2>c, <3>1, <4>1 DEF NeverDown
    <3>3. CASE ~Callbacks
      <4>1. (flow' = flow \/ ~flow') /\ (dh' = dh \/ OnuDown \/ dh \in {"cancel", "clear"} \/ (dh = "off" /\ ul # "Disabled"))
        BY <2>2, <3>3
           DEF Stays, Processor, ProcStarts, RxSignalEnds, HandleTestMsg, HandleMibResetResponse,
               HandleMibUploadResponse, HandleMibUploadNextResponse, HandleGetResponse, Timers, FlowExpiry,
               AuditTimer, Requests, OnuAnswers, Deliver, RequestTimeout, RequestLost, Configuration,
               ConfigStarts, OnuExecutes, ConfigResponse, ConfigEnds, OnuDiverges,
               ProcessMibDatabaseSync, ReconcilingEnds, CancelAborts, UpdateInterface, OnuUp, OnuDown, vars
      <4>2. ~OnuDown
        BY DEF OnuDown, Disturb
      <4> QED BY <2>1, <3>1, <4>1, <4>2 DEF NeverDown
    <3> QED BY <3>2, <3>3
  <2>3. CASE Fire
    <3>1. PICK e \in pend, err \in BOOLEAN : Transition(e.ev, e.by, pend \ {e}, err)
      BY <2>3 DEF Fire
    <3>2. UNCHANGED <<dh, flow>> /\ e.ev \in PostedEvents
      BY <2>s, <2>3 DEF Fire, Shape, Posts
    <3>3. ul = "Disabled" => ul \notin DOMAIN Table[e.ev]
      BY <3>2, Moves DEF PostedEvents
    <3>4. ul = "Disabled" => ul' = ul
      BY <3>1, <3>3 DEF Transition
    <3> QED BY <2>1, <3>2, <3>4 DEF NeverDown
  <2>4. CASE FirstEvent \/ CancelStopsFsm \/ (OnuUp /\ ul = "Disabled")
    <3>1. dh' \in {"up", "verify", "started"} \/ dh = "stop"
      BY <2>4 DEF FirstEvent, CancelStopsFsm, OnuUp
    <3> QED BY <2>1, <3>1 DEF NeverDown
  <2>5. CASE OnuRepeats
    <3>1. UNCHANGED <<ul, dh, flow>>
      BY <2>5 DEF OnuRepeats
    <3> QED BY <2>1, <3>1 DEF NeverDown
  <2> QED BY <2>1, <2>2, <2>3, <2>4, <2>5, StepsOf
<1>3. Inv => EndedWithTheOnu
  BY DEF NeverDown, EndedWithTheOnu, EarlyStates
<1> QED BY <1>1, <1>2, <1>3, PTL DEF Spec

\* The MIB reset, IncrementMibDataSync and the audits: without the premise,
\* for an ONU that stays up.
THEOREM SoundWhileUp ==
  ASSUME "down" \notin Kinds
  PROVE  Spec => []Reprovisioned /\ []InSyncSound /\ AuditSound
BY EndedNeverDown, ResetIsReprovisioned, CountersAgree, AuditIsSound, PTL
=============================================================================
