------------------------- MODULE D2BTransport_proofs -------------------------
(***************************************************************************)
(* That a local stop of Live View takes hold of its owner for good and     *)
(* tells the truth, for counters and queues of any width.                  *)
(***************************************************************************)
EXTENDS D2BTransport, TLAPS, SequenceTheorems

Asking    == {"off", "up", "target", "status", "publish"}
Published == {"claim", "enqueue", "failing", "poll", "reload", "stop", "join"}
Told      == {"NoOwner", "Complete"}

(* Before a request is published there is nothing of it, and nothing is    *)
(* left when the server has stopped.                                       *)
PhaseInv ==
  /\ app.pc \in Asking \cup {"failing"} => token = 0
  /\ app.pc \in Published => reqId # 0
  /\ app.pc \in {"target", "status", "publish"} => reqCount # 0
  /\ app.pc \in {"off", "after"} => http.pc = "idle" /\ work = <<>> /\ pre = 0 /\ pipe = NoPipe
  /\ app.pc = "join" => pipe = NoPipe
  /\ app.pc = "off" => own = NoOwner /\ ~gate.on
  /\ app.pc \notin {"off", "up"} => ~admit
  /\ ~pipe.accepting => pipe = NoPipe

(* What a handler that is half way relies on.                              *)
HandlerInv ==
  /\ http.pc = "starting" => own # NoOwner /\ ~gate.on
  /\ http.pc = "closing" => own # NoOwner
  /\ http.pc \in {"closed", "completing"} => own = NoOwner

(* One owner: the gate's, the session's, the pipeline's.                   *)
OwnerInv ==
  /\ GateFollowsOwner
  /\ (own = NoOwner) <=> (sess = "Closed")
  /\ own \in {NoOwner, ownCount}
  /\ pipe.owner \in {NoOwner, own}
  /\ pipe.owner = NoOwner => pipe.stream = "none"
  /\ pipe.owner # NoOwner => (pipe.stream = "live" <=> sess = "Streaming")
  /\ StopsForGood

(* How many owners there were since the one the stop was asked about.      *)
Since(owner) == IF owner < asked THEN owner + OwnerMax - asked ELSE owner - asked

(* After a stop was asked for, an owner may come for each socket that was  *)
(* admitted before, and no more: the generations do not come round.        *)
Door == ownCount # NoOwner /\ Since(ownCount) + pre <= SocketMax

AskedInv ==
  /\ app.pc \in {"off", "up"} => asked = NoOwner
  /\ asked # NoOwner => Door

(* The client that was connected when the stop was asked for is gone.      *)
Gone == asked = NoOwner \/ own # asked

Held(request) == gate.on /\ gate.request = request /\ own # NoOwner

(* The work item still has the status there is, and a status is true.      *)
StatusInv ==
  /\ AtWork => http.request # 0 /\ app.pc \in Published
  /\ http.pc \in {"apply", "report"} => http.request = reqId
  /\ http.pc = "apply" => http.status = stat
  /\ http.pc = "report" /\ stat \in Final => http.status \in Final
  /\ http.pc = "report" /\ http.status \in Told => Gone
  /\ http.pc = "report" /\ http.status = "ActiveStreamStopping" => Held(reqId) \/ Gone
  /\ app.pc = "publish" => stat \in {"Queued", "Complete"}
  /\ app.pc \in Published \cup {"publish"} /\ stat \in Told => Gone
  /\ app.pc \in Published /\ stat = "ActiveStreamStopping" => Held(reqId) \/ Gone

TransportInv == TypeOK /\ PhaseInv /\ HandlerInv /\ OwnerInv /\ AskedInv /\ StatusInv
                /\ OneWorkPerRequest
-----------------------------------------------------------------------------
(* Facts about the types, the counters and the work queue. *)

Items   == [kind : {"stop"}, arg : Requests] \cup [kind : {"close"}, arg : Owners]
AppSet  == [pc : AppSteps, call : {"none", "request", "poll"}]
HttpSet == [pc : HttpSteps, request : Requests, status : Statuses]
GateSet == [on : BOOLEAN, owner : Owners, request : Requests]
PipeSet == [accepting : BOOLEAN, owner : Owners, stream : {"none", "live", "stopping"}]
Sessions == {"Closed", "Connected", "Ready", "Streaming"}

Fields ==
  /\ app \in AppSet /\ http \in HttpSet /\ work \in Seq(Items)
  /\ admit \in BOOLEAN /\ pre \in 0 .. SocketMax
  /\ own \in Owners /\ ownCount \in Owners /\ sess \in Sessions /\ viol \in 0 .. 3
  /\ gate \in GateSet /\ pipe \in PipeSet
  /\ stat \in Statuses /\ target \in BOOLEAN
  /\ reqId \in Requests /\ reqCount \in Requests /\ token \in Requests
  /\ asked \in Owners

(* The type invariant, with the sets of the records named.                 *)
LEMMA TypeByFields == TypeOK <=> Fields
BY DEF TypeOK, Fields, AppSet, HttpSet, GateSet, PipeSet, Items, Sessions

(* A counter that wraps skips 0 and never repeats at once.                 *)
LEMMA NextIds ==
  /\ NoOwner \in Owners /\ 0 \in Requests /\ NoOwner = 0
  /\ \A owner \in Owners : /\ NextId(owner, OwnerMax) \in Owners
                            /\ NextId(owner, OwnerMax) # NoOwner
                            /\ NextId(owner, OwnerMax) # owner
  /\ \A request \in Requests : /\ NextId(request, RequestMax) \in Requests
                                /\ NextId(request, RequestMax) # 0
BY WidthAssumption DEF NextId, Owners, Requests, NoOwner

(* A newcomer is one more owner since the stop was asked for, and never    *)
(* the one it was asked about.                                             *)
LEMMA Newcomer ==
  ASSUME asked \in Owners \ {NoOwner}, ownCount \in Owners, pre \in 0 .. SocketMax, pre > 0, Door
  PROVE  /\ NextId(ownCount, OwnerMax) # asked
         /\ Since(NextId(ownCount, OwnerMax)) + (pre - 1) <= SocketMax
BY WidthAssumption, SocketAssumption DEF Door, Since, NextId, Owners, NoOwner

(* What an item put into the queue changes.                                *)
LEMMA AppendItem ==
  ASSUME work \in Seq(Items), NEW item \in Items, Queue(item)
  PROVE  /\ work' \in Seq(Items)
         /\ item.kind = "close" => StopItems' = StopItems /\ \A i \in StopItems : work'[i] = work[i]
         /\ item.kind = "stop" /\ StopItems = {} =>
              \E i \in StopItems' : StopItems' = {i} /\ work'[i] = item
<1>1. work' = Append(work, item) /\ work' \in Seq(Items)
  BY DEF Queue
<1>2. /\ Len(work') = Len(work) + 1 /\ work'[Len(work) + 1] = item
      /\ \A i \in 1 .. Len(work) : work'[i] = work[i]
      /\ DOMAIN work = 1 .. Len(work) /\ DOMAIN work' = 1 .. Len(work) + 1
      /\ Len(work) \in Nat
  BY <1>1
<1>3. CASE item.kind = "close"
  BY <1>1, <1>2, <1>3 DEF StopItems
<1>4. CASE item.kind = "stop"
  BY <1>1, <1>2, <1>4 DEF StopItems
<1> QED
  BY <1>1, <1>3, <1>4 DEF Items

(* What is left of the queue when its first item is taken.                 *)
LEMMA TakeItem ==
  ASSUME work \in Seq(Items), work # <<>>, work' = Tail(work)
  PROVE  /\ work' \in Seq(Items) /\ Head(work) \in Items
         /\ Head(work).kind = "stop" => 1 \in StopItems /\ Head(work) = work[1]
         /\ \A i \in StopItems : StopItems = {i} =>
              IF Head(work).kind = "stop" THEN StopItems' = {} /\ i = 1
              ELSE StopItems' = {i - 1} /\ work'[i - 1] = work[i]
         /\ StopItems = {} => StopItems' = {}
<1>1. /\ work' \in Seq(Items) /\ Head(work) = work[1] /\ Head(work) \in Items
      /\ Len(work) \in Nat \ {0} /\ Len(work') = Len(work) - 1
      /\ \A i \in 1 .. Len(work') : work'[i] = work[i + 1]
  BY HeadTailProperties
<1>2. DOMAIN work = 1 .. Len(work) /\ DOMAIN work' = 1 .. Len(work')
  BY <1>1
<1>3. \A i \in Int : i \in StopItems' <=> (i >= 1 /\ i + 1 \in StopItems)
  BY <1>1, <1>2 DEF StopItems
<1>4. StopItems \subseteq 1 .. Len(work) /\ StopItems' \subseteq Int
  BY <1>2 DEF StopItems
<1>5. Head(work).kind = "stop" => 1 \in StopItems
  BY <1>1, <1>2 DEF StopItems
<1>6. Head(work).kind # "stop" => 1 \notin StopItems
  BY <1>1, <1>2 DEF StopItems
<1>7. ASSUME NEW i \in StopItems, StopItems = {i}
      PROVE  IF Head(work).kind = "stop" THEN StopItems' = {} /\ i = 1
             ELSE StopItems' = {i - 1} /\ work'[i - 1] = work[i]
  <2>1. CASE Head(work).kind = "stop"
    BY <1>3, <1>4, <1>5, <1>7, <2>1
  <2>2. CASE Head(work).kind # "stop"
    <3>1. i \in 2 .. Len(work)
      BY <1>1, <1>4, <1>6, <1>7, <2>2
    <3>2. \A k \in Int : k \in StopItems <=> k = i
      BY <1>7
    <3>3. \A k \in StopItems' : k = i - 1
      BY <1>3, <1>4, <3>2
    <3>4. i - 1 \in StopItems'
      BY <1>3, <3>1, <3>2
    <3>5. StopItems' = {i - 1}
      BY <3>3, <3>4
    <3>6. work'[i - 1] = work[i]
      <4>1. i - 1 \in 1 .. Len(work') /\ (i - 1) + 1 = i
        BY <1>1, <3>1
      <4> QED
        BY <1>1, <4>1
    <3> QED
      BY <2>2, <3>5, <3>6
  <2> QED
    BY <2>1, <2>2
<1>8. StopItems = {} => StopItems' = {}
  BY <1>3, <1>4
<1> QED
  BY <1>1, <1>5, <1>7, <1>8

-----------------------------------------------------------------------------
(* What every step keeps, one invariant at a time. *)

(* Every step keeps the types.                                             *)
LEMMA TypeStep ==
  ASSUME TypeOK, Next
  PROVE  Fields'
<1>a. /\ app \in AppSet /\ http \in HttpSet /\ work \in Seq(Items) /\ gate \in GateSet /\ pipe \in PipeSet
      /\ admit \in BOOLEAN /\ pre \in 0 .. SocketMax /\ own \in Owners /\ ownCount \in Owners
      /\ sess \in Sessions /\ viol \in 0 .. 3 /\ stat \in Statuses /\ target \in BOOLEAN
      /\ reqId \in Requests /\ reqCount \in Requests /\ token \in Requests /\ asked \in Owners
  BY TypeByFields DEF Fields
<1>h. \A pc \in HttpSteps : HttpAt(pc) => http' \in HttpSet
  BY <1>a DEF HttpAt, HttpSet
<1>r. \A status \in Statuses : Reporting(status) => http' \in HttpSet
  BY <1>a DEF Reporting, HttpSet, HttpSteps
<1>p. \A pc \in AppSteps : AppAt(pc) => app' \in AppSet
  BY <1>a DEF AppAt, AppSet
<1>w. \A item \in Items : Queue(item) => work' \in Seq(Items)
  BY <1>a, AppendItem
<1>c. CloseItem(own) \in Items /\ CloseItem(pipe.owner) \in Items /\ StopItem(reqId) \in Items
  BY <1>a DEF CloseItem, StopItem, Items, PipeSet
<1>n. NoGate \in GateSet /\ NoPipe \in PipeSet /\ <<>> \in Seq(Items)
  BY NextIds DEF NoGate, NoPipe, GateSet, PipeSet
<1>d. /\ pre < SocketMax => pre + 1 \in 0 .. SocketMax
      /\ pre > 0 => pre - 1 \in 0 .. SocketMax
  BY <1>a, SocketAssumption
<1>t. TriggerClose => work' \in Seq(Items) /\ http' \in HttpSet
  BY <1>a, <1>r, <1>w, <1>c DEF TriggerClose, OnTrigger, Statuses
<1>1. CASE Handshake
  <2>1. gate' \in GateSet /\ ownCount' \in Owners
    BY <1>1, <1>a, <1>n, NextIds DEF Handshake
  <2>2. own' \in Owners /\ sess' \in Sessions /\ viol' \in 0 .. 3 /\ pipe' \in PipeSet
    <3>1. CASE pipe.accepting /\ pipe.owner = NoOwner
      <4>1. /\ own' = ownCount' /\ sess' = "Connected" /\ viol' = 0
            /\ pipe' = [pipe EXCEPT !.owner = ownCount', !.stream = "none"]
        BY <1>1, <3>1 DEF Handshake
      <4>2. pipe' \in PipeSet
        BY <1>a, <2>1, <4>1 DEF PipeSet
      <4> QED
        BY <2>1, <4>1, <4>2 DEF Sessions
    <3>2. CASE ~(pipe.accepting /\ pipe.owner = NoOwner)
      BY <1>1, <1>a, <3>2 DEF Handshake
    <3> QED
      BY <3>1, <3>2
  <2> QED
    BY <1>1, <1>a, <1>d, <2>1, <2>2 DEF Handshake, Fields, atomVars
<1>2. CASE CloseOwner
  <2>1. gate' \in GateSet /\ http' \in HttpSet
    BY <1>2, <1>a, <1>h, <1>n DEF CloseOwner, GateClosed, HttpSteps
  <2>2. pipe' \in PipeSet
    <3>1. CASE pipe.owner = own
      BY <1>2, <1>a, <3>1, NextIds DEF CloseOwner, PipeClosed, PipeSet
    <3>2. CASE pipe.owner # own
      BY <1>2, <1>a, <3>2 DEF CloseOwner, PipeClosed
    <3> QED
      BY <3>1, <3>2
  <2> QED
    BY <1>2, <1>a, <2>1, <2>2, NextIds DEF CloseOwner, Fields, atomVars, Sessions
<1>3. CASE LocalStopWork
  <2>1. work' \in Seq(Items) /\ Head(work) \in Items /\ Head(work).kind = "stop"
    BY <1>3, <1>a, TakeItem DEF LocalStopWork
  <2>2. Head(work).arg \in Requests
    BY <2>1 DEF Items
  <2>3. http' \in HttpSet
    BY <1>3, <1>a, <2>2 DEF LocalStopWork, HttpSet, HttpSteps
  <2> QED
    BY <1>3, <1>a, <2>1, <2>3 DEF LocalStopWork, Fields, clientVars, atomVars
<1>4. CASE BeginLocalStop
  <2>1. gate' \in GateSet
    <3>1. http.request \in Requests
      BY <1>a DEF HttpSet
    <3>2. Freeze => gate' \in GateSet
      BY <1>a, <3>1 DEF Freeze, GateSet
    <3> QED
      BY <1>4, <1>n, <3>2 DEF BeginLocalStop
  <2>2. sess' \in Sessions /\ pipe' \in PipeSet
    BY <1>4, <1>a DEF BeginLocalStop, Halted, Sessions, PipeSet
  <2>3. work' \in Seq(Items) /\ http' \in HttpSet
    BY <1>4, <1>a, <1>r, <1>t DEF BeginLocalStop, Statuses
  <2> QED
    BY <1>4, <1>a, <2>1, <2>2, <2>3 DEF BeginLocalStop, Fields, atomVars
<1>5. CASE PollLocalStop
  <2>1. gate' \in GateSet
    BY <1>5, <1>a, <1>n DEF PollLocalStop
  <2>2. work' \in Seq(Items) /\ http' \in HttpSet
    BY <1>5, <1>a, <1>r, <1>t DEF PollLocalStop, Statuses
  <2> QED
    BY <1>5, <1>a, <2>1, <2>2 DEF PollLocalStop, Fields, atomVars
<1>6. CASE HttpdStops
  <2>1. app' \in AppSet /\ work' \in Seq(Items)
    BY <1>6, <1>p, <1>n DEF HttpdStops, AppSteps
  <2>2. pre' \in 0 .. SocketMax
    BY <1>6, SocketAssumption DEF HttpdStops
  <2> QED
    BY <1>6, <1>a, <2>1, <2>2 DEF HttpdStops, Fields, clientVars, atomVars
<1>7. CASE AfterServerStopped
  <2>1. app' \in AppSet
    BY <1>7 DEF AfterServerStopped, AppSet, AppSteps
  <2>2. reqCount' \in Requests /\ reqId' \in Requests
    BY <1>7, <1>a, NextIds DEF AfterServerStopped
  <2> QED
    <3>1. own' \in Owners /\ asked' \in Owners /\ token' \in Requests /\ gate' \in GateSet
      BY <1>7, <1>n, NextIds DEF AfterServerStopped
    <3>2. sess' \in Sessions /\ viol' \in 0 .. 3
      BY <1>7 DEF AfterServerStopped, Sessions
    <3>3. stat' \in Statuses
      BY <1>7 DEF AfterServerStopped, Statuses
    <3>4. target' \in BOOLEAN
      BY <1>7 DEF AfterServerStopped
    <3>5. UNCHANGED <<http, work, admit, pre, ownCount, pipe>>
      BY <1>7 DEF AfterServerStopped
    <3> QED
      BY <1>a, <2>1, <2>2, <3>1, <3>2, <3>3, <3>4, <3>5 DEF Fields
<1> USE DEF Fields, clientVars, atomVars, AppSteps, HttpSteps, Statuses, Sessions, PipeSet,
       GateSet, NoGate, NoPipe, NoOwner
<1>8. CASE OrderlyEnd
  BY <1>8, <1>a DEF OrderlyEnd, HttpIdle
<1>9. CASE FailStream
  BY <1>9, <1>a, <1>w, <1>c, NextIds DEF FailStream
<1>10. CASE Connect
  BY <1>10, <1>a, <1>d DEF Connect, HttpIdle
<1>11. CASE Leave
  BY <1>11, <1>a, <1>d DEF Leave, HttpIdle
<1>12. CASE RejectHandshake
  BY <1>12, <1>a, <1>d DEF RejectHandshake, HttpIdle
<1>13. CASE ClientGone
  BY <1>13, <1>a, <1>h DEF ClientGone, HttpIdle
<1>14. ASSUME NEW sent \in BOOLEAN,
       BadMessage(sent)
       PROVE  Fields'
  BY <1>14, <1>a, <1>h DEF BadMessage, HttpIdle, Violation
<1>15. ASSUME NEW sent \in BOOLEAN, NEW supported \in BOOLEAN, NEW type \in Messages,
       Message(type, supported, sent)
       PROVE  Fields'
  BY <1>15, <1>a, <1>h DEF Message, HttpIdle, Gated, Violation, MayStop, Stopping, Answer, Allowed
<1>16. CASE StartStream
  BY <1>16, <1>a, <1>h DEF StartStream, MayStart
<1>17. CASE ClientClosed
  BY <1>17, <1>a, <1>h DEF ClientClosed
<1>18. CASE CompleteStop
  BY <1>18, <1>a, <1>h DEF CompleteStop
<1>19. CASE CloseWork
  BY <1>19, <1>a, <1>h DEF CloseWork, HttpIdle
<1>20. CASE NothingToDo
  BY <1>20, <1>a, <1>h DEF NothingToDo, HttpSet
<1>21. CASE ReportStatus
  BY <1>21, <1>a, <1>h DEF ReportStatus, HttpSet
<1>22. CASE ReleaseToken
  BY <1>22, <1>a, NextIds DEF ReleaseToken, Released, Rest, HttpSet
<1>23. CASE StartServer
  BY <1>23, <1>a, <1>p, NextIds DEF StartServer
<1>24. CASE RequestStop
  BY <1>24, <1>a, NextIds DEF RequestStop, AppSet
<1>25. CASE StoreTarget
  BY <1>25, <1>a, <1>p DEF StoreTarget
<1>26. CASE StoreQueued
  BY <1>26, <1>a, <1>p DEF StoreQueued
<1>27. CASE PublishRequest
  BY <1>27, <1>a, <1>p DEF PublishRequest
<1>28. CASE ClaimToken
  BY <1>28, <1>a, <1>p DEF ClaimToken, MayClaim, Returned
<1>29. CASE Enqueue
  BY <1>29, <1>a, <1>p, <1>w, <1>c DEF Enqueue, Returned
<1>30. CASE EnqueueFails
  BY <1>30, <1>a, <1>p, NextIds DEF EnqueueFails, Released
<1>31. CASE StoreFailed
  BY <1>31, <1>a, <1>p DEF StoreFailed, Returned
<1>32. CASE PollStop
  BY <1>32, <1>a DEF PollStop, NeedsWork, AppSet
<1>33. CASE ReloadStatus
  BY <1>33, <1>a, <1>p DEF ReloadStatus
<1>34. CASE Deadline
  BY <1>34, <1>a, <1>p DEF Deadline
<1>35. CASE StopServer
  BY <1>35, <1>a, <1>p, NextIds DEF StopServer
<1>36. CASE HttpdStopFails
  BY <1>36, <1>a, <1>p DEF HttpdStopFails
<1> QED
  BY <1>1, <1>2, <1>3, <1>4, <1>5, <1>6, <1>7, <1>8, <1>9, <1>10, <1>11, <1>12, <1>13, <1>14, 
     <1>15, <1>16, <1>17, <1>18, <1>19, <1>20, <1>21, <1>22, <1>23, <1>24, <1>25, <1>26, 
     <1>27, <1>28, <1>29, <1>30, <1>31, <1>32, <1>33, <1>34, <1>35, <1>36
     DEF Next, Client, Handler, Work, StopWork, Requesting, Queueing, Polling

(* Every step keeps what each phase of a stop relies on.                   *)
LEMMA PhaseStep ==
  ASSUME TypeOK, PhaseInv, HandlerInv, OneWorkPerRequest, Next
  PROVE  PhaseInv'
<1>a. /\ app \in AppSet /\ http \in HttpSet /\ gate \in GateSet /\ pipe \in PipeSet
      /\ reqCount \in Requests /\ ownCount \in Owners
  BY TypeByFields DEF Fields
<1>0. PhaseInv /\ HandlerInv /\ OneWorkPerRequest
  OBVIOUS
<1>1. CASE Handshake
  <2>1. /\ app' = app /\ http' = http /\ work' = work /\ admit' = admit
        /\ token' = token /\ reqId' = reqId /\ reqCount' = reqCount
        /\ app.pc \notin {"off", "after"}
    BY <1>1, <1>a DEF Handshake, HttpIdle, atomVars
  <2>2. CASE pipe.accepting
    <3>1. pipe'.accepting
      BY <1>1, <1>a, <2>2 DEF Handshake, PipeSet
    <3>2. app.pc # "join"
      BY <1>0, <2>2 DEF PhaseInv, NoPipe
    <3> QED
      BY <1>0, <2>1, <3>1, <3>2 DEF PhaseInv, OneWorkPerRequest, Asking, Published
  <2>3. CASE ~pipe.accepting
    <3>1. pipe' = pipe
      BY <1>1, <2>3 DEF Handshake
    <3> QED
      BY <1>0, <2>1, <3>1 DEF PhaseInv, OneWorkPerRequest, Asking, Published
  <2> QED
    BY <2>2, <2>3
<1>2. CASE CloseOwner
  <2>1. /\ app' = app /\ work' = work /\ admit' = admit /\ pre' = pre /\ app.pc \notin {"off", "after"}
        /\ token' = token /\ reqId' = reqId /\ reqCount' = reqCount
    BY <1>2, <1>a, <1>0 DEF CloseOwner, PhaseInv, atomVars
  <2>2. CASE pipe.owner = own
    <3>1. pipe # NoPipe
      BY <1>2, <1>0, <2>2 DEF CloseOwner, HandlerInv, NoPipe
    <3>2. pipe'.accepting = pipe.accepting
      BY <1>2, <1>a, <2>2 DEF CloseOwner, PipeClosed, PipeSet
    <3> QED
      BY <1>0, <2>1, <3>1, <3>2 DEF PhaseInv, Asking, Published
  <2>3. CASE pipe.owner # own
    <3>1. pipe' = pipe
      BY <1>2, <2>3 DEF CloseOwner, PipeClosed
    <3> QED
      BY <1>0, <2>1, <3>1 DEF PhaseInv, Asking, Published
  <2> QED
    BY <2>2, <2>3
<1> USE DEF PhaseInv, OneWorkPerRequest, BeingQueued, AtWork, Asking, Published, NoGate,
       NoPipe, AppSet, HttpSet, GateSet, PipeSet, AppSteps, HttpSteps, clientVars, atomVars
<1>3. CASE OrderlyEnd
  BY <1>3, <1>a DEF OrderlyEnd, HttpIdle
<1>4. CASE FailStream
  BY <1>4, <1>a DEF FailStream, Queue
<1>5. CASE Connect
  BY <1>5, <1>a DEF Connect, HttpIdle
<1>6. CASE Leave
  BY <1>6, <1>a DEF Leave, HttpIdle
<1>7. CASE RejectHandshake
  BY <1>7, <1>a DEF RejectHandshake, HttpIdle
<1>8. CASE ClientGone
  BY <1>8, <1>a DEF ClientGone, HttpIdle, HttpAt
<1>9. ASSUME NEW sent \in BOOLEAN,
       BadMessage(sent)
       PROVE  PhaseInv'
  BY <1>9, <1>a DEF BadMessage, HttpIdle, Violation, HttpAt
<1>10. ASSUME NEW sent \in BOOLEAN, NEW supported \in BOOLEAN, NEW type \in Messages,
       Message(type, supported, sent)
       PROVE  PhaseInv'
  BY <1>10, <1>a DEF Message, HttpIdle, Gated, Violation, HttpAt, MayStop, Stopping, Answer,
     Allowed, Messages
<1>11. CASE StartStream
  BY <1>11, <1>a DEF StartStream, MayStart, HttpAt
<1>12. CASE ClientClosed
  BY <1>12, <1>a DEF ClientClosed, HttpAt
<1>13. CASE CompleteStop
  BY <1>13, <1>a DEF CompleteStop, HttpAt
<1>14. CASE CloseWork
  BY <1>14, <1>a DEF CloseWork, HttpIdle, HttpAt
<1>15. CASE LocalStopWork
  BY <1>15, <1>a DEF LocalStopWork, HttpIdle
<1>16. CASE BeginLocalStop
  BY <1>16, <1>a DEF BeginLocalStop, Reporting, Freeze, TriggerClose, Queue, MayStop, Halted,
     OnTrigger
<1>17. CASE PollLocalStop
  BY <1>17, <1>a DEF PollLocalStop, Reporting, TriggerClose, Queue, OnTrigger
<1>18. CASE NothingToDo
  BY <1>18, <1>a DEF NothingToDo, HttpAt
<1>19. CASE ReportStatus
  BY <1>19, <1>a DEF ReportStatus, HttpAt
<1>20. CASE ReleaseToken
  BY <1>20, <1>a DEF ReleaseToken, Released, Rest
<1>21. CASE StartServer
  BY <1>21, <1>a DEF StartServer, AppAt
<1>22. CASE RequestStop
  BY <1>22, <1>a, NextIds DEF RequestStop
<1>23. CASE StoreTarget
  BY <1>23, <1>a DEF StoreTarget, AppAt
<1>24. CASE StoreQueued
  BY <1>24, <1>a DEF StoreQueued, AppAt
<1>25. CASE PublishRequest
  BY <1>25, <1>a DEF PublishRequest, AppAt
<1>26. CASE ClaimToken
  BY <1>26, <1>a DEF ClaimToken, MayClaim, AppAt, Returned
<1>27. CASE Enqueue
  BY <1>27, <1>a DEF Enqueue, Queue, AppAt, Returned
<1>28. CASE EnqueueFails
  BY <1>28, <1>a DEF EnqueueFails, Released, AppAt
<1>29. CASE StoreFailed
  BY <1>29, <1>a DEF StoreFailed, AppAt, Returned
<1>30. CASE PollStop
  BY <1>30, <1>a DEF PollStop, NeedsWork
<1>31. CASE ReloadStatus
  BY <1>31, <1>a DEF ReloadStatus, AppAt
<1>32. CASE Deadline
  BY <1>32, <1>a DEF Deadline, AppAt
<1>33. CASE StopServer
  BY <1>33, <1>a DEF StopServer, AppAt
<1>34. CASE HttpdStops
  BY <1>34, <1>a DEF HttpdStops, AppAt
<1>35. CASE HttpdStopFails
  BY <1>35, <1>a DEF HttpdStopFails, AppAt
<1>36. CASE AfterServerStopped
  BY <1>36, <1>a DEF AfterServerStopped
<1> QED
  BY <1>1, <1>2, <1>3, <1>4, <1>5, <1>6, <1>7, <1>8, <1>9, <1>10, <1>11, <1>12, <1>13, <1>14, 
     <1>15, <1>16, <1>17, <1>18, <1>19, <1>20, <1>21, <1>22, <1>23, <1>24, <1>25, <1>26, 
     <1>27, <1>28, <1>29, <1>30, <1>31, <1>32, <1>33, <1>34, <1>35, <1>36
     DEF Next, Client, Handler, Work, StopWork, Requesting, Queueing, Polling

(* Every step keeps what a handler under way relies on.                    *)
LEMMA HandlerStep ==
  ASSUME TypeOK, HandlerInv, OwnerInv, PhaseInv, Next
  PROVE  HandlerInv'
<1>a. /\ app \in AppSet /\ http \in HttpSet /\ gate \in GateSet /\ pipe \in PipeSet
      /\ reqCount \in Requests /\ ownCount \in Owners
  BY TypeByFields DEF Fields
<1> USE DEF HandlerInv, OwnerInv, PhaseInv, GateFollowsOwner, NoGate, Rest, AppSet, HttpSet,
       GateSet, PipeSet, AppSteps, HttpSteps, clientVars, atomVars
<1>1. CASE OrderlyEnd
  BY <1>1, <1>a DEF OrderlyEnd, HttpIdle
<1>2. CASE FailStream
  BY <1>2, <1>a DEF FailStream, Queue
<1>3. CASE Connect
  BY <1>3, <1>a DEF Connect, HttpIdle
<1>4. CASE Leave
  BY <1>4, <1>a DEF Leave, HttpIdle
<1>5. CASE RejectHandshake
  BY <1>5, <1>a DEF RejectHandshake, HttpIdle
<1>6. CASE Handshake
  BY <1>6, <1>a DEF Handshake, HttpIdle
<1>7. CASE ClientGone
  BY <1>7, <1>a DEF ClientGone, HttpIdle, HttpAt
<1>8. ASSUME NEW sent \in BOOLEAN,
       BadMessage(sent)
       PROVE  HandlerInv'
  BY <1>8, <1>a DEF BadMessage, HttpIdle, Violation, HttpAt
<1>9. ASSUME NEW sent \in BOOLEAN, NEW supported \in BOOLEAN, NEW type \in Messages,
       Message(type, supported, sent)
       PROVE  HandlerInv'
  BY <1>9, <1>a DEF Message, HttpIdle, Gated, Violation, HttpAt, MayStop, Stopping, Answer,
     Allowed, Messages
<1>10. CASE StartStream
  BY <1>10, <1>a DEF StartStream, MayStart, HttpAt
<1>11. CASE CloseOwner
  BY <1>11, <1>a DEF CloseOwner, PipeClosed, GateClosed, HttpAt
<1>12. CASE ClientClosed
  BY <1>12, <1>a DEF ClientClosed, HttpAt
<1>13. CASE CompleteStop
  BY <1>13, <1>a DEF CompleteStop, HttpAt
<1>14. CASE CloseWork
  BY <1>14, <1>a DEF CloseWork, HttpIdle, HttpAt
<1>15. CASE LocalStopWork
  BY <1>15, <1>a DEF LocalStopWork, HttpIdle
<1>16. CASE BeginLocalStop
  BY <1>16, <1>a DEF BeginLocalStop, Reporting, Freeze, TriggerClose, Queue, MayStop, Halted,
     OnTrigger
<1>17. CASE PollLocalStop
  BY ZenonT(30), <1>17, <1>a DEF PollLocalStop, Reporting, TriggerClose, Queue, OnTrigger
<1>18. CASE NothingToDo
  BY <1>18, <1>a DEF NothingToDo, HttpAt
<1>19. CASE ReportStatus
  BY <1>19, <1>a DEF ReportStatus, HttpAt
<1>20. CASE ReleaseToken
  BY <1>20, <1>a DEF ReleaseToken, Released, Rest
<1>21. CASE StartServer
  BY <1>21, <1>a DEF StartServer, AppAt
<1>22. CASE RequestStop
  BY <1>22, <1>a DEF RequestStop
<1>23. CASE StoreTarget
  BY <1>23, <1>a DEF StoreTarget, AppAt
<1>24. CASE StoreQueued
  BY <1>24, <1>a DEF StoreQueued, AppAt
<1>25. CASE PublishRequest
  BY <1>25, <1>a DEF PublishRequest, AppAt
<1>26. CASE ClaimToken
  BY <1>26, <1>a DEF ClaimToken, MayClaim, AppAt, Returned
<1>27. CASE Enqueue
  BY <1>27, <1>a DEF Enqueue, Queue, AppAt, Returned
<1>28. CASE EnqueueFails
  BY <1>28, <1>a DEF EnqueueFails, Released, AppAt
<1>29. CASE StoreFailed
  BY <1>29, <1>a DEF StoreFailed, AppAt, Returned
<1>30. CASE PollStop
  BY <1>30, <1>a DEF PollStop, NeedsWork
<1>31. CASE ReloadStatus
  BY <1>31, <1>a DEF ReloadStatus, AppAt
<1>32. CASE Deadline
  BY <1>32, <1>a DEF Deadline, AppAt
<1>33. CASE StopServer
  BY <1>33, <1>a DEF StopServer, AppAt
<1>34. CASE HttpdStops
  BY <1>34, <1>a DEF HttpdStops, AppAt
<1>35. CASE HttpdStopFails
  BY <1>35, <1>a DEF HttpdStopFails, AppAt
<1>36. CASE AfterServerStopped
  BY <1>36, <1>a DEF AfterServerStopped
<1> QED
  BY <1>1, <1>2, <1>3, <1>4, <1>5, <1>6, <1>7, <1>8, <1>9, <1>10, <1>11, <1>12, <1>13, <1>14, 
     <1>15, <1>16, <1>17, <1>18, <1>19, <1>20, <1>21, <1>22, <1>23, <1>24, <1>25, <1>26, 
     <1>27, <1>28, <1>29, <1>30, <1>31, <1>32, <1>33, <1>34, <1>35, <1>36
     DEF Next, Client, Handler, Work, StopWork, Requesting, Queueing, Polling

(* Owner, session, stream and gate change together.                        *)
LEMMA OwnerStep ==
  ASSUME TypeOK, HandlerInv, OwnerInv, PhaseInv, Next
  PROVE  OwnerInv'
<1>a. /\ app \in AppSet /\ http \in HttpSet /\ gate \in GateSet /\ pipe \in PipeSet
      /\ reqCount \in Requests /\ ownCount \in Owners
  BY TypeByFields DEF Fields
<1>0. HandlerInv /\ OwnerInv /\ PhaseInv
  OBVIOUS
<1>1. CASE Handshake
  <2>1. /\ http' = http /\ http.pc = "idle" /\ own = NoOwner /\ gate' = NoGate
        /\ ownCount' \in Owners /\ ownCount' # NoOwner
    BY <1>1, <1>a, NextIds, TypeByFields DEF Fields, Handshake, HttpIdle
  <2>2. CASE pipe.accepting /\ pipe.owner = NoOwner
    <3>1. own' = ownCount' /\ sess' = "Connected" /\ pipe'.owner = ownCount' /\ pipe'.stream = "none"
      BY <1>1, <1>a, <2>2 DEF Handshake, PipeSet
    <3> QED
      BY <2>1, <3>1 DEF OwnerInv, StopsForGood, GateFollowsOwner, NoGate
  <2>3. CASE ~(pipe.accepting /\ pipe.owner = NoOwner)
    <3>1. own' = own /\ sess' = sess /\ pipe' = pipe
      BY <1>1, <2>3 DEF Handshake
    <3> QED
      BY <1>0, <2>1, <3>1 DEF OwnerInv, StopsForGood, GateFollowsOwner, NoGate
  <2> QED
    BY <2>2, <2>3
<1> USE DEF HandlerInv, OwnerInv, PhaseInv, StopsForGood, GateFollowsOwner, NoGate, NoPipe,
       Rest, AppSet, HttpSet, GateSet, PipeSet, AppSteps, HttpSteps, clientVars, atomVars
<1>2. CASE OrderlyEnd
  BY <1>2, <1>a DEF OrderlyEnd, HttpIdle
<1>3. CASE FailStream
  BY <1>3, <1>a DEF FailStream, Queue
<1>4. CASE Connect
  BY <1>4, <1>a DEF Connect, HttpIdle
<1>5. CASE Leave
  BY <1>5, <1>a DEF Leave, HttpIdle
<1>6. CASE RejectHandshake
  BY <1>6, <1>a DEF RejectHandshake, HttpIdle
<1>7. CASE ClientGone
  BY <1>7, <1>a DEF ClientGone, HttpIdle, HttpAt
<1>8. ASSUME NEW sent \in BOOLEAN,
       BadMessage(sent)
       PROVE  OwnerInv'
  BY <1>8, <1>a DEF BadMessage, HttpIdle, Violation, HttpAt
<1>9. ASSUME NEW sent \in BOOLEAN, NEW supported \in BOOLEAN, NEW type \in Messages,
       Message(type, supported, sent)
       PROVE  OwnerInv'
  BY <1>9, <1>a DEF Message, HttpIdle, Gated, Violation, HttpAt, MayStop, Stopping, Answer,
     Allowed, Messages
<1>10. CASE StartStream
  BY <1>10, <1>a DEF StartStream, MayStart, HttpAt
<1>11. CASE CloseOwner
  BY <1>11, <1>a DEF CloseOwner, PipeClosed, GateClosed, HttpAt
<1>12. CASE ClientClosed
  BY <1>12, <1>a DEF ClientClosed, HttpAt
<1>13. CASE CompleteStop
  BY <1>13, <1>a DEF CompleteStop, HttpAt
<1>14. CASE CloseWork
  BY <1>14, <1>a DEF CloseWork, HttpIdle, HttpAt
<1>15. CASE LocalStopWork
  BY <1>15, <1>a DEF LocalStopWork, HttpIdle
<1>16. CASE BeginLocalStop
  BY <1>16, <1>a DEF BeginLocalStop, Reporting, Freeze, TriggerClose, Queue, MayStop, Halted,
     OnTrigger
<1>17. CASE PollLocalStop
  BY <1>17, <1>a DEF PollLocalStop, Reporting, TriggerClose, Queue, OnTrigger
<1>18. CASE NothingToDo
  BY <1>18, <1>a DEF NothingToDo, HttpAt
<1>19. CASE ReportStatus
  BY <1>19, <1>a DEF ReportStatus, HttpAt
<1>20. CASE ReleaseToken
  BY <1>20, <1>a DEF ReleaseToken, Released, Rest
<1>21. CASE StartServer
  BY <1>21, <1>a DEF StartServer, AppAt
<1>22. CASE RequestStop
  BY <1>22, <1>a DEF RequestStop
<1>23. CASE StoreTarget
  BY <1>23, <1>a DEF StoreTarget, AppAt
<1>24. CASE StoreQueued
  BY <1>24, <1>a DEF StoreQueued, AppAt
<1>25. CASE PublishRequest
  BY <1>25, <1>a DEF PublishRequest, AppAt
<1>26. CASE ClaimToken
  BY <1>26, <1>a DEF ClaimToken, MayClaim, AppAt, Returned
<1>27. CASE Enqueue
  BY <1>27, <1>a DEF Enqueue, Queue, AppAt, Returned
<1>28. CASE EnqueueFails
  BY <1>28, <1>a DEF EnqueueFails, Released, AppAt
<1>29. CASE StoreFailed
  BY <1>29, <1>a DEF StoreFailed, AppAt, Returned
<1>30. CASE PollStop
  BY <1>30, <1>a DEF PollStop, NeedsWork
<1>31. CASE ReloadStatus
  BY <1>31, <1>a DEF ReloadStatus, AppAt
<1>32. CASE Deadline
  BY <1>32, <1>a DEF Deadline, AppAt
<1>33. CASE StopServer
  BY <1>33, <1>a DEF StopServer, AppAt
<1>34. CASE HttpdStops
  BY <1>34, <1>a DEF HttpdStops, AppAt
<1>35. CASE HttpdStopFails
  BY <1>35, <1>a DEF HttpdStopFails, AppAt
<1>36. CASE AfterServerStopped
  BY <1>36, <1>a DEF AfterServerStopped
<1> QED
  BY <1>1, <1>2, <1>3, <1>4, <1>5, <1>6, <1>7, <1>8, <1>9, <1>10, <1>11, <1>12, <1>13, <1>14, 
     <1>15, <1>16, <1>17, <1>18, <1>19, <1>20, <1>21, <1>22, <1>23, <1>24, <1>25, <1>26, 
     <1>27, <1>28, <1>29, <1>30, <1>31, <1>32, <1>33, <1>34, <1>35, <1>36
     DEF Next, Client, Handler, Work, StopWork, Requesting, Queueing, Polling

(* Once a stop was asked for, only a socket admitted before can connect.   *)
LEMMA AskedStep ==
  ASSUME TypeOK, AskedInv, OwnerInv, PhaseInv, Next
  PROVE  AskedInv'
<1>a. /\ app \in AppSet /\ http \in HttpSet /\ gate \in GateSet /\ pipe \in PipeSet
      /\ reqCount \in Requests /\ ownCount \in Owners
      /\ asked \in Owners /\ pre \in 0 .. SocketMax
      /\ AskedInv /\ OwnerInv /\ PhaseInv
  BY TypeByFields DEF Fields
<1>b. ASSUME asked' = asked, ownCount' = ownCount, pre' \in 0 .. pre
      PROVE  Door => Door'
  <2>1. Since(ownCount)' = Since(ownCount)
    BY <1>b DEF Since
  <2>2. Since(ownCount) \in Int /\ SocketMax \in Nat /\ pre \in Nat /\ pre' \in Nat /\ pre' <= pre
    BY <1>a, <1>b, WidthAssumption, SocketAssumption DEF Since, Owners
  <2> QED
    BY <1>b, <2>1, <2>2 DEF Door
<1>d. ASSUME app'.pc = app.pc, asked' = asked, ownCount' = ownCount, pre' = pre - 1, pre > 0
      PROVE  AskedInv'
  <2>1. pre' \in 0 .. pre
    BY <1>a, <1>d, SocketAssumption
  <2> QED
    BY <1>a, <1>b, <1>d, <2>1 DEF AskedInv
<1>4. CASE Leave
  BY <1>4, <1>d DEF Leave, clientVars
<1>5. CASE RejectHandshake
  BY <1>5, <1>d DEF RejectHandshake, clientVars
<1>6. CASE Handshake
  <2>1. /\ app' = app /\ asked' = asked /\ pre > 0 /\ pre' = pre - 1
        /\ ownCount' = NextId(ownCount, OwnerMax)
    BY <1>6 DEF Handshake
  <2>2. asked # NoOwner => Door'
    BY <1>a, <2>1, NextIds, Newcomer DEF AskedInv, Door, Since
  <2> QED
    BY <1>a, <2>1, <2>2 DEF AskedInv
<1>22. CASE RequestStop
  <2>1. /\ app.pc = "up" /\ app'.pc = "target" /\ asked' = own /\ ownCount' = ownCount /\ pre' = pre
    BY <1>22 DEF RequestStop, clientVars
  <2>2. own # NoOwner => Door'
    BY <1>a, <2>1, WidthAssumption, SocketAssumption DEF OwnerInv, Door, Since, Owners, NoOwner
  <2> QED
    BY <2>1, <2>2 DEF AskedInv
<1>34. CASE HttpdStops
  <2>1. app.pc = "join" /\ app'.pc = "after" /\ asked' = asked /\ ownCount' = ownCount /\ pre' \in 0 .. pre
    BY <1>34, <1>a, SocketAssumption DEF HttpdStops, AppAt, clientVars, AppSet
  <2> QED
    BY <1>a, <1>b, <2>1 DEF AskedInv
<1>k. ASSUME asked' = asked, ownCount' = ownCount, pre' = pre
      PROVE  Door' <=> Door
  BY <1>k DEF Door, Since
<1> USE DEF AskedInv, OwnerInv, PhaseInv, Asking, Published, AppSet, HttpSet, GateSet,
       PipeSet, AppSteps, HttpSteps, clientVars, atomVars
<1>1. CASE OrderlyEnd
  BY <1>1, <1>a, <1>k DEF OrderlyEnd, HttpIdle
<1>2. CASE FailStream
  BY <1>2, <1>a, <1>k DEF FailStream, Queue
<1>3. CASE Connect
  BY <1>3, <1>a, <1>k DEF Connect, HttpIdle
<1>7. CASE ClientGone
  BY <1>7, <1>a, <1>k DEF ClientGone, HttpIdle, HttpAt
<1>8. ASSUME NEW sent \in BOOLEAN,
       BadMessage(sent)
       PROVE  AskedInv'
  BY <1>8, <1>a, <1>k DEF BadMessage, HttpIdle, Violation, HttpAt
<1>9. ASSUME NEW sent \in BOOLEAN, NEW supported \in BOOLEAN, NEW type \in Messages,
       Message(type, supported, sent)
       PROVE  AskedInv'
  BY <1>9, <1>a, <1>k DEF Message, HttpIdle, Gated, Violation, HttpAt, MayStop, Stopping, Answer,
     Allowed, Messages
<1>10. CASE StartStream
  BY <1>10, <1>a, <1>k DEF StartStream, MayStart, HttpAt
<1>11. CASE CloseOwner
  BY <1>11, <1>a, <1>k DEF CloseOwner, PipeClosed, GateClosed, HttpAt
<1>12. CASE ClientClosed
  BY <1>12, <1>a, <1>k DEF ClientClosed, HttpAt
<1>13. CASE CompleteStop
  BY <1>13, <1>a, <1>k DEF CompleteStop, HttpAt
<1>14. CASE CloseWork
  BY <1>14, <1>a, <1>k DEF CloseWork, HttpIdle, HttpAt
<1>15. CASE LocalStopWork
  BY <1>15, <1>a, <1>k DEF LocalStopWork, HttpIdle
<1>16. CASE BeginLocalStop
  BY <1>16, <1>a, <1>k DEF BeginLocalStop, Reporting, Freeze, TriggerClose, Queue, MayStop, Halted,
     OnTrigger
<1>17. CASE PollLocalStop
  BY <1>17, <1>a, <1>k DEF PollLocalStop, Reporting, TriggerClose, Queue, OnTrigger
<1>18. CASE NothingToDo
  BY <1>18, <1>a, <1>k DEF NothingToDo, HttpAt
<1>19. CASE ReportStatus
  BY <1>19, <1>a, <1>k DEF ReportStatus, HttpAt
<1>20. CASE ReleaseToken
  BY <1>20, <1>a, <1>k DEF ReleaseToken, Released, Rest
<1>21. CASE StartServer
  BY <1>21, <1>a, <1>k DEF StartServer, AppAt
<1>23. CASE StoreTarget
  BY <1>23, <1>a, <1>k DEF StoreTarget, AppAt
<1>24. CASE StoreQueued
  BY <1>24, <1>a, <1>k DEF StoreQueued, AppAt
<1>25. CASE PublishRequest
  BY <1>25, <1>a, <1>k DEF PublishRequest, AppAt
<1>26. CASE ClaimToken
  BY <1>26, <1>a, <1>k DEF ClaimToken, MayClaim, AppAt, Returned
<1>27. CASE Enqueue
  BY <1>27, <1>a, <1>k DEF Enqueue, Queue, AppAt, Returned
<1>28. CASE EnqueueFails
  BY <1>28, <1>a, <1>k DEF EnqueueFails, Released, AppAt
<1>29. CASE StoreFailed
  BY <1>29, <1>a, <1>k DEF StoreFailed, AppAt, Returned
<1>30. CASE PollStop
  BY <1>30, <1>a, <1>k DEF PollStop, NeedsWork
<1>31. CASE ReloadStatus
  BY <1>31, <1>a, <1>k DEF ReloadStatus, AppAt
<1>32. CASE Deadline
  BY <1>32, <1>a, <1>k DEF Deadline, AppAt
<1>33. CASE StopServer
  BY <1>33, <1>a, <1>k DEF StopServer, AppAt
<1>35. CASE HttpdStopFails
  BY <1>35, <1>a, <1>k DEF HttpdStopFails, AppAt
<1>36. CASE AfterServerStopped
  BY <1>36, <1>a, <1>k DEF AfterServerStopped
<1> QED
  BY <1>1, <1>2, <1>3, <1>4, <1>5, <1>6, <1>7, <1>8, <1>9, <1>10, <1>11, <1>12, <1>13, <1>14, 
     <1>15, <1>16, <1>17, <1>18, <1>19, <1>20, <1>21, <1>22, <1>23, <1>24, <1>25, <1>26, 
     <1>27, <1>28, <1>29, <1>30, <1>31, <1>32, <1>33, <1>34, <1>35, <1>36
     DEF Next, Client, Handler, Work, StopWork, Requesting, Queueing, Polling

(* A step that leaves the stop items, the token and the request alone.     *)
LEMMA OneWorkKept ==
  ASSUME OneWorkPerRequest, app' = app, token' = token, reqId' = reqId,
         StopItems' = StopItems, \A i \in StopItems : work'[i] = work[i],
         AtWork' <=> AtWork, AtWork => http'.request = http.request
  PROVE  OneWorkPerRequest'
BY DEF OneWorkPerRequest, BeingQueued

(* Every step keeps the one work item and its token together.              *)
LEMMA OneWorkStep ==
  ASSUME TypeOK, PhaseInv, OneWorkPerRequest, Next
  PROVE  OneWorkPerRequest'
<1>a. /\ app \in AppSet /\ http \in HttpSet /\ work \in Seq(Items) /\ pipe \in PipeSet
      /\ own \in Owners /\ reqId \in Requests
  BY TypeByFields DEF Fields
<1>0. PhaseInv /\ OneWorkPerRequest
  OBVIOUS
<1>b. work' = work => StopItems' = StopItems
  BY DEF StopItems
<1>q. ASSUME NEW owner \in Owners, Queue(CloseItem(owner)) \/ work' = work
      PROVE  StopItems' = StopItems /\ \A i \in StopItems : work'[i] = work[i]
  <2>1. CASE work' = work
    BY <1>b, <2>1
  <2>2. CASE Queue(CloseItem(owner))
    <3>1. CloseItem(owner) \in Items /\ CloseItem(owner).kind = "close"
      BY DEF CloseItem, Items
    <3> QED
      BY <1>a, <2>2, <3>1, AppendItem
  <2> QED
    BY <1>q, <2>1, <2>2
<1>t. TriggerClose => /\ StopItems' = StopItems /\ \A i \in StopItems : work'[i] = work[i]
                      /\ http'.pc = "report" /\ http'.request = http.request
  BY <1>a, <1>q DEF TriggerClose, Reporting, HttpSet
<1>1. CASE FailStream
  <2>1. StopItems' = StopItems /\ \A i \in StopItems : work'[i] = work[i]
    BY <1>1, <1>a, <1>q DEF FailStream, PipeSet
  <2>2. app' = app /\ token' = token /\ reqId' = reqId /\ http' = http
    BY <1>1 DEF FailStream, atomVars
  <2> QED
    BY <1>0, <2>1, <2>2, OneWorkKept DEF AtWork
<1>2. CASE BeginLocalStop
  <2>1. /\ StopItems' = StopItems /\ \A i \in StopItems : work'[i] = work[i]
        /\ http'.pc = "report" /\ http'.request = http.request
    BY <1>2, <1>a, <1>b, <1>t DEF BeginLocalStop, Reporting, HttpSet
  <2>2. app' = app /\ token' = token /\ reqId' = reqId /\ http.pc = "apply"
    BY <1>2 DEF BeginLocalStop, atomVars
  <2> QED
    BY <1>0, <2>1, <2>2, OneWorkKept DEF AtWork
<1>3. CASE PollLocalStop
  <2>1. /\ StopItems' = StopItems /\ \A i \in StopItems : work'[i] = work[i]
        /\ http'.pc = "report" /\ http'.request = http.request
    BY <1>3, <1>a, <1>b, <1>t DEF PollLocalStop, Reporting, HttpSet
  <2>2. app' = app /\ token' = token /\ reqId' = reqId /\ http.pc = "apply"
    BY <1>3 DEF PollLocalStop, atomVars
  <2> QED
    BY <1>0, <2>1, <2>2, OneWorkKept DEF AtWork
<1>4. CASE CloseWork
  <2>1. /\ app' = app /\ token' = token /\ reqId' = reqId /\ ~AtWork /\ ~AtWork'
        /\ work # <<>> /\ work' = Tail(work) /\ Head(work).kind = "close"
    BY <1>4, <1>a DEF CloseWork, HttpIdle, HttpAt, atomVars, AtWork, HttpSet
  <2>2. /\ StopItems = {} => StopItems' = {}
        /\ \A i \in StopItems : StopItems = {i} => StopItems' = {i - 1} /\ work'[i - 1] = work[i]
    BY <1>a, <2>1, TakeItem
  <2>3. CASE app.pc # "after" /\ token = 0
    BY <1>0, <2>1, <2>2, <2>3 DEF OneWorkPerRequest, BeingQueued
  <2>4. CASE app.pc # "after" /\ token # 0 /\ StopItems = {}
    BY <1>0, <2>1, <2>2, <2>4 DEF OneWorkPerRequest, BeingQueued
  <2>5. CASE app.pc # "after" /\ token # 0 /\ StopItems # {}
    <3>1. PICK i \in StopItems : StopItems = {i} /\ work[i].arg = token /\ ~BeingQueued
      BY <1>0, <2>5 DEF OneWorkPerRequest
    <3>2. StopItems' = {i - 1} /\ work'[i - 1] = work[i]
      BY <2>2, <3>1
    <3> QED
      BY <2>1, <2>5, <3>1, <3>2 DEF OneWorkPerRequest, BeingQueued
  <2>6. CASE app.pc = "after"
    BY <2>1, <2>6 DEF OneWorkPerRequest
  <2> QED
    BY <2>3, <2>4, <2>5, <2>6
<1>5. CASE LocalStopWork
  <2>1. /\ app' = app /\ token' = token /\ app.pc # "after" /\ ~AtWork
        /\ work # <<>> /\ work' = Tail(work) /\ Head(work).kind = "stop"
        /\ http'.pc \in {"apply", "free"} /\ http'.request = Head(work).arg
    BY <1>5, <1>a DEF LocalStopWork, HttpIdle, atomVars, AtWork, HttpSet
  <2>2. 1 \in StopItems /\ Head(work) = work[1]
    BY <1>a, <2>1, TakeItem
  <2>3. PICK i \in StopItems : StopItems = {i} /\ work[i].arg = token /\ ~BeingQueued /\ token # 0
    BY <1>0, <2>1, <2>2 DEF OneWorkPerRequest
  <2>4. i = 1 /\ StopItems' = {}
    BY <1>a, <2>1, <2>2, <2>3, TakeItem
  <2> QED
    BY <2>1, <2>2, <2>3, <2>4 DEF OneWorkPerRequest, AtWork, BeingQueued
<1>6. CASE Enqueue
  <2>1. /\ http' = http /\ token' = token /\ reqId' = reqId /\ BeingQueued /\ app.pc # "after"
        /\ app'.pc # "enqueue"
    BY <1>6, <1>a DEF Enqueue, AppAt, Returned, atomVars, BeingQueued, AppSet
  <2>2. StopItems = {} /\ ~AtWork /\ reqId = token /\ token # 0
    BY <1>0, <2>1 DEF OneWorkPerRequest
  <2>3. StopItem(reqId) \in Items /\ StopItem(reqId).kind = "stop" /\ StopItem(reqId).arg = reqId
    BY <1>a DEF StopItem, Items
  <2>4. PICK i \in StopItems' : StopItems' = {i} /\ work'[i] = StopItem(reqId)
    BY <1>6, <1>a, <2>2, <2>3, AppendItem DEF Enqueue
  <2>5. ~BeingQueued' /\ ~AtWork'
    BY <2>1, <2>2 DEF BeingQueued, AtWork
  <2> QED
    BY <2>1, <2>2, <2>3, <2>4, <2>5 DEF OneWorkPerRequest
<1>7. CASE HttpdStops
  BY <1>7, <1>a DEF HttpdStops, AppAt, AppSet, OneWorkPerRequest
<1>8. CASE AfterServerStopped
  <2>1. StopItems = {} /\ http.pc = "idle"
    BY <1>8, <1>0 DEF AfterServerStopped, PhaseInv, StopItems
  <2> QED
    BY <1>8, <1>b, <2>1 DEF AfterServerStopped, OneWorkPerRequest, AtWork, BeingQueued
<1> USE DEF PhaseInv, OneWorkPerRequest, BeingQueued, AtWork, Asking, Published, AppSet,
       HttpSet, AppSteps, HttpSteps, Rest, clientVars, atomVars
<1>9. CASE OrderlyEnd
  BY <1>9, <1>a, <1>b DEF OrderlyEnd, HttpIdle
<1>10. CASE Connect
  BY <1>10, <1>a, <1>b DEF Connect, HttpIdle
<1>11. CASE Leave
  BY <1>11, <1>a, <1>b DEF Leave, HttpIdle
<1>12. CASE RejectHandshake
  BY <1>12, <1>a, <1>b DEF RejectHandshake, HttpIdle
<1>13. CASE Handshake
  BY <1>13, <1>a, <1>b DEF Handshake, HttpIdle
<1>14. CASE ClientGone
  BY <1>14, <1>a, <1>b DEF ClientGone, HttpIdle, HttpAt
<1>15. ASSUME NEW sent \in BOOLEAN,
       BadMessage(sent)
       PROVE  OneWorkPerRequest'
  BY <1>15, <1>a, <1>b DEF BadMessage, HttpIdle, Violation, HttpAt
<1>16. ASSUME NEW sent \in BOOLEAN, NEW supported \in BOOLEAN, NEW type \in Messages,
       Message(type, supported, sent)
       PROVE  OneWorkPerRequest'
  BY <1>16, <1>a, <1>b DEF Message, HttpIdle, Gated, Violation, HttpAt, MayStop, Stopping,
     Answer, Allowed, Messages
<1>17. CASE StartStream
  BY <1>17, <1>a, <1>b DEF StartStream, MayStart, HttpAt
<1>18. CASE CloseOwner
  BY <1>18, <1>a, <1>b DEF CloseOwner, PipeClosed, GateClosed, HttpAt
<1>19. CASE ClientClosed
  BY <1>19, <1>a, <1>b DEF ClientClosed, HttpAt
<1>20. CASE CompleteStop
  BY <1>20, <1>a, <1>b DEF CompleteStop, HttpAt
<1>21. CASE NothingToDo
  BY <1>21, <1>a, <1>b DEF NothingToDo, HttpAt
<1>22. CASE ReportStatus
  BY <1>22, <1>a, <1>b DEF ReportStatus, HttpAt
<1>23. CASE ReleaseToken
  BY <1>23, <1>a, <1>b DEF ReleaseToken, Released, Rest
<1>24. CASE StartServer
  BY <1>24, <1>a, <1>b DEF StartServer, AppAt
<1>25. CASE RequestStop
  BY <1>25, <1>a, <1>b DEF RequestStop
<1>26. CASE StoreTarget
  BY <1>26, <1>a, <1>b DEF StoreTarget, AppAt
<1>27. CASE StoreQueued
  BY <1>27, <1>a, <1>b DEF StoreQueued, AppAt
<1>28. CASE PublishRequest
  BY <1>28, <1>a, <1>b DEF PublishRequest, AppAt
<1>29. CASE ClaimToken
  BY <1>29, <1>a, <1>b DEF ClaimToken, MayClaim, AppAt, Returned
<1>30. CASE EnqueueFails
  BY <1>30, <1>a, <1>b DEF EnqueueFails, Released, AppAt
<1>31. CASE StoreFailed
  BY <1>31, <1>a, <1>b DEF StoreFailed, AppAt, Returned
<1>32. CASE PollStop
  BY <1>32, <1>a, <1>b DEF PollStop, NeedsWork
<1>33. CASE ReloadStatus
  BY <1>33, <1>a, <1>b DEF ReloadStatus, AppAt
<1>34. CASE Deadline
  BY <1>34, <1>a, <1>b DEF Deadline, AppAt
<1>35. CASE StopServer
  BY <1>35, <1>a, <1>b DEF StopServer, AppAt
<1>36. CASE HttpdStopFails
  BY <1>36, <1>a, <1>b DEF HttpdStopFails, AppAt
<1> QED
  BY <1>1, <1>2, <1>3, <1>4, <1>5, <1>6, <1>7, <1>8, <1>9, <1>10, <1>11, <1>12, <1>13, <1>14, 
     <1>15, <1>16, <1>17, <1>18, <1>19, <1>20, <1>21, <1>22, <1>23, <1>24, <1>25, <1>26, 
     <1>27, <1>28, <1>29, <1>30, <1>31, <1>32, <1>33, <1>34, <1>35, <1>36
     DEF Next, Client, Handler, Work, StopWork, Requesting, Queueing, Polling

(* The client that was connected when a stop was asked for does not come   *)
(* back, whoever connects.                                                 *)
LEMMA GoneStays ==
  ASSUME TypeOK, PhaseInv, OwnerInv, AskedInv, Next, app.pc # "up"
  PROVE  Gone => Gone'
<1>a. /\ app \in AppSet /\ ownCount \in Owners /\ own \in {NoOwner, ownCount}
      /\ asked \in Owners /\ pre \in 0 .. SocketMax /\ (asked # NoOwner => Door)
  BY TypeByFields DEF Fields, OwnerInv, AskedInv
<1>1. CASE OrderlyEnd
  BY <1>1, NextIds DEF OrderlyEnd, Gone, clientVars
<1>2. CASE FailStream
  BY <1>2, NextIds DEF FailStream, Gone, clientVars
<1>3. CASE Connect
  BY <1>3, NextIds DEF Connect, Gone, clientVars
<1>4. CASE Leave
  BY <1>4, NextIds DEF Leave, Gone, clientVars
<1>5. CASE RejectHandshake
  BY <1>5, NextIds DEF RejectHandshake, Gone, clientVars
<1>6. CASE Handshake
  <2>1. asked' = asked /\ own = NoOwner /\ pre > 0 /\ (own' = own \/ own' = NextId(ownCount, OwnerMax))
    BY <1>6 DEF Handshake
  <2>2. asked # NoOwner => own' # asked
    BY <1>a, <2>1, NextIds, Newcomer
  <2> QED
    BY <2>1, <2>2 DEF Gone
<1>7. CASE ClientGone
  BY <1>7, NextIds DEF ClientGone, Gone, clientVars
<1>8. ASSUME NEW sent \in BOOLEAN,
       BadMessage(sent)
       PROVE  Gone => Gone'
  BY <1>8, NextIds DEF BadMessage, Gone, clientVars
<1>9. ASSUME NEW sent \in BOOLEAN, NEW supported \in BOOLEAN, NEW type \in Messages,
       Message(type, supported, sent)
       PROVE  Gone => Gone'
  BY <1>9, NextIds DEF Message, Gone, clientVars
<1>10. CASE StartStream
  BY <1>10, NextIds DEF StartStream, Gone, clientVars
<1>11. CASE CloseOwner
  BY <1>11, NextIds DEF CloseOwner, Gone, clientVars
<1>12. CASE ClientClosed
  BY <1>12, NextIds DEF ClientClosed, Gone, clientVars
<1>13. CASE CompleteStop
  BY <1>13, NextIds DEF CompleteStop, Gone, clientVars
<1>14. CASE CloseWork
  BY <1>14, NextIds DEF CloseWork, Gone, clientVars
<1>15. CASE LocalStopWork
  BY <1>15, NextIds DEF LocalStopWork, Gone, clientVars
<1>16. CASE BeginLocalStop
  BY <1>16, NextIds DEF BeginLocalStop, Gone, clientVars
<1>17. CASE PollLocalStop
  BY <1>17, NextIds DEF PollLocalStop, Gone, clientVars
<1>18. CASE NothingToDo
  BY <1>18, NextIds DEF NothingToDo, Gone, clientVars
<1>19. CASE ReportStatus
  BY <1>19, NextIds DEF ReportStatus, Gone, clientVars
<1>20. CASE ReleaseToken
  BY <1>20, NextIds DEF ReleaseToken, Gone, clientVars
<1>21. CASE StartServer
  BY <1>21, NextIds DEF StartServer, Gone, clientVars
<1>22. CASE RequestStop
  BY <1>22, NextIds DEF RequestStop, Gone, clientVars
<1>23. CASE StoreTarget
  BY <1>23, NextIds DEF StoreTarget, Gone, clientVars
<1>24. CASE StoreQueued
  BY <1>24, NextIds DEF StoreQueued, Gone, clientVars
<1>25. CASE PublishRequest
  BY <1>25, NextIds DEF PublishRequest, Gone, clientVars
<1>26. CASE ClaimToken
  BY <1>26, NextIds DEF ClaimToken, Gone, clientVars
<1>27. CASE Enqueue
  BY <1>27, NextIds DEF Enqueue, Gone, clientVars
<1>28. CASE EnqueueFails
  BY <1>28, NextIds DEF EnqueueFails, Gone, clientVars
<1>29. CASE StoreFailed
  BY <1>29, NextIds DEF StoreFailed, Gone, clientVars
<1>30. CASE PollStop
  BY <1>30, NextIds DEF PollStop, Gone, clientVars
<1>31. CASE ReloadStatus
  BY <1>31, NextIds DEF ReloadStatus, Gone, clientVars
<1>32. CASE Deadline
  BY <1>32, NextIds DEF Deadline, Gone, clientVars
<1>33. CASE StopServer
  BY <1>33, NextIds DEF StopServer, Gone, clientVars
<1>34. CASE HttpdStops
  BY <1>34, NextIds DEF HttpdStops, Gone, clientVars
<1>35. CASE HttpdStopFails
  BY <1>35, NextIds DEF HttpdStopFails, Gone, clientVars
<1>36. CASE AfterServerStopped
  BY <1>36, NextIds DEF AfterServerStopped, Gone, clientVars
<1> QED
  BY <1>1, <1>2, <1>3, <1>4, <1>5, <1>6, <1>7, <1>8, <1>9, <1>10, <1>11, <1>12, <1>13, <1>14, 
     <1>15, <1>16, <1>17, <1>18, <1>19, <1>20, <1>21, <1>22, <1>23, <1>24, <1>25, <1>26, 
     <1>27, <1>28, <1>29, <1>30, <1>31, <1>32, <1>33, <1>34, <1>35, <1>36
     DEF Next, Client, Handler, Work, StopWork, Requesting, Queueing, Polling

(* Every step keeps the status true.                                       *)
LEMMA StatusStep ==
  ASSUME TypeOK, PhaseInv, HandlerInv, OwnerInv, AskedInv, StatusInv, OneWorkPerRequest, Next
  PROVE  StatusInv'
<1>a. /\ app \in AppSet /\ http \in HttpSet /\ work \in Seq(Items) /\ gate \in GateSet
      /\ stat \in Statuses /\ reqId \in Requests
  BY TypeByFields DEF Fields
<1>0. PhaseInv /\ HandlerInv /\ OwnerInv /\ AskedInv /\ StatusInv /\ OneWorkPerRequest
  OBVIOUS
<1>g. app.pc # "up" => (Gone => Gone')
  BY GoneStays
<1>1. CASE LocalStopWork
  <2>1. /\ app' = app /\ stat' = stat /\ reqId' = reqId /\ own' = own /\ asked' = asked /\ gate' = gate
        /\ app.pc \notin {"off", "after"} /\ ~AtWork
        /\ work # <<>> /\ work' = Tail(work) /\ Head(work).kind = "stop"
        /\ http'.request = Head(work).arg /\ http'.status = stat
        /\ http'.pc = IF Head(work).arg = reqId THEN "apply" ELSE "free"
    BY <1>1, <1>a DEF LocalStopWork, HttpIdle, clientVars, atomVars, AtWork, HttpSet
  <2>2. Head(work).arg # 0 /\ token # 0
    <3>1. 1 \in StopItems /\ Head(work) = work[1]
      BY <1>a, <2>1, TakeItem
    <3> QED
      BY <1>0, <2>1, <3>1 DEF OneWorkPerRequest
  <2>3. app.pc \in Published
    BY <1>0, <1>a, <2>1, <2>2 DEF PhaseInv, Asking, Published, AppSet, AppSteps
  <2> QED
    BY <1>0, <2>1, <2>2, <2>3 DEF StatusInv, AtWork, Held, Gone
<1>2. CASE StoreFailed
  <2>1. ~AtWork /\ ~AtWork'
    BY <1>2, <1>0 DEF StoreFailed, PhaseInv, OneWorkPerRequest, AtWork
  <2>2. stat' = "Failed" /\ app'.pc \in Published
    BY <1>2, <1>a DEF StoreFailed, AppAt, Returned, AppSet, Published
  <2> QED
    BY <2>1, <2>2 DEF StatusInv, AtWork, Told, Published
<1>3. CASE BeginLocalStop
  <2>1. /\ app' = app /\ stat' = stat /\ reqId' = reqId /\ own' = own /\ asked' = asked
        /\ http.pc = "apply" /\ http.status = "Queued" /\ http'.pc = "report" /\ http'.request = http.request
        /\ http'.status \in {"NoOwner", "OwnerClosing", "Failed", "ActiveStreamStopping"}
        /\ http'.status = "NoOwner" => own = NoOwner
        /\ http'.status = "ActiveStreamStopping" => own # NoOwner /\ Freeze
        /\ own # NoOwner => Freeze
        /\ own = NoOwner => gate' = NoGate
    BY <1>3, <1>a DEF BeginLocalStop, TriggerClose, Reporting, OnTrigger, atomVars, HttpSet
  <2>2. own # NoOwner => Held(reqId)'
    BY <1>0, <2>1 DEF Held, Freeze, StatusInv
  <2>3. own = NoOwner => Gone /\ Gone'
    BY <2>1 DEF Gone
  <2>4. stat = "Queued" /\ http.request = reqId /\ http.request # 0 /\ app.pc \in Published
    BY <1>0, <2>1 DEF StatusInv, AtWork
  <2> QED
    BY <2>1, <2>2, <2>3, <2>4 DEF StatusInv, AtWork, Told, Final, Published
<1>4. CASE PollLocalStop
  <2>1. /\ app' = app /\ stat' = stat /\ reqId' = reqId /\ own' = own /\ asked' = asked
        /\ http.pc = "apply" /\ http.status = "ActiveStreamStopping"
        /\ http'.pc = "report" /\ http'.request = http.request
    BY <1>4, <1>a DEF PollLocalStop, TriggerClose, Reporting, OnTrigger, atomVars, HttpSet
  <2>2. /\ stat = "ActiveStreamStopping" /\ http.request = reqId /\ http.request # 0
        /\ app.pc \in Published /\ (Held(reqId) \/ Gone) /\ (Gone => Gone')
    BY <1>0, <2>1 DEF StatusInv, AtWork, Gone
  <2>3. CASE Held(reqId)
    <3>1. gate.on /\ gate.request = http.request /\ gate.owner = own /\ own # NoOwner
      BY <1>0, <2>2, <2>3 DEF Held, OwnerInv, GateFollowsOwner
    <3>2. gate' = gate /\ http'.status \in {"ActiveStreamStopping", "OwnerClosing", "Failed"}
      BY <1>4, <1>a, <3>1 DEF PollLocalStop, TriggerClose, Reporting, OnTrigger, HttpSet
    <3>3. Held(reqId)'
      BY <2>1, <2>3, <3>2 DEF Held
    <3> QED
      BY <2>1, <2>2, <3>2, <3>3 DEF StatusInv, AtWork, Told, Final, Published
  <2>4. CASE ~Held(reqId)
    BY <2>1, <2>2, <2>4 DEF StatusInv, AtWork, Told, Final, Published
  <2> QED
    BY <2>3, <2>4
<1> USE DEF PhaseInv, HandlerInv, OwnerInv, GateFollowsOwner, StatusInv, AtWork, Asking,
       Published, Told, Final, Held, Gone, NoGate, Rest, AppSet, HttpSet, AppSteps, HttpSteps,
       clientVars, atomVars
<1>5. CASE OrderlyEnd
  BY <1>5, <1>a DEF OrderlyEnd, HttpIdle
<1>6. CASE FailStream
  BY <1>6, <1>a DEF FailStream, Queue
<1>7. CASE Connect
  BY <1>7, <1>a DEF Connect, HttpIdle
<1>8. CASE Leave
  BY <1>8, <1>a DEF Leave, HttpIdle
<1>9. CASE RejectHandshake
  BY <1>9, <1>a DEF RejectHandshake, HttpIdle
<1>10. CASE Handshake
  BY <1>10, <1>a, <1>g DEF Handshake, HttpIdle
<1>11. CASE ClientGone
  BY <1>11, <1>a DEF ClientGone, HttpIdle, HttpAt
<1>12. ASSUME NEW sent \in BOOLEAN,
       BadMessage(sent)
       PROVE  StatusInv'
  BY <1>12, <1>a DEF BadMessage, HttpIdle, Violation, HttpAt
<1>13. ASSUME NEW sent \in BOOLEAN, NEW supported \in BOOLEAN, NEW type \in Messages,
       Message(type, supported, sent)
       PROVE  StatusInv'
  BY <1>13, <1>a DEF Message, HttpIdle, Gated, Violation, HttpAt, MayStop, Stopping, Answer,
     Allowed, Messages
<1>14. CASE StartStream
  BY <1>14, <1>a DEF StartStream, MayStart, HttpAt
<1>15. CASE CloseOwner
  BY <1>15, <1>a DEF CloseOwner, PipeClosed, GateClosed, HttpAt
<1>16. CASE ClientClosed
  BY <1>16, <1>a DEF ClientClosed, HttpAt
<1>17. CASE CompleteStop
  BY <1>17, <1>a DEF CompleteStop, HttpAt
<1>18. CASE CloseWork
  BY <1>18, <1>a DEF CloseWork, HttpIdle, HttpAt
<1>19. CASE NothingToDo
  BY <1>19, <1>a DEF NothingToDo, HttpAt
<1>20. CASE ReportStatus
  BY <1>20, <1>a DEF ReportStatus, HttpAt
<1>21. CASE ReleaseToken
  BY <1>21, <1>a DEF ReleaseToken, Released, Rest
<1>22. CASE StartServer
  BY <1>22, <1>a DEF StartServer, AppAt
<1>23. CASE RequestStop
  BY <1>23, <1>a DEF RequestStop
<1>24. CASE StoreTarget
  BY <1>24, <1>a DEF StoreTarget, AppAt
<1>25. CASE StoreQueued
  BY <1>25, <1>a DEF StoreQueued, AppAt
<1>26. CASE PublishRequest
  BY <1>26, <1>a DEF PublishRequest, AppAt
<1>27. CASE ClaimToken
  BY <1>27, <1>a DEF ClaimToken, MayClaim, AppAt, Returned
<1>28. CASE Enqueue
  BY <1>28, <1>a DEF Enqueue, Queue, AppAt, Returned
<1>29. CASE EnqueueFails
  BY <1>29, <1>a DEF EnqueueFails, Released, AppAt
<1>30. CASE PollStop
  BY <1>30, <1>a DEF PollStop, NeedsWork
<1>31. CASE ReloadStatus
  BY <1>31, <1>a DEF ReloadStatus, AppAt
<1>32. CASE Deadline
  BY <1>32, <1>a DEF Deadline, AppAt
<1>33. CASE StopServer
  BY <1>33, <1>a DEF StopServer, AppAt
<1>34. CASE HttpdStops
  BY <1>34, <1>a DEF HttpdStops, AppAt
<1>35. CASE HttpdStopFails
  BY <1>35, <1>a DEF HttpdStopFails, AppAt
<1>36. CASE AfterServerStopped
  BY <1>36, <1>a DEF AfterServerStopped
<1> QED
  BY <1>1, <1>2, <1>3, <1>4, <1>5, <1>6, <1>7, <1>8, <1>9, <1>10, <1>11, <1>12, <1>13, <1>14, 
     <1>15, <1>16, <1>17, <1>18, <1>19, <1>20, <1>21, <1>22, <1>23, <1>24, <1>25, <1>26, 
     <1>27, <1>28, <1>29, <1>30, <1>31, <1>32, <1>33, <1>34, <1>35, <1>36
     DEF Next, Client, Handler, Work, StopWork, Requesting, Queueing, Polling

(* The invariant holds before the first server start.                      *)
LEMMA TransportInvInit == Init => TransportInv
<1> SUFFICES ASSUME Init PROVE TransportInv
  OBVIOUS
<1>1. TypeOK
  <2>1. app \in AppSet /\ http \in HttpSet
    BY NextIds DEF Init, Rest, AppSet, HttpSet, AppSteps, HttpSteps, Statuses
  <2>2. gate \in GateSet /\ pipe \in PipeSet
    BY NextIds DEF Init, NoGate, NoPipe, GateSet, PipeSet
  <2>3. work \in Seq(Items) /\ viol \in 0 .. 3 /\ sess \in Sessions /\ stat \in Statuses
    BY DEF Init, Sessions, Statuses
  <2>4. admit \in BOOLEAN /\ pre \in 0 .. SocketMax /\ target \in BOOLEAN
    <3>1. admit \in BOOLEAN /\ target \in BOOLEAN /\ pre = 0
      BY DEF Init
    <3> QED
      BY <3>1, SocketAssumption
  <2>5. /\ own \in Owners /\ ownCount \in Owners /\ asked \in Owners
        /\ reqId \in Requests /\ reqCount \in Requests /\ token \in Requests
    BY NextIds DEF Init
  <2> QED
    BY <2>1, <2>2, <2>3, <2>4, <2>5, TypeByFields DEF Fields
<1>2. PhaseInv /\ HandlerInv /\ OwnerInv /\ AskedInv
  BY DEF Init, PhaseInv, HandlerInv, OwnerInv, AskedInv, GateFollowsOwner, StopsForGood,
         Asking, Published, Rest, NoGate, NoPipe
<1>3. StatusInv
  BY DEF Init, StatusInv, AtWork, Published, Rest
<1>4. OneWorkPerRequest
  <2>1. StopItems = {}
    BY DEF Init, StopItems
  <2> QED
    BY <2>1 DEF Init, OneWorkPerRequest, AtWork, BeingQueued, Rest
<1> QED
  BY <1>1, <1>2, <1>3, <1>4 DEF TransportInv

(* And every step keeps it.                                                *)
LEMMA TransportInvStep == TransportInv /\ [Next]_vars => TransportInv'
<1> SUFFICES ASSUME TransportInv, [Next]_vars PROVE TransportInv'
  OBVIOUS
<1>1. CASE Next
  <2>1. TypeOK'
    BY <1>1, TypeStep DEF TransportInv, Fields, TypeOK, AppSet, HttpSet, GateSet, PipeSet,
       Items, Sessions
  <2> QED
    BY <1>1, <2>1, PhaseStep, HandlerStep, OwnerStep, AskedStep, StatusStep, OneWorkStep
       DEF TransportInv
<1>2. CASE UNCHANGED vars
  <2> USE <1>2 DEF TransportInv, vars, clientVars, atomVars
  <2>1. TypeOK'
    BY DEF TypeOK
  <2>2. PhaseInv' /\ HandlerInv' /\ OwnerInv' /\ AskedInv'
    BY DEF PhaseInv, HandlerInv, OwnerInv, AskedInv, Door, Since, GateFollowsOwner, StopsForGood
  <2>3. StatusInv'
    BY DEF StatusInv, AtWork, Held, Gone
  <2>4. OneWorkPerRequest'
    BY DEF OneWorkPerRequest, StopItems, AtWork, BeingQueued
  <2> QED
    BY <2>1, <2>2, <2>3, <2>4
<1> QED
  BY <1>1, <1>2

(* The inductive invariant: what an owner, its session, its stream and the *)
(* gate imply of one another, where the one work item of a stop is, and    *)
(* what the status says of the client the stop was for (the transport and  *)
(* both sides of its local stop).                                          *)
THEOREM TransportInvariant == Spec => []TransportInv
BY TransportInvInit, TransportInvStep, PTL DEF Spec
-----------------------------------------------------------------------------
(* Results *)

(* Every variable of the transport keeps its type, whatever the width of   *)
(* its counters: they skip 0 when they wrap.                               *)
THEOREM TransportTyped == Spec => []TypeOK
BY TransportInvariant, PTL DEF TransportInv

(* However often a stop is asked for, polled or refused by the queue, one  *)
(* work item at most is under way for it, and the token says so            *)
(* (QueueLocalStopWork, ReleaseLocalStopWorkToken).                        *)
THEOREM OneWorkItem == Spec => []OneWorkPerRequest
BY TransportInvariant, PTL DEF TransportInv

(* An owner a stop has taken hold of starts no stream again (the gate of   *)
(* processCompleteMessage).                                                *)
THEOREM StoppedForGood == Spec => []StopsForGood
<1>1. TransportInv => StopsForGood
  BY DEF TransportInv, OwnerInv
<1> QED
  BY <1>1, TransportInvariant, PTL

(* The gate, the session and the pipeline speak of one owner.              *)
THEOREM OneOwner == Spec => []OwnersAgree
<1>1. TransportInv => OwnersAgree
  BY DEF TransportInv, OwnerInv, OwnersAgree, SessionAgrees
<1> QED
  BY <1>1, TransportInvariant, PTL

(* When the application reads that nobody is left, the client that was     *)
(* connected when it asked is gone, and has not come back under another    *)
(* generation's number (PollLocalStop).                                    *)
THEOREM ReportsAreReal == Spec => []ReportedStopsAreReal
<1>1. TransportInv => ReportedStopsAreReal
  BY DEF TransportInv, StatusInv, ReportedStopsAreReal, Published, Told, Gone
<1> QED
  BY <1>1, TransportInvariant, PTL

(* No step takes back a verdict the application can already read.          *)
LEMMA VerdictKept ==
  ASSUME TransportInv, Next,
         app.pc \in {"claim", "enqueue", "failing", "poll", "reload"}, stat \in Final
  PROVE  stat' \in Final
<1>1. http.pc = "report" => http.status \in Final
  BY DEF TransportInv, StatusInv
<1>2. CASE OrderlyEnd
  BY <1>1, <1>2 DEF OrderlyEnd, atomVars, Final
<1>3. CASE FailStream
  BY <1>1, <1>3 DEF FailStream, atomVars, Final
<1>4. CASE Connect
  BY <1>1, <1>4 DEF Connect, atomVars, Final
<1>5. CASE Leave
  BY <1>1, <1>5 DEF Leave, atomVars, Final
<1>6. CASE RejectHandshake
  BY <1>1, <1>6 DEF RejectHandshake, atomVars, Final
<1>7. CASE Handshake
  BY <1>1, <1>7 DEF Handshake, atomVars, Final
<1>8. CASE ClientGone
  BY <1>1, <1>8 DEF ClientGone, atomVars, Final
<1>9. ASSUME NEW sent \in BOOLEAN,
       BadMessage(sent)
       PROVE  stat' \in Final
  BY <1>1, <1>9 DEF BadMessage, atomVars, Final
<1>10. ASSUME NEW sent \in BOOLEAN, NEW supported \in BOOLEAN, NEW type \in Messages,
       Message(type, supported, sent)
       PROVE  stat' \in Final
  BY <1>1, <1>10 DEF Message, atomVars, Final
<1>11. CASE StartStream
  BY <1>1, <1>11 DEF StartStream, atomVars, Final
<1>12. CASE CloseOwner
  BY <1>1, <1>12 DEF CloseOwner, atomVars, Final
<1>13. CASE ClientClosed
  BY <1>1, <1>13 DEF ClientClosed, atomVars, Final
<1>14. CASE CompleteStop
  BY <1>1, <1>14 DEF CompleteStop, atomVars, Final
<1>15. CASE CloseWork
  BY <1>1, <1>15 DEF CloseWork, atomVars, Final
<1>16. CASE LocalStopWork
  BY <1>1, <1>16 DEF LocalStopWork, atomVars, Final
<1>17. CASE BeginLocalStop
  BY <1>1, <1>17 DEF BeginLocalStop, atomVars, Final
<1>18. CASE PollLocalStop
  BY <1>1, <1>18 DEF PollLocalStop, atomVars, Final
<1>19. CASE NothingToDo
  BY <1>1, <1>19 DEF NothingToDo, atomVars, Final
<1>20. CASE ReportStatus
  BY <1>1, <1>20 DEF ReportStatus, atomVars, Final
<1>21. CASE ReleaseToken
  BY <1>1, <1>21 DEF ReleaseToken, atomVars, Final
<1>22. CASE StartServer
  BY <1>1, <1>22 DEF StartServer, atomVars, Final
<1>23. CASE RequestStop
  BY <1>1, <1>23 DEF RequestStop, atomVars, Final
<1>24. CASE StoreTarget
  BY <1>1, <1>24 DEF StoreTarget, atomVars, Final
<1>25. CASE StoreQueued
  BY <1>1, <1>25 DEF StoreQueued, atomVars, Final
<1>26. CASE PublishRequest
  BY <1>1, <1>26 DEF PublishRequest, atomVars, Final
<1>27. CASE ClaimToken
  BY <1>1, <1>27 DEF ClaimToken, atomVars, Final
<1>28. CASE Enqueue
  BY <1>1, <1>28 DEF Enqueue, atomVars, Final
<1>29. CASE EnqueueFails
  BY <1>1, <1>29 DEF EnqueueFails, atomVars, Final
<1>30. CASE StoreFailed
  BY <1>1, <1>30 DEF StoreFailed, atomVars, Final
<1>31. CASE PollStop
  BY <1>1, <1>31 DEF PollStop, atomVars, Final
<1>32. CASE ReloadStatus
  BY <1>1, <1>32 DEF ReloadStatus, atomVars, Final
<1>33. CASE Deadline
  BY <1>1, <1>33 DEF Deadline, atomVars, Final
<1>34. CASE StopServer
  BY <1>1, <1>34 DEF StopServer, atomVars, Final
<1>35. CASE HttpdStops
  BY <1>1, <1>35 DEF HttpdStops, atomVars, Final
<1>36. CASE HttpdStopFails
  BY <1>1, <1>36 DEF HttpdStopFails, atomVars, Final
<1>37. CASE AfterServerStopped
  BY <1>1, <1>37 DEF AfterServerStopped, atomVars, Final
<1> QED
  BY <1>2, <1>3, <1>4, <1>5, <1>6, <1>7, <1>8, <1>9, <1>10, <1>11, <1>12, <1>13, <1>14, 
     <1>15, <1>16, <1>17, <1>18, <1>19, <1>20, <1>21, <1>22, <1>23, <1>24, <1>25, <1>26, 
     <1>27, <1>28, <1>29, <1>30, <1>31, <1>32, <1>33, <1>34, <1>35, <1>36, <1>37
     DEF Next, Client, Handler, Work, StopWork, Requesting, Queueing, Polling

(* The verdict of a stop is not taken back while it can be read            *)
(* (LocalStopWork loads the status, works, and stores it).                 *)
THEOREM VerdictIsKept == Spec => VerdictStays
<1>1. TransportInv /\ [Next]_vars =>
        [app.pc \in {"claim", "enqueue", "failing", "poll", "reload"} /\ stat \in Final
           => stat' \in Final]_vars
  BY VerdictKept
<1>2. Spec => [][app.pc \in {"claim", "enqueue", "failing", "poll", "reload"} /\ stat \in Final
           => stat' \in Final]_vars
  BY <1>1, TransportInvariant, PTL DEF Spec
<1> QED
  BY <1>2 DEF VerdictStays
-----------------------------------------------------------------------------
(* The transport is a local stop as the application may see it.            *)

Readable == {"publish", "claim", "enqueue", "failing", "poll", "reload"}

LEMMA StopInit == Init => Stop!Init
BY DEF Init, Stop!Init, StopPhase, Verdict, Waiting, HeldClient, NoGate, NoPipe, NoOwner

(* What the application sees while it waits, and afterwards.               *)
LEMMA SeenWhileWaiting ==
  /\ app.pc \in Readable =>
       /\ StopPhase = "waiting"
       /\ Verdict = IF stat \in Told THEN "gone" ELSE IF stat = "Failed" THEN "failed" ELSE "pending"
  /\ app.pc \in {"target", "status"} => StopPhase = "waiting" /\ Verdict = "pending"
  /\ app.pc = "off" => StopPhase = "off" /\ Verdict = "none"
  /\ app.pc = "up" => StopPhase = "serving" /\ Verdict = "none"
  /\ app.pc = "stop" => StopPhase = "decided" /\ Verdict = "none"
  /\ app.pc = "join" => StopPhase = "stopping" /\ Verdict = "none"
  /\ app.pc = "after" => StopPhase = "stopped" /\ Verdict = "none"
<1>1. CASE app.pc \in Readable
  BY <1>1 DEF Readable, Told, StopPhase, Verdict, Waiting
<1>2. CASE app.pc \in {"target", "status"}
  BY <1>2 DEF Readable, StopPhase, Verdict, Waiting
<1>3. CASE app.pc \in {"off", "up", "stop", "join", "after"}
  BY <1>3 DEF Readable, StopPhase, Verdict, Waiting
<1> QED
  BY <1>1, <1>2, <1>3

LEMMA SeenWhileWaitingNext ==
  /\ app'.pc \in Readable =>
       /\ StopPhase' = "waiting"
       /\ Verdict' = IF stat' \in Told THEN "gone" ELSE IF stat' = "Failed" THEN "failed" ELSE "pending"
  /\ app'.pc \in {"target", "status"} => StopPhase' = "waiting" /\ Verdict' = "pending"
  /\ app'.pc = "off" => StopPhase' = "off" /\ Verdict' = "none"
  /\ app'.pc = "up" => StopPhase' = "serving" /\ Verdict' = "none"
  /\ app'.pc = "stop" => StopPhase' = "decided" /\ Verdict' = "none"
  /\ app'.pc = "join" => StopPhase' = "stopping" /\ Verdict' = "none"
  /\ app'.pc = "after" => StopPhase' = "stopped" /\ Verdict' = "none"
<1>1. CASE app'.pc \in Readable
  BY <1>1 DEF Readable, Told, StopPhase, Verdict, Waiting
<1>2. CASE app'.pc \in {"target", "status"}
  BY <1>2 DEF Readable, StopPhase, Verdict, Waiting
<1>3. CASE app'.pc \in {"off", "up", "stop", "join", "after"}
  BY <1>3 DEF Readable, StopPhase, Verdict, Waiting
<1> QED
  BY <1>1, <1>2, <1>3

(* Clients and their streams. *)
LEMMA ClientStep ==
  ASSUME TransportInv, OrderlyEnd \/ FailStream \/ Client \/ StartStream \/ CloseOwner
  PROVE  [Stop!Next]_(Stop!vars)
<1>a. /\ pipe \in PipeSet /\ gate \in GateSet /\ own \in Owners /\ ownCount \in Owners
      /\ app \in AppSet
  BY TypeByFields DEF TransportInv, Fields
<1>b. /\ gate.on => own # NoOwner /\ gate.owner = own
      /\ pipe.owner \in {NoOwner, own}
      /\ pipe.owner = NoOwner => pipe.stream = "none"
  BY DEF TransportInv, OwnerInv, GateFollowsOwner
<1>c. app' = app /\ stat' = stat /\ asked' = asked
  BY DEF OrderlyEnd, FailStream, Client, StartStream, CloseOwner, Connect, Leave, RejectHandshake,
     Handshake, ClientGone, BadMessage, Message, atomVars
<1>d. StopPhase' = StopPhase /\ Verdict' = Verdict /\ UNCHANGED Stop!server
  BY <1>c DEF StopPhase, Verdict, Waiting, Stop!server
<1>e. pipe.accepting => Stop!Open
  <2>1. pipe.accepting => app.pc \in {"up", "target", "status", "stop"} \cup Readable
    BY <1>a DEF TransportInv, PhaseInv, NoPipe, AppSet, AppSteps, Readable
  <2> QED
    BY <2>1, SeenWhileWaiting DEF Stop!Open
<1>1. CASE OrderlyEnd \/ FailStream
  <2>1. /\ pipe.stream # "none" /\ pipe'.stream = "none"
        /\ UNCHANGED <<pre, own, gate>>
    BY <1>1, <1>a DEF OrderlyEnd, FailStream, PipeSet, clientVars
  <2> QED
    BY <1>d, <2>1 DEF Stop!EndStream, Stop!Next, HeldClient
<1>2. CASE Connect
  <2>1. app.pc = "up"
    BY <1>2 DEF Connect, HttpIdle, TransportInv, PhaseInv
  <2>2. pre' = pre + 1 /\ UNCHANGED <<own, gate, pipe>>
    BY <1>2 DEF Connect, clientVars
  <2> QED
    BY <1>d, <2>1, <2>2, SeenWhileWaiting DEF Stop!Arrive, Stop!Next, HeldClient
<1>3. CASE Leave \/ RejectHandshake
  <2>1. pre > 0 /\ pre' = pre - 1 /\ UNCHANGED <<own, gate, pipe>>
    BY <1>3 DEF Leave, RejectHandshake, clientVars
  <2> QED
    BY <1>d, <2>1 DEF Stop!TurnAway, Stop!Next, HeldClient
<1>4. CASE Handshake
  <2>1. /\ pre > 0 /\ pre' = pre - 1 /\ own = NoOwner /\ gate' = NoGate
        /\ ownCount' = NextId(ownCount, OwnerMax)
    BY <1>4 DEF Handshake
  <2>2. HeldClient = NoOwner /\ HeldClient' = NoOwner
    BY <1>b, <2>1 DEF HeldClient, NoGate
  <2>3. CASE pipe.accepting /\ pipe.owner = NoOwner
    <3>1. own' = ownCount' /\ pipe' = [pipe EXCEPT !.owner = ownCount', !.stream = "none"]
      BY <1>4, <2>3 DEF Handshake
    <3>2. pipe.stream = "none" /\ pipe'.stream = "none"
      BY <1>a, <1>b, <2>3, <3>1 DEF PipeSet
    <3>3. own' \in 1 .. OwnerMax
      BY <1>a, <2>1, <3>1, NextIds, WidthAssumption DEF Owners
    <3>4. own' # asked
      <4>1. /\ asked = NoOwner \/ Door
            /\ asked \in Owners /\ pre \in 0 .. SocketMax
        BY TypeByFields DEF TransportInv, AskedInv, Fields
      <4> QED
        BY <1>a, <2>1, <3>1, <4>1, NextIds, Newcomer
    <3>5. Stop!Connect(own')
      BY <1>d, <1>e, <2>1, <2>2, <2>3, <3>2, <3>4 DEF Stop!Connect
    <3> QED
      BY <3>3, <3>5 DEF Stop!Next
  <2>4. CASE ~(pipe.accepting /\ pipe.owner = NoOwner)
    <3>1. own' = own /\ pipe' = pipe
      BY <1>4, <2>4 DEF Handshake
    <3> QED
      BY <1>d, <2>1, <2>2, <3>1 DEF Stop!TurnAway, Stop!Next
  <2> QED
    BY <2>3, <2>4
<1>5. CASE ClientGone \/ \E sent \in BOOLEAN : BadMessage(sent)
  <2>1. UNCHANGED <<pre, own, gate, pipe>>
    BY <1>5 DEF ClientGone, BadMessage, Violation, clientVars
  <2> QED
    BY <1>d, <2>1 DEF Stop!vars, Stop!server, HeldClient
<1>6. ASSUME NEW type, NEW supported, NEW sent, Message(type, supported, sent)
      PROVE  [Stop!Next]_(Stop!vars)
  <2>1. UNCHANGED <<pre, own, gate>>
    BY <1>6 DEF Message
  <2>2. pipe' = pipe \/ (MayStop /\ pipe' = [pipe EXCEPT !.stream = "stopping"])
    BY <1>6 DEF Message, Violation
  <2>3. CASE pipe' = pipe
    BY <1>d, <2>1, <2>3 DEF Stop!vars, Stop!server, HeldClient
  <2>4. CASE MayStop /\ pipe' = [pipe EXCEPT !.stream = "stopping"]
    <3>1. pipe.stream = "live" /\ pipe'.stream = "stopping"
      BY <1>a, <2>4 DEF MayStop, PipeSet
    <3> QED
      BY <1>d, <2>1, <3>1 DEF Stop!EndStream, Stop!Next, HeldClient
  <2> QED
    BY <2>2, <2>3, <2>4
<1>7. CASE StartStream
  <2>1. UNCHANGED <<pre, own, gate>>
    BY <1>7 DEF StartStream
  <2>2. CASE MayStart
    <3>1. pipe.accepting /\ pipe.stream = "none" /\ pipe'.stream = "live"
      BY <1>7, <1>a, <2>2 DEF StartStream, MayStart, PipeSet
    <3>2. own # NoOwner /\ HeldClient = NoOwner
      BY <1>7 DEF StartStream, TransportInv, HandlerInv, HeldClient
    <3> QED
      BY <1>d, <1>e, <2>1, <3>1, <3>2 DEF Stop!StartStream, Stop!Next, HeldClient
  <2>3. CASE ~MayStart
    <3>1. pipe' = pipe
      BY <1>7, <2>3 DEF StartStream
    <3> QED
      BY <1>d, <2>1, <3>1 DEF Stop!vars, Stop!server, HeldClient
  <2> QED
    BY <2>2, <2>3
<1>8. CASE CloseOwner
  <2>1. /\ own # NoOwner /\ own' = NoOwner /\ pre' = pre
        /\ gate' = GateClosed /\ pipe' = PipeClosed(own)
    BY <1>8 DEF CloseOwner, TransportInv, HandlerInv
  <2>2. HeldClient' = NoOwner
    BY <1>b, <2>1 DEF HeldClient, GateClosed, NoGate
  <2>3. pipe'.stream = "none"
    BY <1>a, <1>b, <2>1 DEF PipeClosed, PipeSet
  <2> QED
    BY <1>d, <2>1, <2>2, <2>3 DEF Stop!Disconnect, Stop!Next
<1> QED
  BY <1>1, <1>2, <1>3, <1>4, <1>5, <1>6, <1>7, <1>8 DEF Client

(* What HTTPD does for the stop. *)
LEMMA StopWorkStep ==
  ASSUME TransportInv, ClientClosed \/ CompleteStop \/ Work \/ StopWork
  PROVE  [Stop!Next]_(Stop!vars)
<1>a. pipe \in PipeSet /\ gate \in GateSet /\ app \in AppSet
  BY TypeByFields DEF TransportInv, Fields
<1>b. /\ gate.on => own # NoOwner /\ gate.owner = own
      /\ pipe.owner \in {NoOwner, own}
      /\ pipe.owner = NoOwner => pipe.stream = "none"
      /\ pipe.owner # NoOwner => (pipe.stream = "live" <=> sess = "Streaming")
  BY DEF TransportInv, OwnerInv, GateFollowsOwner
<1>c. app' = app /\ asked' = asked /\ own' = own /\ pre' = pre
  BY DEF ClientClosed, CompleteStop, Work, CloseWork, LocalStopWork, StopWork, BeginLocalStop,
     PollLocalStop, NothingToDo, ReportStatus, ReleaseToken, clientVars
<1>d. stat' = stat => UNCHANGED Stop!server
  BY <1>c DEF StopPhase, Verdict, Waiting, Stop!server
<1>e. /\ app.pc \in AppSteps
      /\ app.pc \in {"target", "status", "off", "up", "stop", "join", "after"} \cup Readable
  BY <1>a DEF AppSet, AppSteps, Readable
<1>f. ASSUME gate' = gate, pipe' = pipe, stat' = stat
      PROVE  [Stop!Next]_(Stop!vars)
  BY <1>c, <1>d, <1>f DEF Stop!vars, HeldClient
<1>1. CASE ClientClosed \/ Work \/ NothingToDo \/ ReleaseToken
  BY <1>1, <1>f DEF ClientClosed, Work, CloseWork, LocalStopWork, NothingToDo, ReleaseToken,
     clientVars, atomVars
<1>2. ASSUME gate' = gate, pipe' = pipe, app.pc \notin Readable
      PROVE  [Stop!Next]_(Stop!vars)
  <2>1. UNCHANGED Stop!server
    BY <1>2, <1>c, <1>e, SeenWhileWaiting, SeenWhileWaitingNext DEF Stop!server
  <2> QED
    BY <1>2, <1>c, <2>1 DEF Stop!vars, HeldClient
<1>3. ASSUME gate' = gate, pipe' = pipe, app.pc \in Readable, stat' \in Told, Gone
      PROVE  [Stop!Next]_(Stop!vars)
  <2>1. StopPhase = "waiting" /\ StopPhase' = "waiting" /\ Verdict' = "gone"
    BY <1>3, <1>c, SeenWhileWaiting, SeenWhileWaitingNext
  <2> QED
    BY <1>3, <1>c, <2>1 DEF Stop!Report, Stop!Next, HeldClient, Gone
<1>4. ASSUME gate' = gate, pipe' = pipe, app.pc \in Readable, stat' = "Failed"
      PROVE  [Stop!Next]_(Stop!vars)
  <2>1. StopPhase = "waiting" /\ StopPhase' = "waiting" /\ Verdict' = "failed"
    BY <1>4, <1>c, SeenWhileWaiting, SeenWhileWaitingNext DEF Told
  <2> QED
    BY <1>4, <1>c, <2>1 DEF Stop!Report, Stop!Next, HeldClient
<1>5. CASE CompleteStop
  <2>1. gate' = gate /\ pipe' = pipe /\ stat' \in Told
    BY <1>5 DEF CompleteStop, clientVars, Told
  <2>2. Gone
    BY <1>5 DEF CompleteStop, TransportInv, HandlerInv, Gone
  <2> QED
    BY <2>1, <2>2, <1>2, <1>3
<1>6. CASE ReportStatus
  <2>1. /\ gate' = gate /\ pipe' = pipe /\ http.pc = "report" /\ http.request = reqId
        /\ stat' = http.status
    BY <1>6 DEF ReportStatus, clientVars, TransportInv, StatusInv
  <2>2. /\ stat \in Final => stat' \in Final
        /\ stat' \in Told => Gone
    BY <2>1 DEF TransportInv, StatusInv
  <2>3. CASE app.pc \in Readable /\ stat' \notin Final
    <3>1. stat \notin Told /\ stat # "Failed" /\ stat' \notin Told /\ stat' # "Failed"
      BY <2>2, <2>3 DEF Final, Told
    <3>2. UNCHANGED Stop!server
      BY <1>c, <2>3, <3>1, SeenWhileWaiting, SeenWhileWaitingNext DEF Stop!server
    <3> QED
      BY <1>c, <2>1, <3>2 DEF Stop!vars, HeldClient
  <2> QED
    BY <1>2, <1>3, <1>4, <2>1, <2>2, <2>3 DEF Final, Told
<1>7. CASE PollLocalStop
  <2>1. pipe' = pipe /\ stat' = stat
    BY <1>7 DEF PollLocalStop, atomVars
  <2>2. gate' = gate
    BY <1>7, <1>b DEF PollLocalStop
  <2> QED
    BY <1>f, <2>1, <2>2
<1>8. CASE BeginLocalStop
  <2>1. stat' = stat
    BY <1>8 DEF BeginLocalStop, atomVars
  <2>2. app.pc \in Published
    BY <1>8 DEF BeginLocalStop, TransportInv, StatusInv, AtWork
  <2>3. StopPhase \in {"waiting", "decided", "stopping"}
    BY <2>2, SeenWhileWaiting DEF Published, Readable
  <2>4. CASE own = NoOwner
    <3>1. pipe' = pipe /\ gate' = NoGate
      BY <1>8, <2>4 DEF BeginLocalStop
    <3>2. HeldClient' = HeldClient
      BY <1>b, <2>4, <3>1 DEF HeldClient, NoGate
    <3> QED
      BY <1>c, <1>d, <2>1, <3>1, <3>2 DEF Stop!vars
  <2>5. CASE own # NoOwner
    <3>1. Freeze
      BY <1>8, <2>5 DEF BeginLocalStop
    <3>2. HeldClient' = own
      BY <3>1 DEF Freeze, HeldClient
    <3>3. pipe'.stream = IF pipe.stream = "live" THEN "stopping" ELSE pipe.stream
      <4>1. CASE sess # "Streaming"
        <5>1. pipe' = pipe
          BY <1>8, <2>5, <4>1 DEF BeginLocalStop
        <5> QED
          BY <1>b, <4>1, <5>1
      <4>2. CASE sess = "Streaming" /\ MayStop
        <5>1. pipe' = [pipe EXCEPT !.stream = "stopping"] /\ pipe.stream = "live"
          BY <1>8, <2>5, <4>2 DEF BeginLocalStop, MayStop
        <5> QED
          BY <1>a, <5>1 DEF PipeSet
      <4>3. CASE sess = "Streaming" /\ ~MayStop
        <5>1. pipe' = pipe
          BY <1>8, <2>5, <4>3 DEF BeginLocalStop
        <5>2. pipe.stream # "live"
          BY <1>b, <4>3 DEF MayStop, TransportInv, PhaseInv, NoPipe
        <5> QED
          BY <5>1, <5>2
      <4> QED
        BY <4>1, <4>2, <4>3
    <3> QED
      BY <1>c, <1>d, <2>1, <2>3, <2>5, <3>2, <3>3 DEF Stop!Hold, Stop!Next
  <2> QED
    BY <2>4, <2>5
<1> QED
  BY <1>1, <1>5, <1>6, <1>7, <1>8 DEF StopWork

(* The application. *)
LEMMA AppStep ==
  ASSUME TransportInv,
         \/ StartServer \/ RequestStop \/ Requesting \/ Queueing \/ Polling \/ Deadline
         \/ StopServer \/ HttpdStops \/ HttpdStopFails \/ AfterServerStopped
  PROVE  [Stop!Next]_(Stop!vars)
<1>a. app \in AppSet
  BY TypeByFields DEF TransportInv, Fields
<1>b. \A pc : AppAt(pc) => app'.pc = pc
  BY <1>a DEF AppAt, AppSet
<1>1. CASE StartServer
  <2>1. /\ app.pc = "off" /\ app'.pc = "up" /\ gate' = NoGate
        /\ pipe' = [NoPipe EXCEPT !.accepting = TRUE]
        /\ pre' = pre /\ own' = own /\ asked' = asked
    BY <1>1, <1>b DEF StartServer
  <2>2. HeldClient' = HeldClient /\ pipe'.stream = pipe.stream
    BY <2>1 DEF TransportInv, PhaseInv, HeldClient, NoGate, NoPipe
  <2> QED
    BY <2>1, <2>2, SeenWhileWaiting, SeenWhileWaitingNext DEF Stop!Serve, Stop!Next
<1>2. CASE RequestStop
  <2>1. /\ app.pc = "up" /\ app'.pc = "target" /\ asked' = own
        /\ UNCHANGED <<pre, own, gate, pipe>>
    BY <1>2, <1>a DEF RequestStop, AppSet, clientVars
  <2> QED
    BY <2>1, SeenWhileWaiting, SeenWhileWaitingNext DEF Stop!Ask, Stop!Next, HeldClient
<1>3. ASSUME UNCHANGED <<pre, own, gate, pipe, asked, StopPhase, Verdict>>
      PROVE  [Stop!Next]_(Stop!vars)
  BY <1>3 DEF Stop!vars, Stop!server, HeldClient
<1>4. ASSUME UNCHANGED <<pre, own, gate, pipe, asked>>, app.pc \in Readable, app'.pc = "stop"
      PROVE  [Stop!Next]_(Stop!vars)
  BY <1>4, SeenWhileWaiting, SeenWhileWaitingNext DEF Stop!Decide, Stop!Next, HeldClient
<1>5. ASSUME UNCHANGED <<pre, own, gate, pipe, asked, stat>>, app.pc \in Readable, app'.pc \in Readable
      PROVE  [Stop!Next]_(Stop!vars)
  BY <1>3, <1>5, SeenWhileWaiting, SeenWhileWaitingNext
<1>6. CASE Requesting
  <2>1. UNCHANGED <<pre, own, gate, pipe, asked>>
    BY <1>6 DEF Requesting, StoreTarget, StoreQueued, PublishRequest, clientVars
  <2>2. CASE StoreTarget
    <3>1. app.pc = "target" /\ app'.pc = "status"
      BY <2>2, <1>b DEF StoreTarget
    <3> QED
      BY <1>3, <2>1, <3>1, SeenWhileWaiting, SeenWhileWaitingNext
  <2>3. CASE StoreQueued
    <3>1. app.pc = "status" /\ app'.pc \in Readable /\ stat' = "Queued"
      BY <2>3, <1>b DEF StoreQueued, Readable
    <3> QED
      BY <1>3, <2>1, <3>1, SeenWhileWaiting, SeenWhileWaitingNext DEF Told
  <2>4. CASE PublishRequest
    <3>1. app.pc \in Readable /\ app'.pc \in Readable /\ stat' = stat
      BY <2>4, <1>b DEF PublishRequest, Readable
    <3> QED
      BY <1>5, <2>1, <3>1
  <2> QED
    BY <1>6, <2>2, <2>3, <2>4 DEF Requesting
<1>7. CASE Queueing \/ Polling \/ Deadline
  <2>1. UNCHANGED <<pre, own, gate, pipe, asked>> /\ app.pc \in Readable
    BY <1>7 DEF Queueing, ClaimToken, Enqueue, EnqueueFails, StoreFailed, Polling, PollStop,
       ReloadStatus, Deadline, clientVars, Readable
  <2>2. \A queued : Returned(queued) \in {"reload", "poll", "stop"}
    BY DEF Returned
  <2>3. app'.pc = "stop" \/ app'.pc \in Readable
    <3>1. CASE Queueing
      BY <3>1, <1>b, <2>2 DEF Queueing, ClaimToken, Enqueue, EnqueueFails, StoreFailed, Readable
    <3>2. CASE PollStop
      BY <3>2, <1>a DEF PollStop, Readable, AppSet
    <3>3. CASE ReloadStatus \/ Deadline
      BY <3>3, <1>b DEF ReloadStatus, Deadline, Readable
    <3> QED
      BY <1>7, <3>1, <3>2, <3>3 DEF Polling
  <2>4. CASE StoreFailed /\ app'.pc \in Readable
    <3>1. stat' = "Failed"
      BY <2>4 DEF StoreFailed
    <3>2. StopPhase = "waiting" /\ StopPhase' = "waiting" /\ Verdict' = "failed"
      BY <2>1, <2>4, <3>1, SeenWhileWaiting, SeenWhileWaitingNext DEF Told
    <3> QED
      BY <2>1, <3>2 DEF Stop!Report, Stop!Next, HeldClient
  <2>5. CASE ~StoreFailed /\ app'.pc \in Readable
    <3>1. stat' = stat
      BY <1>7, <2>5 DEF Queueing, ClaimToken, Enqueue, EnqueueFails, Polling, PollStop, ReloadStatus,
         Deadline, atomVars
    <3> QED
      BY <1>5, <2>1, <2>5, <3>1
  <2> QED
    BY <1>4, <2>1, <2>3, <2>4, <2>5
<1>8. CASE StopServer
  <2>1. /\ app.pc = "stop" /\ app'.pc = "join" /\ pipe'.stream = "none"
        /\ UNCHANGED <<pre, own, gate, asked>>
    BY <1>8, <1>b DEF StopServer, NoPipe, clientVars
  <2> QED
    BY <2>1, SeenWhileWaiting, SeenWhileWaitingNext DEF Stop!StopServer, Stop!Next, HeldClient
<1>9. CASE HttpdStops
  <2>1. /\ app.pc = "join" /\ app'.pc = "after" /\ pre' = 0
        /\ UNCHANGED <<own, gate, pipe, asked>>
    BY <1>9, <1>b DEF HttpdStops, clientVars
  <2> QED
    BY <2>1, SeenWhileWaiting, SeenWhileWaitingNext DEF Stop!Stopped, Stop!Next, HeldClient
<1>10. CASE HttpdStopFails
  <2>1. /\ app.pc = "join" /\ app'.pc = "stop"
        /\ UNCHANGED <<pre, own, gate, pipe, asked>>
    BY <1>10, <1>b DEF HttpdStopFails, clientVars
  <2> QED
    BY <2>1, SeenWhileWaiting, SeenWhileWaitingNext DEF Stop!Retry, Stop!Next, HeldClient
<1>11. CASE AfterServerStopped
  <2>1. /\ app.pc = "after" /\ app'.pc = "off" /\ own' = NoOwner /\ asked' = NoOwner
        /\ gate' = NoGate /\ UNCHANGED <<pre, pipe>>
    BY <1>11 DEF AfterServerStopped
  <2>2. HeldClient' = NoOwner
    BY <2>1 DEF HeldClient, NoGate
  <2> QED
    BY <2>1, <2>2, SeenWhileWaiting, SeenWhileWaitingNext DEF Stop!Forget, Stop!Next
<1> QED
  BY <1>1, <1>2, <1>6, <1>7, <1>8, <1>9, <1>10, <1>11

LEMMA StopStep == TransportInv /\ [Next]_vars => [Stop!Next]_(Stop!vars)
<1> SUFFICES ASSUME TransportInv, [Next]_vars PROVE [Stop!Next]_(Stop!vars)
  OBVIOUS
<1>1. CASE UNCHANGED vars
  BY <1>1 DEF vars, clientVars, atomVars, Stop!vars, Stop!server, StopPhase, Verdict, Waiting, HeldClient
<1>2. CASE Next
  BY <1>2, ClientStep, StopWorkStep, AppStep DEF Next, Handler
<1> QED
  BY <1>1, <1>2

(* For counters and queues of any width: what the application sees of the  *)
(* transport, through atomics that it reads one at a time, is a local stop *)
(* (RequestLocalStop, PollLocalStop, LocalStopWork, Transport::close).     *)
THEOREM TransportIsALocalStop == Spec => ImplementsLocalStop
BY StopInit, StopStep, TransportInvariant, PTL DEF Spec, ImplementsLocalStop, Stop!Spec
=============================================================================
