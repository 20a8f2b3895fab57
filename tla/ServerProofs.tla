---------------------------- MODULE ServerProofs ----------------------------
(***************************************************************************)
(* Proofs about Server.  It is a composition: whatever its threads do, the *)
(* cameras take steps of CameraManage and the clients of the camera steps  *)
(* of ClientManage, so the inductive invariants of the two managers hold   *)
(* in it.  To them only the points where the two meet are to be added.     *)
(***************************************************************************)
EXTENDS Server, TLAPS

(* The proofs about the two managers. *)
CP == INSTANCE CameraManageProofs
        WITH Cameras <- {TheCamera}, handler <- adding, copy <- keysCopy

SP == INSTANCE ClientManageProofs
        WITH handler <- session, deleter <- destroyer, Destroys <- TRUE

(* What the managers assume of their constants. *)
LEMMA ManagersAssume == CP!CameraManageAssumption /\ SP!ClientManageAssumption
  BY ServerAssumption DEF CP!CameraManageAssumption, SP!ClientManageAssumption

(* The managers the proofs are about are those that Server is made of. *)
LEMMA SameCameras == Cams!Spec => CP!Spec
<1>1. Cams!Init => CP!Init
  BY DEF Cams!Init, CP!Init, Cams!Unused, CP!Unused, Cams!HandlerIdle, CP!HandlerIdle
<1>2. [Cams!Next]_(Cams!vars) => [CP!Next]_(CP!vars)
  BY DEF Cams!Next, CP!Next, Cams!Handler, CP!Handler, Cams!AddFind,
       CP!AddFind, Cams!Unused, CP!Unused, Cams!deleterVars, CP!deleterVars,
       Cams!AddWork, CP!AddWork, Cams!AddPullNew, CP!AddPullNew, Cams!NewCamera,
       CP!NewCamera, Cams!AddPushNew, CP!AddPushNew, Cams!FreePort, CP!FreePort,
       Cams!GetPortUse, CP!GetPortUse, Cams!LocalPort, CP!LocalPort,
       Cams!AddInsert, CP!AddInsert, Cams!AddKey, CP!AddKey,
       Cams!StartPullThread, CP!StartPullThread, Cams!HandlerIdle,
       CP!HandlerIdle, Cams!PullThread, CP!PullThread, Cams!PullLoop,
       CP!PullLoop, Cams!ConnectSuccess, CP!ConnectSuccess, Cams!ConnectFailure,
       CP!ConnectFailure, Cams!ReadFrame, CP!ReadFrame, Cams!ReadError,
       CP!ReadError, Cams!CloseNow, CP!CloseNow, Cams!Deleter, CP!Deleter,
       Cams!GetAllKey, CP!GetAllKey, Cams!FindFailed, CP!FindFailed,
       Cams!DeleteFind, CP!DeleteFind,
       Cams!AskPull, CP!AskPull, Cams!DeleteCamera, CP!DeleteCamera,
       Cams!EraseFromMap, CP!EraseFromMap, Cams!EraseKeys, CP!EraseKeys,
       Cams!Without, CP!Without, Cams!Min, CP!Min, Cams!vars, CP!vars
<1>3. QED BY <1>1, <1>2, PTL DEF Cams!Spec, CP!Spec

(* The same for the clients. *)
LEMMA SameSessions == Sess!Spec => SP!Spec
<1>1. Sess!Init => SP!Init
  BY DEF Sess!Init, SP!Init, Sess!Unused, SP!Unused, Sess!HandlerIdle, SP!HandlerIdle
<1>2. [Sess!Next]_(Sess!vars) => [SP!Next]_(SP!vars)
  BY DEF Sess!Next, SP!Next, Sess!Tick, SP!Tick, Sess!handlerVars,
       SP!handlerVars, Sess!cleanerVars, SP!cleanerVars, Sess!deleterVars,
       SP!deleterVars, Sess!Handler, SP!Handler, Sess!GetClient, SP!GetClient,
       Sess!Unused, SP!Unused, Sess!GetInfo, SP!GetInfo, Sess!HandlerIdle,
       SP!HandlerIdle, Sess!HandlerWork, SP!HandlerWork, Sess!AddToMap,
       SP!AddToMap, Sess!NewObject, SP!NewObject, Sess!AddKey, SP!AddKey,
       Sess!Respond, SP!Respond, Sess!GetInfoFind, SP!GetInfoFind,
       Sess!GetInfoRead, SP!GetInfoRead, Sess!Cleaner, SP!Cleaner, Sess!CheckGo,
       SP!CheckGo, Sess!CopyKeys, SP!CopyKeys, Sess!ReadClock, SP!ReadClock,
       Sess!FindExpired, SP!FindExpired, Sess!Expired, SP!Expired,
       Sess!DeteteKey, SP!DeteteKey, Sess!DeleteObject, SP!DeleteObject,
       Sess!Deleted, SP!Deleted, Sess!EraseFromMap, SP!EraseFromMap, Sess!WakeUp,
       SP!WakeUp, Sess!Deleter, SP!Deleter, Sess!ClearBegin, SP!ClearBegin,
       Sess!ClearNext, SP!ClearNext, Sess!ClearEnd, SP!ClearEnd, Sess!AskCleaner,
       SP!AskCleaner, Sess!CleanerGone, SP!CleanerGone, Sess!Without, SP!Without,
       Sess!vars, SP!vars
<1>3. QED BY <1>1, <1>2, PTL DEF Sess!Spec, SP!Spec
-----------------------------------------------------------------------------
(* What the cameras do in the server is what CameraManage allows: neither a
   request that goes to the clients nor their deletion does more to them. *)
THEOREM CamerasCompose == Spec => Cams!Spec
<1>1. Init => Cams!Init
  BY DEF Init
<1>2. [Next]_vars => [Cams!Next]_(Cams!vars)
  <2> SUFFICES ASSUME [Next]_vars PROVE [Cams!Next]_(Cams!vars)
    OBVIOUS
  <2>1. UNCHANGED cameraVars => UNCHANGED Cams!vars
    BY DEF cameraVars, Cams!vars, Cams!deleterVars
  <2>2. CASE Http
    BY <2>1, <2>2 DEF Http, AddCamera, Play, GetKeys, RequestWork, Playlist, Segment,
       Answer, FindKey, ReadCamera, ReadClients, UseGone, Cams!Next
  <2>3. CASE PullThread
    BY <2>3 DEF PullThread, Cams!Next
  <2>4. CASE Cleaner \/ Tick
    BY <2>1, <2>4 DEF Cleaner, Tick
  <2>5. CASE Deleter
    BY <2>1, <2>5 DEF Deleter, DeleterWork, ClearClient, WaitClose, DestroyMembers,
       CleanerGone, FreeCamera, Cams!Next, Cams!Deleter
  <2>6. CASE UNCHANGED vars
    BY <2>1, <2>6 DEF vars
  <2>7. QED BY <2>2, <2>3, <2>4, <2>5, <2>6 DEF Next
<1>3. QED BY <1>1, <1>2, PTL DEF Spec, Cams!Spec

(* What the clients of the camera do in the server is what ClientManage
   allows. *)
THEOREM SessionsCompose == Spec => Sess!Spec
<1>1. Init => Sess!Init
  BY DEF Init
<1>2. [Next]_vars => [Sess!Next]_(Sess!vars)
  <2> SUFFICES ASSUME [Next]_vars PROVE [Sess!Next]_(Sess!vars)
    OBVIOUS
  <2>1. UNCHANGED clientVars => UNCHANGED Sess!vars
    BY DEF clientVars, Sess!vars, Sess!handlerVars, Sess!cleanerVars, Sess!deleterVars
  <2>2. CASE Http
    BY <2>1, <2>2 DEF Http, AddCamera, Play, GetKeys, RequestWork, Playlist, Segment,
       Answer, FindKey, ReadCamera, ReadClients, UseGone, Sess!Next, Sess!Handler,
       Sess!HandlerWork
  <2>3. CASE PullThread
    BY <2>1, <2>3 DEF PullThread
  <2>4. CASE Cleaner \/ Tick
    BY <2>4 DEF Cleaner, Tick, Sess!Next
  <2>5. CASE Deleter
    BY <2>1, <2>5 DEF Deleter, DeleterWork, ClearClient, WaitClose, DestroyMembers,
       CleanerGone, FreeCamera, Sess!Next, Sess!Deleter
  <2>6. CASE UNCHANGED vars
    BY <2>1, <2>6 DEF vars
  <2>7. QED BY <2>2, <2>3, <2>4, <2>5, <2>6 DEF Next
<1>3. QED BY <1>1, <1>2, PTL DEF Spec, Sess!Spec

(* So the invariants of the managers hold in the server. *)
LEMMA ManagersHold == Spec => [](CP!IInv /\ SP!IInv)
<1>1. CP!Spec => []CP!IInv
  BY CP!IInvHolds, ManagersAssume
<1>2. SP!Spec => []SP!IInv
  BY SP!IInvHolds, ManagersAssume
<1>3. QED
  BY <1>1, <1>2, CamerasCompose, SessionsCompose, SameCameras, SameSessions, PTL
-----------------------------------------------------------------------------
(* Where the two managers meet: the deleting thread inside ~Camera. *)

TheCam == camera[TheCamera]

(* How far the deletion of the clients is, against that of the camera; and a
   camera that is being destroyed has given up, and said so. *)
Link ==
  /\ deleter.pc = "waitClose" => destroyer \in {"idle", "clear", "cleared"}
  /\ deleter.pc = "waiting" => destroyer \in {"cleared", "waiting", "destroyed"}
  /\ deleter.pc \notin {"waitClose", "waiting"} =>
       destroyer = "idle" \/ TheCam.state = "freed"
  /\ TheCam.state = "freed" => destroyer = "destroyed"
  /\ destroyer # "idle" => TheCam.connectFail
  /\ Gone => TheCam.closed

(* A camera that gave up, or tries to connect, is not connected. *)
Unconnected ==
  pull[TheCamera] = "connect" \/ TheCam.connectFail => ~TheCam.isConnect

(* Where a request is at a key of its copy. *)
Listing == {"listRead", "infoCount", "info"}

RequestType ==
  /\ request \in [pc : Holding \cup {"idle", "list", "infoNext"},
                  cam : {TheCamera, None}, names : Seq(Tags)]
  /\ request.cam # None <=> request.pc \in Holding
  /\ request.pc \in Listing => request.names # <<>>
  /\ request.pc = "undefined" => destroyer # "idle"

Meeting == Link /\ Unconnected /\ RequestType

(* The facts of CameraManage that the points of contact rest on. *)
LEMMA CameraFacts ==
  ASSUME CP!IInv
  PROVE  /\ camera \in [{TheCamera} ->
              [state : {"unused", "live", "freed"}, tag : Tags \cup {None},
               listenPort : Ports \cup {0}, tryConnectCount : Nat,
               isConnect : BOOLEAN, connectFail : BOOLEAN, isQuit : BOOLEAN,
               closed : BOOLEAN]]
         /\ pull \in [{TheCamera} ->
              {"none", "loop", "connect", "read", "close", "exited"}]
         /\ pullIns \in [Tags -> {TheCamera, None}]
         /\ keys \in Seq(Tags)
         /\ TheCam.connectFail => pull[TheCamera] \in {"close", "exited"}
         /\ pull[TheCamera] \in {"close", "exited"} => TheCam.connectFail
         /\ TheCam.closed => pull[TheCamera] = "exited"
         /\ pull[TheCamera] = "none" <=> TheCam.tag = None
         /\ TheCam.state = "unused" => TheCam = Cams!Unused
         /\ deleter.pc \in {"waitClose", "waiting"} =>
              /\ deleter.obj = TheCamera
              /\ TheCam.connectFail /\ TheCam.state = "live"
         /\ deleter.pc \in {"erase"} => TheCam.state = "freed"
  BY DEF CP!IInv, CP!TypeOK, CP!Lives, CP!Life, CP!DeleterAt, TheCam, CP!Unused,
         Cams!Unused

(* At the start there is nothing to destroy and no request. *)
LEMMA MeetingInit == Init => Meeting
  BY DEF Init, Cams!Init, Sess!Init, Meeting, Link, Unconnected, RequestType, Listing, TheCam,
         Gone, Idle, Holding, Cams!Unused

(* A request that adds a camera: no field of it that matters here changes. *)
LEMMA AddCameraLink ==
  ASSUME CP!IInv, Link, Unconnected, AddCamera
  PROVE  Link' /\ Unconnected'
<1>1. UNCHANGED <<deleter, destroyer>>
  BY DEF AddCamera, clientVars, Cams!Handler, Cams!AddFind, Cams!AddWork, Cams!AddInsert,
     Cams!AddKey, Cams!AddPullNew, Cams!AddPushNew, Cams!StartPullThread, Cams!deleterVars
<1>2. /\ TheCam'.state = "freed" <=> TheCam.state = "freed"
      /\ TheCam'.connectFail = TheCam.connectFail
      /\ TheCam'.closed = TheCam.closed
      /\ TheCam'.isConnect = TheCam.isConnect
      /\ pull[TheCamera]' = "connect" => pull[TheCamera] = "connect"
  <2>1. CASE UNCHANGED <<camera, pull>>
    BY <2>1 DEF TheCam
  <2>2. ASSUME NEW port, Cams!NewCamera(port), UNCHANGED pull,
               \E c \in {TheCamera} : camera[c] = Cams!Unused
        PROVE  <1>2
    <3>1. camera[TheCamera] = Cams!Unused
      BY <2>2
    <3>2. TheCamera = CHOOSE c \in {TheCamera} : camera[c] = Cams!Unused
      BY <3>1
    <3>3. camera' = [camera EXCEPT ![TheCamera] =
                       [Cams!Unused EXCEPT !.state = "live", !.listenPort = port]]
      BY <2>2, <3>2 DEF Cams!NewCamera
    <3>4. QED BY <2>2, <3>1, <3>3, CameraFacts DEF TheCam, Cams!Unused
  <2>3. CASE Cams!StartPullThread
    <3>1. adding.obj = TheCamera /\ pull[TheCamera] = "none"
      BY <2>3 DEF CP!IInv, CP!Held, Cams!StartPullThread
    <3>2. QED BY <2>3, <3>1, CameraFacts DEF Cams!StartPullThread, TheCam
  <2>4. Cams!AddPullNew \/ (\E tables \in [Ports -> TcpTables] : Cams!AddPushNew(tables)) =>
          /\ \E port : Cams!NewCamera(port)
          /\ UNCHANGED pull
          /\ \E c \in {TheCamera} : camera[c] = Cams!Unused
    BY DEF CP!IInv, CP!Held, CP!Unused, Cams!Unused, Cams!AddPullNew, Cams!AddPushNew
  <2>5. QED
    BY <2>1, <2>2, <2>3, <2>4 DEF AddCamera, Cams!Handler, Cams!AddFind, Cams!AddWork,
       Cams!AddInsert, Cams!AddKey
<1>3. QED BY <1>1, <1>2 DEF Link, Unconnected, Gone

(* The pull thread: it says that it is done after it gave up, and connects
   only before. *)
LEMMA PullThreadLink ==
  ASSUME CP!IInv, Link, Unconnected, PullThread
  PROVE  Link' /\ Unconnected'
<1>1. UNCHANGED <<deleter, destroyer>>
  BY DEF PullThread, clientVars, Cams!PullThread, Cams!PullLoop, Cams!ConnectSuccess,
     Cams!ConnectFailure, Cams!ReadFrame, Cams!ReadError, Cams!CloseNow, Cams!deleterVars
<1>2. /\ TheCam'.state = TheCam.state
      /\ TheCam.connectFail => TheCam'.connectFail
      /\ TheCam.closed => TheCam'.closed
      /\ Unconnected'
  <2>1. CASE Cams!PullLoop(TheCamera)
    BY <2>1, CameraFacts DEF Cams!PullLoop, TheCam, Unconnected
  <2>2. CASE Cams!ConnectSuccess(TheCamera)
    BY <2>2, CameraFacts DEF Cams!ConnectSuccess, TheCam, Unconnected
  <2>3. CASE Cams!ConnectFailure(TheCamera)
    <3>1. CASE TheCam.tryConnectCount > TryConnectCountMax
      <4>1. /\ camera' = [camera EXCEPT ![TheCamera].connectFail = TRUE]
            /\ pull' = [pull EXCEPT ![TheCamera] = "close"]
        BY <2>3, <3>1 DEF Cams!ConnectFailure, TheCam
      <4>2. QED BY <2>3, <4>1, CameraFacts DEF Cams!ConnectFailure, TheCam, Unconnected
    <3>2. CASE ~(TheCam.tryConnectCount > TryConnectCountMax)
      <4>1. /\ camera' = camera
            /\ pull' = [pull EXCEPT ![TheCamera] = "loop"]
        BY <2>3, <3>2 DEF Cams!ConnectFailure, TheCam
      <4>2. QED BY <2>3, <4>1, CameraFacts DEF Cams!ConnectFailure, TheCam, Unconnected
    <3>3. QED BY <3>1, <3>2
  <2>4. CASE Cams!ReadFrame(TheCamera)
    BY <2>4, CameraFacts DEF Cams!ReadFrame, TheCam, Unconnected
  <2>5. CASE Cams!ReadError(TheCamera)
    BY <2>5, CameraFacts DEF Cams!ReadError, TheCam, Unconnected
  <2>6. CASE Cams!CloseNow(TheCamera)
    BY <2>6, CameraFacts DEF Cams!CloseNow, TheCam, Unconnected
  <2>7. QED BY <2>1, <2>2, <2>3, <2>4, <2>5, <2>6 DEF PullThread, Cams!PullThread
<1>3. QED BY <1>1, <1>2 DEF Link, Gone

(* The deleting thread. *)
LEMMA DeleterLink ==
  ASSUME CP!IInv, CP!IInv', Link, Unconnected, Deleter
  PROVE  Link' /\ Unconnected'
<1>1. CASE DeleterWork
  <2>1. UNCHANGED <<camera, pull, destroyer>>
    BY <1>1 DEF DeleterWork, clientVars, Cams!GetAllKey, Cams!FindFailed,
       Cams!DeleteFind, Cams!EraseFromMap, Cams!EraseKeys
  <2>2. Unconnected'
    BY <2>1 DEF Unconnected, TheCam
  <2>3. /\ deleter.pc \notin {"waitClose", "waiting"}
        /\ deleter'.pc # "waiting"
    BY <1>1 DEF DeleterWork, Cams!GetAllKey, Cams!FindFailed, Cams!DeleteFind,
       Cams!EraseFromMap, Cams!EraseKeys, CP!IInv, CP!TypeOK
  <2>4. deleter'.pc = "waitClose" => TheCam'.state = "live"
    BY DEF CP!IInv, CP!DeleterAt, TheCam
  <2>5. QED BY <2>1, <2>2, <2>3, <2>4 DEF Link, Gone, TheCam
<1>2. CASE ClearClient
  <2>1. /\ UNCHANGED <<camera, pull, deleter>> /\ deleter.pc = "waitClose"
        /\ destroyer' \in {"clear", "cleared"}
    BY <1>2 DEF ClearClient, cameraVars, Sess!ClearBegin, Sess!ClearNext, Sess!ClearEnd,
       Sess!deleterVars
  <2>2. QED BY <2>1, CameraFacts DEF Link, Gone, Unconnected, TheCam
<1>3. CASE WaitClose
  <2>1. /\ destroyer = "cleared" /\ destroyer' = destroyer /\ UNCHANGED pull
        /\ deleter.pc = "waitClose" /\ deleter'.pc = "waiting"
        /\ camera' = [camera EXCEPT ![TheCamera].isQuit = TRUE]
    BY <1>3, CameraFacts DEF WaitClose, clientVars, Cams!AskPull, CP!IInv, CP!TypeOK
  <2>2. /\ TheCam'.state = TheCam.state /\ TheCam'.connectFail = TheCam.connectFail
        /\ TheCam'.closed = TheCam.closed /\ TheCam'.isConnect = TheCam.isConnect
    BY <2>1, CameraFacts DEF TheCam
  <2>3. QED BY <2>1, <2>2 DEF Link, Gone, Unconnected
<1>4. CASE DestroyMembers \/ CleanerGone
  <2>1. /\ UNCHANGED <<camera, pull, deleter>>
        /\ destroyer' \in {"waiting", "destroyed"}
        /\ destroyer \in {"cleared", "waiting"}
        /\ destroyer = "cleared" => deleter.pc = "waiting" /\ TheCam.closed
        /\ destroyer' = "destroyed" => destroyer = "waiting"
    BY <1>4 DEF DestroyMembers, CleanerGone, cameraVars, Sess!AskCleaner,
       Sess!CleanerGone, TheCam
  <2>2. QED BY <2>1, CameraFacts DEF Link, Gone, Unconnected, TheCam
<1>5. CASE FreeCamera
  <2>1. /\ destroyer = "destroyed" /\ destroyer' = destroyer /\ UNCHANGED pull
        /\ deleter.pc = "waiting" /\ deleter'.pc = "erase"
        /\ camera' = [camera EXCEPT ![TheCamera].state = "freed"]
    BY <1>5, CameraFacts DEF FreeCamera, clientVars, Cams!DeleteCamera, CP!IInv, CP!TypeOK
  <2>2. /\ TheCam'.state = "freed" /\ TheCam'.connectFail = TheCam.connectFail
        /\ TheCam'.closed = TheCam.closed /\ TheCam'.isConnect = TheCam.isConnect
    BY <2>1, CameraFacts DEF TheCam
  <2>3. QED BY <2>1, <2>2 DEF Link, Gone, Unconnected
<1>6. QED BY <1>1, <1>2, <1>3, <1>4, <1>5 DEF Deleter

(* The other steps leave the camera and its deletion alone. *)
Elsewhere ==
  \/ Http /\ ~AddCamera
  \/ Cleaner
  \/ Tick
  \/ UNCHANGED vars

(* The steps elsewhere leave the link between the two managers alone. *)
LEMMA ElsewhereLink ==
  ASSUME Link, Unconnected, Elsewhere
  PROVE  Link' /\ Unconnected' /\ UNCHANGED destroyer
<1>1. UNCHANGED <<camera, pull, deleter>>
  BY DEF Elsewhere, Http, Play, GetKeys, RequestWork, Playlist, Segment, Answer, FindKey,
     ReadCamera, ReadClients, UseGone, Cleaner, Tick, vars, cameraVars
<1>2. UNCHANGED destroyer
  <2>1. Sess!Handler \/ Sess!Cleaner \/ Sess!Tick => UNCHANGED destroyer
    BY DEF Sess!Handler, Sess!GetClient, Sess!GetInfo, Sess!HandlerWork, Sess!AddToMap,
       Sess!AddKey, Sess!Respond, Sess!GetInfoFind, Sess!GetInfoRead, Sess!Cleaner,
       Sess!CheckGo, Sess!CopyKeys, Sess!ReadClock, Sess!FindExpired, Sess!DeteteKey,
       Sess!DeleteObject, Sess!EraseFromMap, Sess!WakeUp, Sess!Tick, Sess!deleterVars
  <2>2. QED
    BY <2>1 DEF Elsewhere, Http, Play, GetKeys, RequestWork, Playlist, Segment, Answer,
       FindKey, ReadCamera, ReadClients, UseGone, Cleaner, Tick, vars, clientVars,
       Sess!Handler, Sess!HandlerWork
<1>3. QED BY <1>1, <1>2 DEF Link, Unconnected, Gone, TheCam

(* Once ~Camera has begun it does not go back. *)
LEMMA DestroyerStays ==
  ASSUME destroyer # "idle", Elsewhere \/ AddCamera \/ PullThread \/ Deleter,
         Link, Unconnected
  PROVE  destroyer' # "idle"
<1>1. CASE Elsewhere
  BY <1>1, ElsewhereLink
<1>2. CASE AddCamera \/ PullThread
  BY <1>2 DEF AddCamera, PullThread, clientVars
<1>3. CASE Deleter
  BY <1>3 DEF Deleter, DeleterWork, ClearClient, WaitClose, DestroyMembers, CleanerGone,
     FreeCamera, clientVars, Sess!ClearBegin, Sess!ClearNext, Sess!ClearEnd,
     Sess!AskCleaner, Sess!CleanerGone
<1>4. QED BY <1>1, <1>2, <1>3

(* A step of a request: it finds a camera, loses it when it is answered, and
   is past recall only when the camera's members are being destroyed. *)
LEMMA RequestStep ==
  ASSUME CP!IInv, RequestType, Http, ~AddCamera
  PROVE  /\ request' \in [pc : Holding \cup {"idle", "list", "infoNext"},
                          cam : {TheCamera, None}, names : Seq(Tags)]
         /\ request'.cam # None <=> request'.pc \in Holding
         /\ request'.pc \in Listing => request'.names # <<>>
         /\ request'.pc = "undefined" => Gone
<1> DEFINE Requests == [pc : Holding \cup {"idle", "list", "infoNext"},
                        cam : {TheCamera, None}, names : Seq(Tags)]
           Good(r) == /\ r \in Requests
                      /\ r.cam # None <=> r.pc \in Holding
                      /\ r.pc \in Listing => r.names # <<>>
<1>1. Good(request) /\ TheCamera # None
  BY ServerAssumption DEF RequestType
<1>2. Good(Idle) /\ Idle.pc # "undefined"
  BY <1>1 DEF Idle, Holding, Listing
<1>3. ASSUME NEW t \in Tags, NEW pc \in {"playlist", "segment"}, Play(t, pc)
      PROVE  Good(request') /\ request'.pc # "undefined"
  <2>1. pullIns[t] = TheCamera /\ request' = [Idle EXCEPT !.pc = pc, !.cam = TheCamera]
    BY <1>3, CameraFacts DEF Play
  <2>2. request' = [pc |-> pc, cam |-> TheCamera, names |-> <<>>]
    BY <2>1 DEF Idle
  <2>3. QED BY <1>1, <2>2 DEF Holding, Listing
<1>4. ASSUME NEW pc \in {"list", "infoNext"}, GetKeys(pc)
      PROVE  Good(request') /\ request'.pc # "undefined"
  <2>1. request' = [pc |-> pc, cam |-> None, names |-> keys]
    BY <1>4 DEF GetKeys, Idle
  <2>2. QED BY <2>1, CameraFacts DEF Holding, Listing
<1>5. ASSUME NEW g \in Guids, Playlist(g) \/ Segment(g)
      PROVE  Good(request') /\ request'.pc # "undefined"
  <2>1. request' = Idle \/ request' = [request EXCEPT !.pc = "answer"]
    BY <1>5 DEF Playlist, Segment
  <2>2. request.pc \in {"playlist", "segment"}
    BY <1>5 DEF Playlist, Segment, At
  <2>3. request.cam = TheCamera
    BY <1>1, <2>2 DEF Holding
  <2>4. Good([request EXCEPT !.pc = "answer"])
    BY <1>1, <2>3 DEF Holding, Listing
  <2>5. [request EXCEPT !.pc = "answer"].pc = "answer"
    BY <1>1
  <2>6. QED BY <1>2, <2>1, <2>4, <2>5
<1>6. CASE Answer
  <2>1. request' \in {Idle, request} /\ request.pc = "answer"
    BY <1>6 DEF Answer, At
  <2>2. QED BY <1>1, <1>2, <2>1
<1>7. ASSUME NEW pc \in {"list", "infoNext"}, request.names # <<>>
      PROVE  Good(NextKey(pc)) /\ NextKey(pc).pc # "undefined"
  <2>1. PICK rest : rest = Tail(request.names)
    OBVIOUS
  <2>2. rest \in Seq(Tags)
    BY <1>1, <1>7, <2>1
  <2>3. Idle \in Requests /\ Idle.cam = None
    BY <1>2 DEF Idle
  <2>4. NextKey(pc) \in Requests /\ NextKey(pc).cam = None /\ NextKey(pc).pc = pc
    BY <2>1, <2>2, <2>3 DEF NextKey
  <2>5. QED BY <2>4 DEF Holding, Listing
<1>8. ASSUME NEW pc \in {"list", "infoNext"}, NEW found \in {"listRead", "infoCount"},
             FindKey(pc, found)
      PROVE  Good(request') /\ request'.pc # "undefined"
  <2>1. CASE request.names = <<>>
    BY <1>2, <1>8, <2>1 DEF FindKey
  <2>2. CASE request.names # <<>> /\ pullIns[Head(request.names)] = None
    BY <1>7, <1>8, <2>2 DEF FindKey
  <2>3. CASE request.names # <<>> /\ pullIns[Head(request.names)] # None
    <3>1. Head(request.names) \in Tags
      BY <1>1, <2>3
    <3>2. pullIns[Head(request.names)] = TheCamera
      BY <2>3, <3>1, CameraFacts
    <3>3. request' = [request EXCEPT !.pc = found, !.cam = TheCamera]
      BY <1>8, <2>3, <3>2 DEF FindKey
    <3>4. /\ request' \in Requests /\ request'.pc = found
          /\ request'.cam = TheCamera /\ request'.names = request.names
      BY <1>1, <3>3 DEF Holding
    <3>5. QED BY <1>1, <2>3, <3>4 DEF Holding, Listing
  <2>4. QED BY <2>1, <2>2, <2>3
<1>9. CASE ReadCamera
  <2>1. request.names # <<>> /\ request' = NextKey("list")
    BY <1>1, <1>9 DEF ReadCamera, At, Listing
  <2>2. QED BY <1>7, <2>1
<1>10. CASE ReadClients
  <2>1. request.pc \in {"infoCount", "info"} /\ request.names # <<>>
    BY <1>1, <1>10 DEF ReadClients, At, Listing
  <2>2. CASE request' = NextKey("infoNext")
    BY <1>7, <2>1, <2>2
  <2>3. CASE request' = [request EXCEPT !.pc = "info"]
    <3>1. request.cam # None
      BY <1>1, <2>1 DEF Holding
    <3>2. QED BY <1>1, <2>1, <2>3, <3>1 DEF Holding
  <2>4. QED BY <1>10, <2>2, <2>3 DEF ReadClients
<1>11. CASE UseGone
  <2>1. request.cam = TheCamera /\ Gone /\ request' = [request EXCEPT !.pc = "undefined"]
    BY <1>1, <1>11 DEF UseGone
  <2>2. Good(request')
    BY <1>1, <2>1 DEF Holding, Listing
  <2>3. QED BY <2>1, <2>2
<1>12. QED
  BY <1>3, <1>4, <1>5, <1>6, <1>8, <1>9, <1>10, <1>11 DEF Http, RequestWork

(* Every step keeps the points of contact, given what holds of the managers. *)
LEMMA MeetingStep ==
  ASSUME CP!IInv, CP!IInv', Meeting, [Next]_vars
  PROVE  Meeting'
<1>1. Elsewhere \/ AddCamera \/ PullThread \/ Deleter
  BY DEF Next, Elsewhere
<1>2. Link' /\ Unconnected'
  BY <1>1, ElsewhereLink, AddCameraLink, PullThreadLink, DeleterLink DEF Meeting
<1>3. destroyer # "idle" => destroyer' # "idle"
  BY <1>1, DestroyerStays DEF Meeting
<1>4. RequestType'
  <2>1. CASE Http /\ ~AddCamera
    BY <2>1, <1>3, RequestStep DEF Meeting, RequestType, Gone
  <2>2. CASE UNCHANGED request
    BY <2>2, <1>3 DEF Meeting, RequestType
  <2>3. QED
    BY <1>1, <2>1, <2>2 DEF Elsewhere, AddCamera, PullThread, Cleaner, Tick, Deleter,
       DeleterWork, ClearClient, WaitClose, DestroyMembers, CleanerGone, FreeCamera, vars
<1>5. QED BY <1>2, <1>4 DEF Meeting

(* The invariants of the managers and the points of contact, together. *)
LEMMA MeetingHolds == Spec => [](CP!IInv /\ SP!IInv /\ Meeting)
<1>1. Init => Meeting
  BY MeetingInit
<1>2. CP!IInv /\ CP!IInv' /\ Meeting /\ [Next]_vars => Meeting'
  BY MeetingStep
<1>3. QED BY <1>1, <1>2, ManagersHold, PTL DEF Spec

(* Every variable of the server has its type, and a request holds a camera
   where it uses one. *)
THEOREM TypeCorrect == Spec => []TypeOK
<1>1. CP!IInv => Cams!TypeOK
  BY DEF CP!IInv, CP!TypeOK, Cams!TypeOK
<1>2. SP!IInv => Sess!TypeOK
  BY DEF SP!IInv, SP!TypeOK, Sess!TypeOK
<1>3. CP!IInv /\ SP!IInv /\ Meeting => TypeOK
  BY <1>1, <1>2 DEF TypeOK, Meeting, RequestType
<1>4. QED BY <1>3, MeetingHolds, PTL

(* ~Camera destroys its members only after the pull thread has ended, and
   frees the camera only after the cleaner of its clients has. *)
THEOREM ThreadsAreGone == Spec => []ThreadsGoneFirst
<1>1. CP!IInv /\ SP!IInv /\ Meeting => ThreadsGoneFirst
  BY CameraFacts DEF ThreadsGoneFirst, Meeting, Link, SP!IInv, SP!Handshake, TheCam
<1>2. QED BY <1>1, MeetingHolds, PTL

(* Only a camera that has given up, and is not connected, is destroyed under a
   request that found it. *)
THEOREM OnlyFailedDestroyed == Spec => []OnlyFailedIsDestroyed
<1>1. Meeting => OnlyFailedIsDestroyed
  BY DEF OnlyFailedIsDestroyed, Meeting, Link, Unconnected, RequestType, TheCam
<1>2. QED BY <1>1, MeetingHolds, PTL
=============================================================================
