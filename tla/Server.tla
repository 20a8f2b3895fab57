------------------------------- MODULE Server -------------------------------
(***************************************************************************)
(* The server around one camera: CameraManage and the ClientManage of the  *)
(* camera composed, with the HTTP thread that reaches the clients through  *)
(* the map of cameras, and with ~Camera, which clears the clients, waits   *)
(* for the pull thread, and waits for the cleaner of the clients.  A step  *)
(* of the server is a step of one of the two managers, or of both.         *)
(*                                                                         *)
(* Requests are handled one at a time.  A request keeps the pointer Get    *)
(* gave it until it is answered, while the camera may be deleted.          *)
(***************************************************************************)
EXTENDS Integers, Sequences

CONSTANTS
  Tags, Ports, TcpTables, TooLong, TryConnectCountMax, MaxConnects,
                                            \* of CameraManage
  Guids, Objects, SessionTimeout, MaxTime,  \* of ClientManage
  TheCamera,
  None

ASSUME ServerAssumption ==
  /\ None \notin Tags \cup {TheCamera} \cup Guids \cup Objects
  /\ Ports \subseteq Nat \ {0}
  /\ \A table \in TcpTables : table = TooLong \/ table \subseteq Nat
  /\ {TryConnectCountMax, MaxConnects, SessionTimeout, MaxTime} \subseteq Nat

(* The cameras. *)
VARIABLES
  pullIns, keys, usePorts, camera, pull, deleter,
  adding,    \* the HTTP thread inside AddPull or AddPush
  keysCopy   \* the deleting thread's copy of keys

(* The clients of the camera. *)
VARIABLES
  clients, allKeys, allKeysLock, object, now, listing, cleaner, copy, end,
  clearing, deleteTheadGo,
  session,   \* the HTTP thread inside the ClientManage of the camera
  destroyer  \* the deleting thread inside it

VARIABLE
  request    \* the HTTP thread inside Play, GetPullList or GetClients: where
             \* it is, the camera it found, what is left of its copy of keys

cameraVars == <<pullIns, keys, usePorts, camera, pull, deleter, adding, keysCopy>>
clientVars == <<clients, allKeys, allKeysLock, object, now, listing, cleaner,
                copy, end, clearing, deleteTheadGo, session, destroyer>>
vars == <<cameraVars, clientVars, request>>

Cams == INSTANCE CameraManage
          WITH Cameras <- {TheCamera}, handler <- adding, copy <- keysCopy

Sess == INSTANCE ClientManage
          WITH handler <- session, deleter <- destroyer, Destroys <- TRUE

Idle == [pc |-> "idle", cam |-> None, names |-> <<>>]

Init == Cams!Init /\ Sess!Init /\ request = Idle

(* From the moment ~Camera is past its body, members of the camera are being
   destroyed; what a request does with them then is undefined. *)
Gone == destroyer \in {"waiting", "destroyed"}

(* A request whose camera is still there. *)
At(pc) == request.pc = pc /\ ~(request.cam # None /\ Gone)
-----------------------------------------------------------------------------
(* The HTTP thread. *)

HttpIdle == request = Idle /\ adding = Cams!HandlerIdle

AddCamera ==
  /\ request = Idle
  /\ Cams!Handler
  /\ UNCHANGED <<clientVars, request>>

(* Play/tag/sessionid/ and Play/tag/sessionid/n.ts: Get.  (Play/tag is
   answered with a redirect to a new session id, and a tag that is not there
   with 404; neither changes anything.) *)
Play(t, pc) ==
  /\ HttpIdle
  /\ pullIns[t] # None
  /\ request' = [Idle EXCEPT !.pc = pc, !.cam = pullIns[t]]
  /\ UNCHANGED <<cameraVars, clientVars>>

Playlist(g) ==
  /\ At("playlist")
  /\ Sess!GetClient(g)
  /\ request' = [request EXCEPT !.pc = "answer"]
  /\ UNCHANGED cameraVars

(* A segment is only asked of a client that is there; otherwise 404. *)
Segment(g) ==
  /\ At("segment")
  /\ IF clients[g] = None
     THEN request' = Idle /\ UNCHANGED clientVars
     ELSE request' = [request EXCEPT !.pc = "answer"] /\ Sess!GetClient(g)
  /\ UNCHANGED cameraVars

Answer ==
  /\ At("answer")
  /\ Sess!AddToMap \/ Sess!AddKey \/ Sess!Respond
  /\ request' = IF session'.pc = "idle" THEN Idle ELSE request
  /\ UNCHANGED cameraVars

(* GetPullList and GetClients go through a copy of the keys. *)
GetKeys(pc) ==
  /\ HttpIdle
  /\ request' = [Idle EXCEPT !.pc = pc, !.names = keys]
  /\ UNCHANGED <<cameraVars, clientVars>>

(* Mutant: the loop does not go on to the next key. *)
SameKey(pc) == [Idle EXCEPT !.pc = pc, !.names = request.names]

NextKey(pc) == [Idle EXCEPT !.pc = pc, !.names = Tail(request.names)]

(* Mutant: the result of find is not compared with end. *)
FindKeyUnchecked(pc, found) ==
  /\ At(pc)
  /\ request' =
       IF request.names = <<>> THEN Idle
       ELSE [request EXCEPT !.pc = found, !.cam = pullIns[Head(request.names)]]
  /\ UNCHANGED <<cameraVars, clientVars>>

FindKey(pc, found) ==
  /\ At(pc)
  /\ request' =
       IF request.names = <<>> THEN Idle
       ELSE IF pullIns[Head(request.names)] = None THEN NextKey(pc)
       ELSE [request EXCEPT !.pc = found, !.cam = pullIns[Head(request.names)]]
  /\ UNCHANGED <<cameraVars, clientVars>>

(* GetPullList reads isConnect and tag of the camera. *)
ReadCamera ==
  /\ At("listRead")
  /\ request' = NextKey("list")
  /\ UNCHANGED <<cameraVars, clientVars>>

(* GetClients counts the clients of the camera and asks for the information
   of each. *)
ReadClients ==
  /\ \/ At("infoCount") /\ Sess!GetInfo
     \/ At("info") /\ (Sess!GetInfoFind \/ Sess!GetInfoRead)
  /\ request' = IF session'.pc = "idle" THEN NextKey("infoNext")
                ELSE [request EXCEPT !.pc = "info"]
  /\ UNCHANGED cameraVars

(* The next step of a request that holds the pointer of a camera that is
   gone. *)
UseGone ==
  /\ request.cam # None
  /\ Gone
  /\ request.pc # "undefined"
  /\ request' = [request EXCEPT !.pc = "undefined"]
  /\ UNCHANGED <<cameraVars, clientVars>>

RequestWork ==
  \/ \E g \in Guids : Playlist(g) \/ Segment(g)
  \/ Answer
  \/ FindKey("list", "listRead")
  \/ ReadCamera
  \/ FindKey("infoNext", "infoCount")
  \/ ReadClients
  \/ UseGone

Http ==
  \/ AddCamera
  \/ \E t \in Tags : Play(t, "playlist") \/ Play(t, "segment")
  \/ GetKeys("list")
  \/ GetKeys("infoNext")
  \/ RequestWork
-----------------------------------------------------------------------------
(* The threads of the camera, from its construction on. *)

PullThread ==
  /\ Cams!PullThread(TheCamera)
  /\ UNCHANGED <<clientVars, request>>

Cleaner ==
  /\ camera[TheCamera] # Cams!Unused
  /\ Sess!Cleaner
  /\ UNCHANGED <<cameraVars, request>>

Tick ==
  /\ camera[TheCamera] # Cams!Unused
  /\ Sess!Tick
  /\ UNCHANGED <<cameraVars, request>>
-----------------------------------------------------------------------------
(* The deleting thread: Delete is ~Camera and then two erasures. *)

DeleterWork ==
  /\ \/ Cams!GetAllKey \/ Cams!FindFailed \/ Cams!DeleteFind
     \/ Cams!EraseFromMap \/ Cams!EraseKeys
  /\ UNCHANGED <<clientVars, request>>

ClearClient ==
  /\ deleter.pc = "waitClose"
  /\ Sess!ClearBegin \/ Sess!ClearNext \/ Sess!ClearEnd
  /\ UNCHANGED <<cameraVars, request>>

WaitClose ==
  /\ destroyer = "cleared"
  /\ Cams!AskPull
  /\ UNCHANGED <<clientVars, request>>

(* Mutant: the members are destroyed while the pull thread may use them. *)
MembersWithoutWait ==
  /\ deleter.pc = "waiting"
  /\ Sess!AskCleaner
  /\ UNCHANGED <<cameraVars, request>>

(* WaitClose returns; the members are destroyed, and with them ~ClientManage
   begins. *)
DestroyMembers ==
  /\ deleter.pc = "waiting"
  /\ camera[TheCamera].closed
  /\ Sess!AskCleaner
  /\ UNCHANGED <<cameraVars, request>>

CleanerGone ==
  /\ Sess!CleanerGone
  /\ UNCHANGED <<cameraVars, request>>

FreeCamera ==
  /\ destroyer = "destroyed"
  /\ Cams!DeleteCamera
  /\ UNCHANGED <<clientVars, request>>

Deleter ==
  \/ DeleterWork
  \/ ClearClient
  \/ WaitClose
  \/ DestroyMembers
  \/ CleanerGone
  \/ FreeCamera
-----------------------------------------------------------------------------
Next == Http \/ PullThread \/ Cleaner \/ Deleter \/ Tick

Spec == Init /\ [][Next]_vars

(* A thread that can take a step takes it; requests need not come, and a
   camera may stay connected for ever. *)
Fairness ==
  /\ WF_vars(AddCamera /\ adding.pc # "idle")  \* AddPull and AddPush once begun
  /\ WF_vars(RequestWork)
  /\ WF_vars(PullThread)
  /\ WF_vars(Cleaner)
  /\ WF_vars(Deleter)

FairSpec == Spec /\ Fairness
-----------------------------------------------------------------------------
(* Where a request holds the pointer of a camera. *)
Holding == {"playlist", "segment", "answer", "listRead", "infoCount", "info",
            "undefined"}

(* Every variable has its type, and a request holds a camera where it uses
   one. *)
TypeOK ==
  /\ Cams!TypeOK
  /\ Sess!TypeOK
  /\ request \in [pc : Holding \cup {"idle", "list", "infoNext"},
                 cam : {TheCamera, None}, names : Seq(Tags)]
  /\ request.cam # None <=> request.pc \in Holding

(* ~Camera takes things away in the right order: its members once the pull
   thread, which appends to inPackets, has ended, and the rest, with the
   clients, once the cleaner has. *)
ThreadsGoneFirst ==
  /\ Gone => pull[TheCamera] = "exited"
  /\ camera[TheCamera].state = "freed" => cleaner.pc = "exited"

(* A camera that has a stream is safe to use: its clients are cleared, and a
   request that found it gets into trouble (later, once members are destroyed),
   only if it is not connected and has given up, and then GetPullList does not
   list it either. *)
OnlyFailedIsDestroyed ==
  destroyer # "idle" \/ request.pc = "undefined" =>
    camera[TheCamera].connectFail /\ ~camera[TheCamera].isConnect

(* A camera that has given up is taken out of the map, so that its tag can be
   added again: the lock of the clients, the event of the pull thread and the
   handshake with the cleaner let ~Camera through, whatever is asked of the
   camera meanwhile. *)
FailedIsGone ==
  \A t \in Tags :
    (pullIns[t] # None /\ camera[TheCamera].connectFail) ~> (pullIns[t] = None)

(* Every request is answered, or it has met a camera that is gone. *)
RequestEnds == (request.pc # "idle") ~> (request.pc \in {"idle", "undefined"})
=============================================================================
