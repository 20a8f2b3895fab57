---------------------------- MODULE CameraManage ----------------------------
(***************************************************************************)
(* The cameras of the server (CameraMangage and the life of a Camera): a   *)
(* map from tags to Camera objects, and the list keys that the deleting    *)
(* thread goes through.  keyLock protects the list, and every critical     *)
(* section of it is one step here; nothing protects the map.  The threads: *)
(*   - the HTTP handler, which adds a camera (AddPull, AddPush) and starts *)
(*     its pull thread;                                                    *)
(*   - the pull thread of each camera, which connects, reads frames, and   *)
(*     gives up when it cannot connect;                                    *)
(*   - the deleting thread, which deletes the cameras that gave up.        *)
(* What CreateTs does with a frame is the subject of HlsStream, and the    *)
(* clients of a camera that of ClientManage.                               *)
(***************************************************************************)
EXTENDS KeyList, SequencesExt

CONSTANTS
  Tags,
  Cameras,             \* Camera objects, never reused: bounds how many are made
  None,
  Ports,               \* 10000..65534 in the code
  TcpTables,           \* what GetTcpTable may return: a set of dwLocalPort, or
                       \* TooLong when the table does not fit into 100 entries
  TooLong,
  TryConnectCountMax,  \* tryConnectCountMax, 3 in the code
  MaxConnects          \* bound on the connections one camera makes

ASSUME CameraManageAssumption ==
  /\ None \notin Tags \cup Cameras
  /\ Ports \subseteq Nat \ {0}
  /\ \A table \in TcpTables : table = TooLong \/ table \subseteq Nat
  /\ TryConnectCountMax \in Nat
  /\ MaxConnects \in Nat

VARIABLES
  pullIns,    \* the map: tag -> camera, None when there is no entry
  keys,
  usePorts,
  camera,     \* the fields of each Camera
  pull,       \* where the pull thread of each camera is
  handler,    \* the HTTP thread: where it is in an Add, for which tag
  deleter,    \* the deleting thread: where it is, with which camera
  copy        \* what is left of its copy of keys

deleterVars == <<deleter, copy>>
vars == <<pullIns, keys, usePorts, camera, pull, handler, deleterVars>>

Unused ==
  [state |-> "unused", tag |-> None, listenPort |-> 0, tryConnectCount |-> 0,
   isConnect |-> FALSE, connectFail |-> FALSE, isQuit |-> FALSE,
   closed |-> FALSE]

HandlerIdle == [pc |-> "idle", tag |-> None, isPush |-> FALSE, obj |-> None]

Init ==
  /\ pullIns = [t \in Tags |-> None]
  /\ keys = <<>>
  /\ usePorts = {}
  /\ camera = [c \in Cameras |-> Unused]
  /\ pull = [c \in Cameras |-> "none"]
  /\ handler = HandlerIdle
  /\ deleter = [pc |-> "sleep", obj |-> None]
  /\ copy = <<>>
-----------------------------------------------------------------------------
(* The HTTP handler: AddPull (isPush = FALSE) and AddPush. *)

(* Mutant: Add does not look the tag up. *)
AddBlindly(t, isPush) ==
  /\ handler.pc = "idle"
  /\ \E c \in Cameras : camera[c] = Unused
  /\ handler' = [pc |-> "new", tag |-> t, isPush |-> isPush, obj |-> None]
  /\ UNCHANGED <<pullIns, keys, usePorts, camera, pull, deleterVars>>

(* Add of a tag that is taken answers "already exist" and changes nothing. *)
AddFind(t, isPush) ==
  /\ handler.pc = "idle"
  /\ pullIns[t] = None
  /\ \E c \in Cameras : camera[c] = Unused
  /\ handler' = [pc |-> "new", tag |-> t, isPush |-> isPush, obj |-> None]
  /\ UNCHANGED <<pullIns, keys, usePorts, camera, pull, deleterVars>>

(* GetPortUse.  A row has the two bytes of the port in network order; no port
   is found used in a table that does not fit. *)
LocalPort(dwLocalPort) == dwLocalPort \div 256 + (dwLocalPort % 256) * 256

GetPortUse(table, port) ==
  table # TooLong /\ \E row \in table : LocalPort(row) = port

(* Mutant: the ports handed out before are not remembered. *)
FreePortForgetful(tables) ==
  LET free == {p \in Ports : ~GetPortUse(tables[p], p)}
  IN  IF free = {} THEN 0 ELSE Min(free)

(* GetFreePort: the first port neither handed out before nor in use on the
   machine, and 0 when there is none; handed out ports are never given back.
   tables[p] is the table when port p is looked up. *)
FreePort(tables) ==
  LET free == {p \in Ports \ usePorts : ~GetPortUse(tables[p], p)}
  IN  IF free = {} THEN 0 ELSE Min(free)

(* new Camera(streamType, listenPort).  The code keeps the port in the url only,
   here it has a field.  Which of the unused objects it is makes no difference. *)
NewCamera(port) ==
  LET c == CHOOSE c \in Cameras : camera[c] = Unused
  IN  /\ camera' = [camera EXCEPT ![c] =
                      [Unused EXCEPT !.state = "live", !.listenPort = port]]
      /\ handler' = [handler EXCEPT !.pc = "insert", !.obj = c]

(* Mutant: a pull camera is given an uninitialized listenPort. *)
AddPullUninit ==
  /\ handler.pc = "new" /\ ~handler.isPush
  /\ NewCamera(-1)
  /\ UNCHANGED <<pullIns, keys, usePorts, pull, deleterVars>>

AddPullNew ==
  /\ handler.pc = "new" /\ ~handler.isPush
  /\ NewCamera(0)
  /\ UNCHANGED <<pullIns, keys, usePorts, pull, deleterVars>>

AddPushNew(tables) ==
  /\ handler.pc = "new" /\ handler.isPush
  /\ NewCamera(FreePort(tables))
  /\ usePorts' = usePorts \cup {FreePort(tables)}
  /\ UNCHANGED <<pullIns, keys, pull, deleterVars>>

AddInsert ==
  /\ handler.pc = "insert"
  /\ pullIns' = [pullIns EXCEPT ![handler.tag] = handler.obj]
  /\ handler' = [handler EXCEPT !.pc = "pushKey"]
  /\ UNCHANGED <<keys, usePorts, camera, pull, deleterVars>>

AddKey ==
  /\ handler.pc = "pushKey"
  /\ keys' = Append(keys, handler.tag)
  /\ handler' = [handler EXCEPT !.pc = "start"]
  /\ UNCHANGED <<pullIns, usePorts, camera, pull, deleterVars>>

(* Back in ev_handler: set the tag, and start the pull thread. *)
StartPullThread ==
  /\ handler.pc = "start"
  /\ camera' = [camera EXCEPT ![handler.obj].tag = handler.tag]
  /\ pull' = [pull EXCEPT ![handler.obj] = "loop"]
  /\ handler' = HandlerIdle
  /\ UNCHANGED <<pullIns, keys, usePorts, deleterVars>>

AddWork ==
  \/ AddPullNew
  \/ \E tables \in [Ports -> TcpTables] : AddPushNew(tables)
  \/ AddInsert
  \/ AddKey
  \/ StartPullThread

Handler ==
  \/ \E t \in Tags, isPush \in BOOLEAN : AddFind(t, isPush)
  \/ AddWork
-----------------------------------------------------------------------------
(* The pull thread of camera c (Pull). *)

(* The test of the loop; a camera that is not connected begins a try. *)
PullLoop(c) ==
  /\ pull[c] = "loop"
  /\ IF camera[c].isQuit
     THEN pull' = [pull EXCEPT ![c] = "close"] /\ UNCHANGED camera
     ELSE IF camera[c].isConnect
          THEN pull' = [pull EXCEPT ![c] = "read"] /\ UNCHANGED camera
          ELSE /\ pull' = [pull EXCEPT ![c] = "connect"]
               /\ camera' = [camera EXCEPT ![c].tryConnectCount = @ + 1]
  /\ UNCHANGED <<pullIns, keys, usePorts, handler, deleterVars>>

ConnectSuccess(c) ==
  /\ pull[c] = "connect"
  /\ camera[c].tryConnectCount <= MaxConnects
  /\ camera' = [camera EXCEPT ![c].isConnect = TRUE]
  /\ pull' = [pull EXCEPT ![c] = "read"]
  /\ UNCHANGED <<pullIns, keys, usePorts, handler, deleterVars>>

(* Mutant: the thread returns instead of leaving the loop. *)
ConnectFailureReturns(c) ==
  /\ pull[c] = "connect"
  /\ IF camera[c].tryConnectCount > TryConnectCountMax
     THEN /\ camera' = [camera EXCEPT ![c].connectFail = TRUE]
          /\ pull' = [pull EXCEPT ![c] = "exited"]
     ELSE /\ pull' = [pull EXCEPT ![c] = "loop"]
          /\ UNCHANGED camera
  /\ UNCHANGED <<pullIns, keys, usePorts, handler, deleterVars>>

(* A failed try; the tries are counted over the whole life of the camera. *)
ConnectFailure(c) ==
  /\ pull[c] = "connect"
  /\ IF camera[c].tryConnectCount > TryConnectCountMax
     THEN /\ camera' = [camera EXCEPT ![c].connectFail = TRUE]
          /\ pull' = [pull EXCEPT ![c] = "close"]
     ELSE /\ pull' = [pull EXCEPT ![c] = "loop"]
          /\ UNCHANGED camera
  /\ UNCHANGED <<pullIns, keys, usePorts, handler, deleterVars>>

(* A frame was read and muxed, or one of another stream dropped. *)
ReadFrame(c) ==
  /\ pull[c] = "read"
  /\ pull' = [pull EXCEPT ![c] = "loop"]
  /\ UNCHANGED <<pullIns, keys, usePorts, camera, handler, deleterVars>>

ReadError(c) ==
  /\ pull[c] = "read"
  /\ camera' = [camera EXCEPT ![c].isConnect = FALSE]
  /\ pull' = [pull EXCEPT ![c] = "loop"]
  /\ UNCHANGED <<pullIns, keys, usePorts, handler, deleterVars>>

CloseNow(c) ==
  /\ pull[c] = "close"
  /\ camera' = [camera EXCEPT ![c].closed = TRUE]
  /\ pull' = [pull EXCEPT ![c] = "exited"]
  /\ UNCHANGED <<pullIns, keys, usePorts, handler, deleterVars>>

PullThread(c) ==
  \/ PullLoop(c)
  \/ ConnectSuccess(c)
  \/ ConnectFailure(c)
  \/ ReadFrame(c)
  \/ ReadError(c)
  \/ CloseNow(c)
-----------------------------------------------------------------------------
(* The deleting thread. *)

(* SleepMs(1000) is over; copy the keys. *)
GetAllKey ==
  /\ deleter.pc = "sleep"
  /\ copy' = keys
  /\ deleter' = [deleter EXCEPT !.pc = "find"]
  /\ UNCHANGED <<pullIns, keys, usePorts, camera, pull, handler>>

(* Mutant: a camera that is not connected is taken for one that gave up. *)
FindDisconnected ==
  /\ deleter.pc = "find"
  /\ IF copy = <<>>
     THEN deleter' = [deleter EXCEPT !.pc = "sleep"] /\ UNCHANGED copy
     ELSE LET c == pullIns[Head(copy)]
          IN  IF c # None /\ ~camera[c].isConnect
              THEN deleter' = [deleter EXCEPT !.pc = "delete"] /\ UNCHANGED copy
              ELSE copy' = Tail(copy) /\ UNCHANGED deleter
  /\ UNCHANGED <<pullIns, keys, usePorts, camera, pull, handler>>

(* The next key: call Delete if its camera has given up. *)
FindFailed ==
  /\ deleter.pc = "find"
  /\ IF copy = <<>>
     THEN deleter' = [deleter EXCEPT !.pc = "sleep"] /\ UNCHANGED copy
     ELSE LET c == pullIns[Head(copy)]
          IN  IF c # None /\ camera[c].connectFail
              THEN deleter' = [deleter EXCEPT !.pc = "delete"] /\ UNCHANGED copy
              ELSE copy' = Tail(copy) /\ UNCHANGED deleter
  /\ UNCHANGED <<pullIns, keys, usePorts, camera, pull, handler>>

(* Delete looks the key up itself, and deletes what it finds. *)
DeleteFind ==
  /\ deleter.pc = "delete"
  /\ LET c == pullIns[Head(copy)]
     IN  IF c = None
         THEN /\ deleter' = [deleter EXCEPT !.pc = "find"]
              /\ copy' = Tail(copy)
         ELSE deleter' = [pc |-> "waitClose", obj |-> c] /\ UNCHANGED copy
  /\ UNCHANGED <<pullIns, keys, usePorts, camera, pull, handler>>

(* Mutants: the entry is erased before the camera is deleted; the camera is
   deleted without waiting for its pull thread. *)
EraseThenAskPull ==
  /\ deleter.pc = "waitClose"
  /\ pullIns' = [pullIns EXCEPT ![Head(copy)] = None]
  /\ camera' = [camera EXCEPT ![deleter.obj].isQuit = TRUE]
  /\ deleter' = [deleter EXCEPT !.pc = "waiting"]
  /\ UNCHANGED <<keys, usePorts, pull, handler, copy>>

DeleteWithoutWait ==
  /\ deleter.pc = "waiting"
  /\ camera' = [camera EXCEPT ![deleter.obj].state = "freed"]
  /\ deleter' = [deleter EXCEPT !.pc = "erase"]
  /\ UNCHANGED <<pullIns, keys, usePorts, pull, handler, copy>>

(* ~Camera, after ClearClient: ask the pull thread to quit (WaitClose), ... *)
AskPull ==
  /\ deleter.pc = "waitClose"
  /\ camera' = [camera EXCEPT ![deleter.obj].isQuit = TRUE]
  /\ deleter' = [deleter EXCEPT !.pc = "waiting"]
  /\ UNCHANGED <<pullIns, keys, usePorts, pull, handler, copy>>

(* ... wait for it, and for the cleaner of the clients (~ClientManage). *)
DeleteCamera ==
  /\ deleter.pc = "waiting"
  /\ camera[deleter.obj].closed
  /\ camera' = [camera EXCEPT ![deleter.obj].state = "freed"]
  /\ deleter' = [deleter EXCEPT !.pc = "erase"]
  /\ UNCHANGED <<pullIns, keys, usePorts, pull, handler, copy>>

EraseFromMap ==
  /\ deleter.pc = "erase"
  /\ pullIns' = [pullIns EXCEPT ![Head(copy)] = None]
  /\ deleter' = [deleter EXCEPT !.pc = "eraseKeys"]
  /\ UNCHANGED <<keys, usePorts, camera, pull, handler, copy>>

(* Every key that equals the deleted one goes. *)
EraseKeys ==
  /\ deleter.pc = "eraseKeys"
  /\ keys' = Without(keys, Head(copy))
  /\ copy' = Tail(copy)
  /\ deleter' = [pc |-> "find", obj |-> None]
  /\ UNCHANGED <<pullIns, usePorts, camera, pull, handler>>

Deleter ==
  \/ GetAllKey
  \/ FindFailed
  \/ DeleteFind
  \/ AskPull
  \/ DeleteCamera
  \/ EraseFromMap
  \/ EraseKeys
-----------------------------------------------------------------------------
Next ==
  \/ Handler
  \/ \E c \in Cameras : PullThread(c)
  \/ Deleter

Spec == Init /\ [][Next]_vars

(* Every thread that can take a step takes it; a camera may stay connected
   for ever, and no request need come. *)
Fairness ==
  /\ WF_vars(AddWork)
  /\ WF_vars(Deleter)
  /\ \A c \in Cameras : WF_vars(PullThread(c))

FairSpec == Spec /\ Fairness
-----------------------------------------------------------------------------
(* Every variable has its type. *)
TypeOK ==
  /\ pullIns \in [Tags -> Cameras \cup {None}]
  /\ keys \in Seq(Tags)
  /\ usePorts \subseteq Ports \cup {0}
  /\ camera \in [Cameras ->
       [state : {"unused", "live", "freed"}, tag : Tags \cup {None},
        listenPort : Ports \cup {0}, tryConnectCount : Nat, isConnect : BOOLEAN,
        connectFail : BOOLEAN, isQuit : BOOLEAN, closed : BOOLEAN]]
  /\ pull \in [Cameras -> {"none", "loop", "connect", "read", "close", "exited"}]
  /\ handler \in [pc : {"idle", "new", "insert", "pushKey", "start"},
                  tag : Tags \cup {None}, isPush : BOOLEAN,
                  obj : Cameras \cup {None}]
  /\ deleter \in [pc : {"sleep", "find", "delete", "waitClose", "waiting",
                        "erase", "eraseKeys"},
                  obj : Cameras \cup {None}]
  /\ copy \in Seq(Tags)

(* The memory of a camera goes only after its pull thread is done with it: the
   handshake of CloseEvent. *)
ThreadGoneFirst ==
  \A c \in Cameras : camera[c].state = "freed" => pull[c] = "exited"

(* A camera that has not given up is never deleted: Delete looks the key up
   again, and still finds the camera whose connectFail was read. *)
OnlyFailedAreDeleted ==
  \A c \in Cameras :
    camera[c].isQuit \/ camera[c].state = "freed" =>
      camera[c].connectFail /\ camera[c].tryConnectCount > TryConnectCountMax

(* Two cameras of one tag never live at once: the entry of the map outlives
   the camera, so Add refuses the tag until the old camera is gone. *)
OneCameraPerTag ==
  \A c1, c2 \in Cameras :
    /\ camera[c1].state = "live" /\ camera[c2].state = "live"
    /\ camera[c1].tag # None /\ camera[c1].tag = camera[c2].tag
    => c1 = c2

(* A live camera is in the map, under its tag, unless Add has not put it
   there yet; so a request for the tag finds it. *)
LiveIsMapped ==
  \A c \in Cameras : camera[c].state = "live" =>
    \/ \E t \in Tags : pullIns[t] = c /\ camera[c].tag \in {t, None}
    \/ handler.pc = "insert" /\ handler.obj = c

(* A port is handed out once: no two push cameras ever listen on one, even if
   the machine reports it free again in between. *)
PortsAreDistinct ==
  \A c1, c2 \in Cameras :
    camera[c1].listenPort # 0 /\ camera[c1].listenPort = camera[c2].listenPort
    => c1 = c2

(* What is in the map under a tag, for those who play it. *)
StreamOf(t) ==
  IF pullIns[t] = None THEN "absent"
  ELSE IF camera[pullIns[t]].connectFail THEN "over" ELSE "offered"

Streams == [t \in Tags |-> StreamOf(t)]

Directory == INSTANCE StreamDirectory WITH stream <- Streams

(* The cameras implement the directory: the entry of a tag changes only from
   a camera that gave up to none, and from none to a camera that has not. *)
ImplementsDirectory == Directory!Spec

(* A camera that has given up is deleted, if its key is in the list and the
   deleting thread is not about to take the keys of its tag away. *)
Listed(t) == \E i \in 1..Len(keys) : keys[i] = t
TakingKeys(t) == deleter.pc = "eraseKeys" /\ Head(copy) = t

FailedIsDeleted ==
  \A c \in Cameras :
    (/\ camera[c].connectFail
     /\ Listed(camera[c].tag)
     /\ ~TakingKeys(camera[c].tag))
    ~> (camera[c].state = "freed")

(* What README.md says, and the code does not do: GetPullList gives the
   information of all connections.  So a camera that AddPull or AddPush has put
   in the map is in the list GetListJson goes through. *)
EveryCameraIsListed ==
  \A t \in Tags : pullIns[t] # None =>
    \/ Listed(t)
    \/ handler.pc = "pushKey" /\ handler.tag = t
    \/ TakingKeys(t)
=============================================================================
