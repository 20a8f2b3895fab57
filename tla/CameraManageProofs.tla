------------------------- MODULE CameraManageProofs -------------------------
(***************************************************************************)
(* Proofs about CameraManage for every set of tags, cameras, ports and TCP *)
(* tables and every limit of the tries: a camera is deleted only after it  *)
(* gave up and its pull thread has ended, the map and the live cameras     *)
(* agree, no port is handed out twice, and the cameras implement the       *)
(* directory of streams.                                                   *)
(***************************************************************************)
EXTENDS CameraManage, KeyListProofs

CameraType ==
  [state : {"unused", "live", "freed"}, tag : Tags \cup {None},
   listenPort : Ports \cup {0}, tryConnectCount : Nat, isConnect : BOOLEAN,
   connectFail : BOOLEAN, isQuit : BOOLEAN, closed : BOOLEAN]

(* The life of one camera: it gives up only after its tries and in the last
   steps of its pull thread, it is asked to quit only after it gave up, and it
   is freed only after its thread has said that it is done. *)
Life(c) ==
  /\ camera[c].state = "unused" => camera[c] = Unused
  /\ camera[c].state = "unused" => pull[c] = "none"
  /\ pull[c] = "none" <=> camera[c].tag = None
  /\ camera[c].connectFail =>
       pull[c] \in {"close", "exited"} /\ camera[c].tryConnectCount > TryConnectCountMax
  /\ camera[c].isQuit => camera[c].connectFail
  /\ pull[c] \in {"close", "exited"} => camera[c].connectFail
  /\ camera[c].closed => pull[c] = "exited"
  /\ camera[c].state = "freed" => camera[c].closed

Lives == \A c \in Cameras : Life(c)

(* What the handler has in its hands: a tag that is free until it puts its
   camera in the map, and a camera whose thread has not begun. *)
Held ==
  /\ handler.pc # "idle" => handler.tag \in Tags
  /\ handler.pc = "new" => \E c \in Cameras : camera[c] = Unused
  /\ handler.pc \in {"new", "insert"} => pullIns[handler.tag] = None
  /\ handler.pc \in {"insert", "pushKey", "start"} =>
       /\ handler.obj \in Cameras
       /\ camera[handler.obj].state = "live"
       /\ pull[handler.obj] = "none"
  /\ handler.pc = "insert" => \A t \in Tags : pullIns[t] # handler.obj
  /\ handler.pc \in {"pushKey", "start"} => pullIns[handler.tag] = handler.obj

(* The map: no camera is in it twice, and none that was freed, but for the step
   between delete and erase. *)
MapSound ==
  /\ \A t1, t2 \in Tags : pullIns[t1] # None /\ pullIns[t1] = pullIns[t2] => t1 = t2
  /\ \A t \in Tags : pullIns[t] # None =>
       /\ camera[pullIns[t]].state # "unused"
       /\ camera[pullIns[t]].tag \in {t, None}
       /\ camera[pullIns[t]].state = "freed" =>
            deleter.pc = "erase" /\ deleter.obj = pullIns[t]

(* The camera that the deleting thread is at: it is the one in the map, and it
   has given up. *)
DeleterAt ==
  /\ deleter.pc \in {"delete", "waitClose", "waiting", "erase", "eraseKeys"} =>
       copy # <<>>
  /\ deleter.pc = "delete" =>
       /\ pullIns[Head(copy)] \in Cameras
       /\ camera[pullIns[Head(copy)]].connectFail
       /\ camera[pullIns[Head(copy)]].state = "live"
  /\ deleter.pc \in {"waitClose", "waiting", "erase"} =>
       /\ deleter.obj \in Cameras
       /\ pullIns[Head(copy)] = deleter.obj
       /\ camera[deleter.obj].connectFail
  /\ deleter.pc \in {"waitClose", "waiting"} => camera[deleter.obj].state = "live"
  /\ deleter.pc = "erase" => camera[deleter.obj].state = "freed"

(* The ports of the cameras were handed out, each to one. *)
PortsUsed ==
  /\ \A c \in Cameras : camera[c].listenPort # 0 => camera[c].listenPort \in usePorts
  /\ PortsAreDistinct

IInv ==
  /\ TypeOK
  /\ Lives
  /\ Held
  /\ MapSound
  /\ DeleterAt
  /\ LiveIsMapped
  /\ PortsUsed
-----------------------------------------------------------------------------
(* At the start there is no camera. *)
LEMMA IInvInit == Init => IInv
<1> SUFFICES ASSUME Init PROVE IInv
  OBVIOUS
<1>1. Unused \in CameraType
  BY CameraManageAssumption DEF Unused, CameraType
<1>2. TypeOK
  BY <1>1 DEF Init, TypeOK, CameraType, HandlerIdle
<1>3. Lives
  BY DEF Init, Lives, Life, Unused
<1>4. Held /\ MapSound /\ DeleterAt
  BY DEF Init, Held, MapSound, DeleterAt, HandlerIdle
<1>5. LiveIsMapped /\ PortsUsed
  BY DEF Init, LiveIsMapped, PortsUsed, PortsAreDistinct, Unused
<1>6. QED BY <1>2, <1>3, <1>4, <1>5 DEF IInv

(* The pull thread of camera c changes only the fields of c, and not those
   that the map and the handler go by. *)
PullOnly(c) ==
  /\ camera' \in [Cameras -> CameraType]
  /\ pull' \in [Cameras -> {"none", "loop", "connect", "read", "close", "exited"}]
  /\ \A d \in Cameras : d # c => camera'[d] = camera[d] /\ pull'[d] = pull[d]
  /\ pull[c] # "none"
  /\ camera'[c].state = camera[c].state
  /\ camera'[c].tag = camera[c].tag
  /\ camera'[c].listenPort = camera[c].listenPort
  /\ camera[c].connectFail => camera'[c].connectFail
  /\ UNCHANGED <<pullIns, keys, usePorts, handler, deleterVars>>

(* Such a step keeps the invariant. *)
LEMMA PullOnlyKeeps ==
  ASSUME IInv, NEW c \in Cameras, PullOnly(c), Life(c)'
  PROVE  IInv'
<1>1. TypeOK'
  BY DEF IInv, PullOnly, TypeOK, CameraType, deleterVars
<1>2. Lives'
  BY DEF IInv, PullOnly, Lives, Life
<1>3. camera[c].state # "unused" /\ camera[c] # Unused
  BY DEF IInv, Lives, Life, PullOnly, Unused
<1>4. Held'
  BY <1>3 DEF IInv, PullOnly, Held
<1>5. MapSound'
  <2>1. \A d \in Cameras : camera'[d].state = camera[d].state /\ camera'[d].tag = camera[d].tag
    BY DEF PullOnly
  <2>2. \A t \in Tags : pullIns[t] # None => pullIns[t] \in Cameras
    BY DEF IInv, TypeOK
  <2>3. UNCHANGED <<pullIns, deleter>>
    BY DEF PullOnly, deleterVars
  <2>4. QED BY <2>1, <2>2, <2>3 DEF IInv, MapSound
<1>6. DeleterAt'
  BY DEF IInv, PullOnly, DeleterAt, deleterVars
<1>7. LiveIsMapped'
  BY DEF IInv, PullOnly, LiveIsMapped
<1>8. PortsUsed'
  BY DEF IInv, PullOnly, PortsUsed, PortsAreDistinct
<1>9. QED BY <1>1, <1>2, <1>4, <1>5, <1>6, <1>7, <1>8 DEF IInv

(* Every step of a pull thread is such a step. *)
LEMMA PullThreadStep ==
  ASSUME IInv, NEW c \in Cameras, PullThread(c)
  PROVE  IInv'
<1>1. /\ camera \in [Cameras -> CameraType]
      /\ pull \in [Cameras -> {"none", "loop", "connect", "read", "close", "exited"}]
      /\ Life(c)
      /\ TryConnectCountMax \in Nat
  BY CameraManageAssumption DEF IInv, TypeOK, CameraType, Lives
<1> SUFFICES PullOnly(c) /\ Life(c)'
  BY PullOnlyKeeps
<1>2. CASE PullLoop(c)
  BY <1>1, <1>2 DEF PullLoop, PullOnly, Life, CameraType, Unused
<1>3. CASE ConnectSuccess(c)
  BY <1>1, <1>3 DEF ConnectSuccess, PullOnly, Life, CameraType, Unused
<1>4. CASE ConnectFailure(c)
  <2>1. CASE camera[c].tryConnectCount > TryConnectCountMax
    <3>1. /\ pull[c] = "connect"
          /\ camera' = [camera EXCEPT ![c].connectFail = TRUE]
          /\ pull' = [pull EXCEPT ![c] = "close"]
          /\ UNCHANGED <<pullIns, keys, usePorts, handler, deleterVars>>
      BY <1>4, <2>1 DEF ConnectFailure
    <3>2. PullOnly(c)
      BY <1>1, <3>1 DEF PullOnly, CameraType
    <3>3. Life(c)'
      BY <1>1, <2>1, <3>1 DEF Life, CameraType, Unused
    <3>4. QED BY <3>2, <3>3
  <2>2. CASE ~(camera[c].tryConnectCount > TryConnectCountMax)
    BY <1>1, <1>4, <2>2 DEF ConnectFailure, PullOnly, Life, CameraType, Unused
  <2>3. QED BY <2>1, <2>2
<1>5. CASE ReadFrame(c)
  BY <1>1, <1>5 DEF ReadFrame, PullOnly, Life, CameraType, Unused
<1>6. CASE ReadError(c)
  BY <1>1, <1>6 DEF ReadError, PullOnly, Life, CameraType, Unused
<1>7. CASE CloseNow(c)
  BY <1>1, <1>7 DEF CloseNow, PullOnly, Life, CameraType, Unused
<1>8. QED BY <1>2, <1>3, <1>4, <1>5, <1>6, <1>7 DEF PullThread
-----------------------------------------------------------------------------
(* The steps of the handler. *)
LEMMA AddFindStep ==
  ASSUME IInv, NEW t \in Tags, NEW isPush \in BOOLEAN, AddFind(t, isPush)
  PROVE  IInv'
<1>1. /\ pullIns[t] = None /\ \E c \in Cameras : camera[c] = Unused
      /\ handler' = [pc |-> "new", tag |-> t, isPush |-> isPush, obj |-> None]
      /\ UNCHANGED <<pullIns, keys, usePorts, camera, pull, deleter, copy>>
  BY DEF AddFind, deleterVars
<1>2. TypeOK'
  BY <1>1 DEF IInv, TypeOK
<1>3. Lives' /\ MapSound' /\ DeleterAt' /\ PortsUsed'
  BY <1>1 DEF IInv, Lives, Life, MapSound, DeleterAt, PortsUsed, PortsAreDistinct
<1>4. Held'
  BY <1>1 DEF Held
<1>5. LiveIsMapped'
  BY <1>1 DEF IInv, LiveIsMapped, AddFind
<1>6. QED BY <1>2, <1>3, <1>4, <1>5 DEF IInv

(* GetFreePort returns 0 or a port that was not handed out. *)
LEMMA FreePortIsFree ==
  ASSUME NEW tables
  PROVE  /\ FreePort(tables) \in Ports \cup {0}
         /\ FreePort(tables) # 0 => FreePort(tables) \notin usePorts
<1> DEFINE free == {p \in Ports \ usePorts : ~GetPortUse(tables[p], p)}
<1>1. CASE free = {}
  BY <1>1 DEF FreePort
<1>2. CASE free # {}
  <2>1. free \in SUBSET Nat
    BY CameraManageAssumption
  <2>2. \E x \in free : \A y \in free : x <= y
    BY <1>2, <2>1, LeastElement
  <2>3. Min(free) \in free
    BY <2>2 DEF Min
  <2>4. QED BY <1>2, <2>3 DEF FreePort
<1>3. QED BY <1>1, <1>2

(* The new camera, whatever its port is, if no camera has it. *)
LEMMA NewCameraStep ==
  ASSUME IInv, NEW port \in Ports \cup {0}, handler.pc = "new", NewCamera(port),
         port # 0 => port \notin usePorts /\ port \in usePorts',
         usePorts' \in SUBSET (Ports \cup {0}), usePorts \subseteq usePorts',
         UNCHANGED <<pullIns, keys, pull, deleterVars>>
  PROVE  IInv'
<1> DEFINE c == CHOOSE d \in Cameras : camera[d] = Unused
           new == [Unused EXCEPT !.state = "live", !.listenPort = port]
<1>1. c \in Cameras /\ camera[c] = Unused
  BY DEF IInv, Held
<1>2. /\ camera' = [camera EXCEPT ![c] = new]
      /\ handler' = [handler EXCEPT !.pc = "insert", !.obj = c]
      /\ UNCHANGED <<pullIns, keys, pull, deleter, copy>>
  BY DEF NewCamera, deleterVars
<1>3. /\ new \in CameraType /\ new.state = "live" /\ new.listenPort = port
      /\ new.tag = None
      /\ ~new.connectFail /\ ~new.isQuit /\ ~new.closed
  BY CameraManageAssumption DEF Unused, CameraType
<1>4. /\ camera \in [Cameras -> CameraType]
      /\ handler \in [pc : {"idle", "new", "insert", "pushKey", "start"},
                      tag : Tags \cup {None}, isPush : BOOLEAN,
                      obj : Cameras \cup {None}]
      /\ pullIns \in [Tags -> Cameras \cup {None}]
      /\ None \notin Cameras
  BY CameraManageAssumption DEF IInv, TypeOK, CameraType
<1>5. /\ camera' \in [Cameras -> CameraType] /\ camera'[c] = new
      /\ \A d \in Cameras : d # c => camera'[d] = camera[d]
  BY <1>1, <1>2, <1>3, <1>4
<1>6. /\ handler'.pc = "insert" /\ handler'.obj = c /\ handler'.tag = handler.tag
      /\ handler' \in [pc : {"idle", "new", "insert", "pushKey", "start"},
                      tag : Tags \cup {None}, isPush : BOOLEAN,
                      obj : Cameras \cup {None}]
  BY <1>1, <1>2, <1>4
<1>7. pull[c] = "none" /\ camera[c].state = "unused"
  BY <1>1 DEF IInv, Lives, Life, Unused
<1>8. \A t \in Tags : pullIns[t] # c
  BY <1>4, <1>1, <1>7 DEF IInv, MapSound
<1>9. deleter.pc \in {"waitClose", "waiting", "erase"} => deleter.obj # c
  BY <1>7 DEF IInv, DeleterAt
<1>10. TypeOK'
  BY <1>2, <1>5, <1>6 DEF IInv, TypeOK, CameraType
<1>11. Lives'
  <2>1. \A d \in Cameras : d # c => Life(d)'
    BY <1>2, <1>5 DEF IInv, Lives, Life
  <2>2. \A d \in Cameras : d = c => Life(d)'
    BY <1>2, <1>3, <1>5, <1>7 DEF Life
  <2>3. QED BY <2>1, <2>2 DEF Lives
<1>12. Held'
  BY <1>1, <1>2, <1>3, <1>5, <1>6, <1>7, <1>8 DEF IInv, Held
<1>13. MapSound'
  BY <1>2, <1>4, <1>5, <1>8 DEF IInv, MapSound
<1>14. DeleterAt'
  <2>1. deleter.pc = "delete" => Head(copy) \in Tags /\ pullIns[Head(copy)] # c
    BY <1>8 DEF IInv, TypeOK, DeleterAt
  <2>2. QED BY <1>2, <1>5, <1>9, <2>1 DEF IInv, DeleterAt
<1>15. LiveIsMapped'
  BY <1>2, <1>5, <1>6, handler.pc # "insert" DEF IInv, LiveIsMapped
<1>16. PortsUsed'
  <2>1. \A d \in Cameras : camera'[d].listenPort =
                              IF d = c THEN port ELSE camera[d].listenPort
    BY <1>3, <1>5
  <2>2. \A d \in Cameras : camera[d].listenPort # 0 => camera[d].listenPort \in usePorts
    BY DEF IInv, PortsUsed
  <2>3. \A d, e \in Cameras :
          camera[d].listenPort # 0 /\ camera[d].listenPort = camera[e].listenPort => d = e
    BY DEF IInv, PortsUsed, PortsAreDistinct
  <2>4. \A d \in Cameras : camera'[d].listenPort # 0 => camera'[d].listenPort \in usePorts'
    BY <2>1, <2>2
  <2>5. ASSUME NEW d \in Cameras, NEW e \in Cameras,
               camera'[d].listenPort # 0,
               camera'[d].listenPort = camera'[e].listenPort
        PROVE  d = e
    <3>1. CASE d # c /\ e # c
      BY <2>1, <2>3, <2>5, <3>1
    <3>2. CASE d = c \/ e = c
      BY <2>1, <2>2, <2>5, <3>2
    <3>3. QED BY <3>1, <3>2
  <2>6. QED BY <2>4, <2>5 DEF PortsUsed, PortsAreDistinct
<1>17. QED BY <1>10, <1>11, <1>12, <1>13, <1>14, <1>15, <1>16 DEF IInv

(* The camera comes into the map, under a tag that was free. *)
LEMMA AddInsertStep ==
  ASSUME IInv, AddInsert
  PROVE  IInv'
<1> DEFINE c == handler.obj
           t == handler.tag
<1>1. /\ handler.pc = "insert"
      /\ pullIns' = [pullIns EXCEPT ![t] = c]
      /\ UNCHANGED <<keys, usePorts, camera, pull, deleter, copy>>
  BY DEF AddInsert, deleterVars
<1>2. /\ handler \in [pc : {"idle", "new", "insert", "pushKey", "start"},
                      tag : Tags \cup {None}, isPush : BOOLEAN,
                      obj : Cameras \cup {None}]
      /\ pullIns \in [Tags -> Cameras \cup {None}]
      /\ None \notin Cameras
  BY CameraManageAssumption DEF IInv, TypeOK
<1>3. /\ handler'.pc = "pushKey" /\ handler'.obj = c /\ handler'.tag = t
      /\ handler' \in [pc : {"idle", "new", "insert", "pushKey", "start"},
                      tag : Tags \cup {None}, isPush : BOOLEAN,
                      obj : Cameras \cup {None}]
  BY <1>2 DEF AddInsert
<1>4. /\ c \in Cameras /\ t \in Tags /\ pullIns[t] = None
      /\ camera[c].state = "live" /\ pull[c] = "none" /\ camera[c].tag = None
      /\ \A u \in Tags : pullIns[u] # c
  BY <1>1 DEF IInv, Held, Lives, Life
<1>5. /\ pullIns' \in [Tags -> Cameras \cup {None}]
      /\ pullIns'[t] = c
      /\ \A u \in Tags : u # t => pullIns'[u] = pullIns[u]
  BY <1>1, <1>2, <1>4
<1>6. TypeOK'
  BY <1>1, <1>3, <1>5 DEF IInv, TypeOK
<1>7. Lives' /\ PortsUsed'
  BY <1>1 DEF IInv, Lives, Life, PortsUsed, PortsAreDistinct
<1>8. Held'
  BY <1>1, <1>3, <1>4, <1>5 DEF Held
<1>9. MapSound'
  BY <1>1, <1>4, <1>5 DEF IInv, MapSound
<1>10. DeleterAt'
  <2>1. copy # <<>> => Head(copy) \in Tags
    BY DEF IInv, TypeOK
  <2>2. deleter.pc \in {"delete", "waitClose", "waiting", "erase"} => Head(copy) # t
    BY <1>2, <1>4 DEF IInv, DeleterAt
  <2>3. QED BY <1>1, <1>5, <2>1, <2>2 DEF IInv, DeleterAt
<1>11. LiveIsMapped'
  BY <1>1, <1>2, <1>4, <1>5 DEF IInv, LiveIsMapped
<1>12. QED BY <1>6, <1>7, <1>8, <1>9, <1>10, <1>11 DEF IInv

(* The tag comes into the list of keys. *)
LEMMA AddKeyStep ==
  ASSUME IInv, AddKey
  PROVE  IInv'
<1>1. /\ handler.pc = "pushKey"
      /\ handler' = [handler EXCEPT !.pc = "start"]
      /\ keys' = Append(keys, handler.tag)
      /\ UNCHANGED <<pullIns, usePorts, camera, pull, deleter, copy>>
  BY DEF AddKey, deleterVars
<1>2. /\ handler'.pc = "start" /\ handler'.obj = handler.obj /\ handler'.tag = handler.tag
      /\ handler' \in [pc : {"idle", "new", "insert", "pushKey", "start"},
                      tag : Tags \cup {None}, isPush : BOOLEAN,
                      obj : Cameras \cup {None}]
  BY <1>1 DEF IInv, TypeOK
<1>3. TypeOK'
  BY <1>1, <1>2 DEF IInv, TypeOK, Held
<1>4. Lives' /\ MapSound' /\ DeleterAt' /\ PortsUsed'
  BY <1>1 DEF IInv, Lives, Life, MapSound, DeleterAt, PortsUsed, PortsAreDistinct
<1>5. Held' /\ LiveIsMapped'
  BY <1>1, <1>2 DEF IInv, Held, LiveIsMapped
<1>6. QED BY <1>3, <1>4, <1>5 DEF IInv

(* The camera gets its tag, and its thread. *)
LEMMA StartPullThreadStep ==
  ASSUME IInv, StartPullThread
  PROVE  IInv'
<1> DEFINE c == handler.obj
           t == handler.tag
<1>1. /\ handler.pc = "start" /\ handler' = HandlerIdle
      /\ camera' = [camera EXCEPT ![c].tag = t]
      /\ pull' = [pull EXCEPT ![c] = "loop"]
      /\ UNCHANGED <<pullIns, keys, usePorts, deleter, copy>>
  BY DEF StartPullThread, deleterVars
<1>2. /\ camera \in [Cameras -> CameraType]
      /\ pull \in [Cameras -> {"none", "loop", "connect", "read", "close", "exited"}]
      /\ pullIns \in [Tags -> Cameras \cup {None}]
      /\ None \notin Cameras \cup Tags
  BY CameraManageAssumption DEF IInv, TypeOK, CameraType
<1>3. /\ c \in Cameras /\ t \in Tags /\ pullIns[t] = c
      /\ camera[c].state = "live" /\ pull[c] = "none"
      /\ ~camera[c].connectFail /\ ~camera[c].isQuit /\ ~camera[c].closed
  BY <1>1 DEF IInv, Held, Lives, Life
<1>4. /\ camera' \in [Cameras -> CameraType]
      /\ camera'[c] = [camera[c] EXCEPT !.tag = t]
      /\ pull' \in [Cameras -> {"none", "loop", "connect", "read", "close", "exited"}]
      /\ pull'[c] = "loop"
      /\ \A d \in Cameras : d # c => camera'[d] = camera[d] /\ pull'[d] = pull[d]
  BY <1>1, <1>2, <1>3 DEF CameraType
<1>5. /\ camera'[c].tag = t /\ camera'[c].state = "live"
      /\ camera'[c].listenPort = camera[c].listenPort
      /\ camera'[c].connectFail = camera[c].connectFail
      /\ camera'[c].isQuit = camera[c].isQuit
      /\ camera'[c].closed = camera[c].closed
  BY <1>2, <1>3, <1>4 DEF CameraType
<1>6. TypeOK'
  BY <1>1, <1>4 DEF IInv, TypeOK, CameraType, HandlerIdle
<1>7. Lives'
  <2>1. \A d \in Cameras : d # c => Life(d)'
    BY <1>4 DEF IInv, Lives, Life
  <2>2. /\ camera'[c].tag # None /\ camera'[c].state = "live"
        /\ ~camera'[c].connectFail /\ ~camera'[c].isQuit /\ ~camera'[c].closed
        /\ pull'[c] \notin {"none", "close", "exited"}
    BY <1>2, <1>3, <1>4, <1>5
  <2>3. \A d \in Cameras : d = c => Life(d)'
    BY <2>2 DEF Life
  <2>4. QED BY <2>1, <2>3 DEF Lives
<1>8. Held'
  BY <1>1 DEF Held, HandlerIdle
<1>9. MapSound'
  BY <1>1, <1>2, <1>3, <1>4, <1>5 DEF IInv, MapSound
<1>10. DeleterAt'
  BY <1>1, <1>3, <1>4, <1>5 DEF IInv, DeleterAt
<1>11. LiveIsMapped'
  BY <1>1, <1>3, <1>4, <1>5 DEF IInv, LiveIsMapped
<1>12. PortsUsed'
  BY <1>1, <1>4, <1>5 DEF IInv, PortsUsed, PortsAreDistinct
<1>13. QED BY <1>6, <1>7, <1>8, <1>9, <1>10, <1>11, <1>12 DEF IInv
-----------------------------------------------------------------------------
(* The steps of the deleting thread. *)
DeleterType ==
  [pc : {"sleep", "find", "delete", "waitClose", "waiting", "erase", "eraseKeys"},
   obj : Cameras \cup {None}]

(* A pass begins with a copy of the keys. *)
LEMMA GetAllKeyStep ==
  ASSUME IInv, GetAllKey
  PROVE  IInv'
<1>1. /\ deleter.pc = "sleep" /\ copy' = keys
      /\ deleter' = [deleter EXCEPT !.pc = "find"]
      /\ UNCHANGED <<pullIns, keys, usePorts, camera, pull, handler>>
  BY DEF GetAllKey
<1>2. deleter \in DeleterType
  BY DEF IInv, TypeOK, DeleterType
<1>3. deleter' \in DeleterType /\ deleter'.pc = "find"
  BY <1>1, <1>2 DEF DeleterType
<1>4. TypeOK'
  BY <1>1, <1>3 DEF IInv, TypeOK, DeleterType
<1>5. Lives' /\ Held' /\ LiveIsMapped' /\ PortsUsed'
  BY <1>1 DEF IInv, Lives, Life, Held, LiveIsMapped, PortsUsed, PortsAreDistinct
<1>6. MapSound' /\ DeleterAt'
  BY <1>1, <1>3 DEF IInv, MapSound, DeleterAt
<1>7. QED BY <1>4, <1>5, <1>6 DEF IInv

(* The next key: the camera under it has given up, or the key is passed.  A
   camera that gave up and is in the map was not freed: its entry would be gone. *)
LEMMA FindFailedStep ==
  ASSUME IInv, FindFailed
  PROVE  IInv'
<1> DEFINE c == pullIns[Head(copy)]
<1>1. /\ deleter.pc = "find"
      /\ UNCHANGED <<pullIns, keys, usePorts, camera, pull, handler>>
  BY DEF FindFailed
<1>2. /\ deleter \in DeleterType /\ copy \in Seq(Tags)
      /\ pullIns \in [Tags -> Cameras \cup {None}]
  BY DEF IInv, TypeOK, DeleterType
<1>3. Lives' /\ Held' /\ LiveIsMapped' /\ PortsUsed'
  BY <1>1 DEF IInv, Lives, Life, Held, LiveIsMapped, PortsUsed, PortsAreDistinct
<1>4. CASE copy = <<>>
  <2>1. deleter' = [deleter EXCEPT !.pc = "sleep"] /\ copy' = copy
    BY <1>4 DEF FindFailed
  <2>2. deleter' \in DeleterType /\ deleter'.pc = "sleep"
    BY <1>2, <2>1 DEF DeleterType
  <2>3. TypeOK' /\ MapSound' /\ DeleterAt'
    BY <1>1, <2>1, <2>2 DEF IInv, TypeOK, DeleterType, MapSound, DeleterAt
  <2>4. QED BY <1>3, <2>3 DEF IInv
<1>5. CASE copy # <<>> /\ c # None /\ camera[c].connectFail
  <2>1. deleter' = [deleter EXCEPT !.pc = "delete"] /\ copy' = copy
    BY <1>5 DEF FindFailed
  <2>2. Head(copy) \in Tags /\ c \in Cameras
    BY <1>2, <1>5
  <2>3. camera[c].state = "live"
    <3>1. camera[c].state \in {"unused", "live", "freed"}
      BY <2>2 DEF IInv, TypeOK
    <3>2. QED BY <1>1, <1>5, <2>2, <3>1 DEF IInv, MapSound
  <2>4. deleter' \in DeleterType /\ deleter'.pc = "delete"
    BY <1>2, <2>1 DEF DeleterType
  <2>5. TypeOK'
    BY <1>1, <2>1, <2>4 DEF IInv, TypeOK, DeleterType
  <2>6. MapSound'
    BY <1>1 DEF IInv, MapSound
  <2>7. DeleterAt'
    BY <1>1, <1>5, <2>1, <2>2, <2>3, <2>4 DEF DeleterAt
  <2>8. QED BY <1>3, <2>5, <2>6, <2>7 DEF IInv
<1>6. CASE copy # <<>> /\ ~(c # None /\ camera[c].connectFail)
  <2>1. copy' = Tail(copy) /\ deleter' = deleter
    BY <1>6 DEF FindFailed
  <2>2. copy' \in Seq(Tags)
    BY <1>2, <1>6, <2>1
  <2>3. TypeOK' /\ MapSound' /\ DeleterAt'
    BY <1>1, <2>1, <2>2 DEF IInv, TypeOK, MapSound, DeleterAt
  <2>4. QED BY <1>3, <2>3 DEF IInv
<1>7. QED BY <1>4, <1>5, <1>6

(* Delete's own lookup finds the camera that was found to have given up: what is
   in the map under a key stays there until this thread erases it. *)
LEMMA DeleteFindStep ==
  ASSUME IInv, DeleteFind
  PROVE  IInv'
<1> DEFINE c == pullIns[Head(copy)]
<1>1. /\ deleter.pc = "delete" /\ copy # <<>>
      /\ c \in Cameras /\ camera[c].connectFail /\ camera[c].state = "live"
  BY DEF DeleteFind, IInv, DeleterAt
<1>2. /\ deleter' = [pc |-> "waitClose", obj |-> c]
      /\ UNCHANGED <<pullIns, keys, usePorts, camera, pull, handler, copy>>
  BY <1>1, CameraManageAssumption DEF DeleteFind
<1>3. deleter' \in DeleterType /\ deleter'.pc = "waitClose" /\ deleter'.obj = c
  BY <1>1, <1>2 DEF DeleterType
<1>4. TypeOK'
  BY <1>2, <1>3 DEF IInv, TypeOK, DeleterType
<1>5. Lives' /\ Held' /\ LiveIsMapped' /\ PortsUsed'
  BY <1>2 DEF IInv, Lives, Life, Held, LiveIsMapped, PortsUsed, PortsAreDistinct
<1>6. MapSound'
  BY <1>1, <1>2 DEF IInv, MapSound
<1>7. DeleterAt'
  BY <1>1, <1>2, <1>3 DEF DeleterAt
<1>8. QED BY <1>4, <1>5, <1>6, <1>7 DEF IInv

(* The camera is asked to quit, or freed: what the two steps have in common. *)
DeleterOnly(c) ==
  /\ camera' \in [Cameras -> CameraType]
  /\ \A d \in Cameras : d # c => camera'[d] = camera[d]
  /\ camera'[c].tag = camera[c].tag
  /\ camera'[c].listenPort = camera[c].listenPort
  /\ camera'[c].connectFail = camera[c].connectFail
  /\ camera'[c].state \in {"live", "freed"}
  /\ camera'[c].state = "freed" => deleter'.pc = "erase" /\ deleter'.obj = c
  /\ deleter' \in DeleterType
  /\ UNCHANGED <<pullIns, keys, usePorts, pull, handler, copy>>

(* They keep the rest. *)
LEMMA DeleterOnlyKeeps ==
  ASSUME IInv, NEW c \in Cameras, camera[c].state = "live", camera[c].connectFail,
         deleter.pc # "erase", DeleterOnly(c), Life(c)'
  PROVE  TypeOK' /\ Lives' /\ Held' /\ MapSound' /\ LiveIsMapped' /\ PortsUsed'
<1>1. TypeOK'
  BY DEF IInv, DeleterOnly, TypeOK, CameraType, DeleterType
<1>2. Lives'
  <2>1. /\ \A d \in Cameras : d # c => camera'[d] = camera[d]
        /\ pull' = pull
        /\ \A d \in Cameras : Life(d)
    BY DEF IInv, DeleterOnly, Lives
  <2>2. \A d \in Cameras : d # c => Life(d)'
    BY <2>1 DEF Life
  <2>3. \A d \in Cameras : d = c => Life(d)'
    OBVIOUS
  <2>4. QED BY <2>2, <2>3 DEF Lives
<1>3. pull[c] # "none" /\ camera[c] # Unused
  BY DEF IInv, Lives, Life, Unused
<1>4. Held'
  BY <1>3 DEF IInv, DeleterOnly, Held
<1>5. /\ \A t \in Tags : pullIns[t] # None => pullIns[t] \in Cameras
      /\ pullIns' = pullIns
  BY DEF IInv, TypeOK, DeleterOnly
<1>6. \A d \in Cameras :
        /\ camera[d].state # "unused" => camera'[d].state # "unused"
        /\ camera'[d].tag = camera[d].tag
        /\ camera'[d].state = "freed" =>
             camera[d].state = "freed" \/ (deleter'.pc = "erase" /\ deleter'.obj = d)
        /\ camera'[d].state = "live" => camera[d].state = "live"
  BY DEF DeleterOnly
<1>7. MapSound'
  BY <1>5, <1>6 DEF IInv, MapSound
<1>8. LiveIsMapped'
  BY <1>6 DEF IInv, DeleterOnly, LiveIsMapped
<1>9. PortsUsed'
  BY DEF IInv, DeleterOnly, PortsUsed, PortsAreDistinct
<1>10. QED BY <1>1, <1>2, <1>4, <1>7, <1>8, <1>9

(* The camera is asked to quit: it has given up before. *)
LEMMA AskPullStep ==
  ASSUME IInv, AskPull
  PROVE  IInv'
<1>1. PICK c \in Cameras : c = deleter.obj
  BY DEF AskPull, IInv, DeleterAt
<1>2. /\ deleter.pc = "waitClose" /\ copy # <<>> /\ pullIns[Head(copy)] = c
      /\ camera[c].state = "live" /\ camera[c].connectFail
      /\ camera' = [camera EXCEPT ![c].isQuit = TRUE]
      /\ deleter' = [deleter EXCEPT !.pc = "waiting"]
      /\ UNCHANGED <<pullIns, keys, usePorts, pull, handler, copy>>
  BY <1>1 DEF AskPull, IInv, DeleterAt
<1>3. /\ camera \in [Cameras -> CameraType] /\ deleter \in DeleterType /\ Life(c)
  BY DEF IInv, TypeOK, CameraType, DeleterType, Lives
<1>4. /\ deleter' \in DeleterType /\ deleter'.pc = "waiting" /\ deleter'.obj = c
  BY <1>1, <1>2, <1>3 DEF DeleterType
<1>5. DeleterOnly(c)
  <2>1. /\ camera' \in [Cameras -> CameraType]
        /\ \A d \in Cameras : d # c => camera'[d] = camera[d]
        /\ camera'[c].tag = camera[c].tag
        /\ camera'[c].listenPort = camera[c].listenPort
        /\ camera'[c].connectFail = camera[c].connectFail
        /\ camera'[c].state = "live"
    <3>1. /\ camera'[c] = [camera[c] EXCEPT !.isQuit = TRUE]
          /\ camera[c] \in CameraType
          /\ \A d \in Cameras : d # c => camera'[d] = camera[d]
      BY <1>2, <1>3
    <3>2. camera'[c] \in CameraType
      BY <3>1 DEF CameraType
    <3>3. camera' \in [Cameras -> CameraType]
      BY <1>2, <1>3, <3>2
    <3>4. QED BY <1>2, <3>1, <3>3 DEF CameraType
  <2>2. QED BY <1>2, <1>4, <2>1 DEF DeleterOnly
<1>6. Life(c)'
  BY <1>2, <1>3 DEF Life, CameraType
<1>7. camera'[c].state = "live"
  BY <1>2, <1>3 DEF CameraType
<1>8. DeleterAt'
  BY <1>2, <1>4, <1>5, <1>7 DEF DeleterAt, DeleterOnly
<1>9. QED BY <1>2, <1>5, <1>6, <1>8, DeleterOnlyKeeps DEF IInv

(* The camera is freed: its thread has ended before. *)
LEMMA DeleteCameraStep ==
  ASSUME IInv, DeleteCamera
  PROVE  IInv'
<1>1. PICK c \in Cameras : c = deleter.obj
  BY DEF DeleteCamera, IInv, DeleterAt
<1>2. /\ deleter.pc = "waiting" /\ copy # <<>> /\ pullIns[Head(copy)] = c
      /\ camera[c].state = "live" /\ camera[c].connectFail /\ camera[c].closed
      /\ camera' = [camera EXCEPT ![c].state = "freed"]
      /\ deleter' = [deleter EXCEPT !.pc = "erase"]
      /\ UNCHANGED <<pullIns, keys, usePorts, pull, handler, copy>>
  BY <1>1 DEF DeleteCamera, IInv, DeleterAt
<1>3. /\ camera \in [Cameras -> CameraType] /\ deleter \in DeleterType /\ Life(c)
  BY DEF IInv, TypeOK, CameraType, DeleterType, Lives
<1>4. /\ deleter' \in DeleterType /\ deleter'.pc = "erase" /\ deleter'.obj = c
  BY <1>1, <1>2, <1>3 DEF DeleterType
<1>5. DeleterOnly(c)
  <2>1. /\ camera' \in [Cameras -> CameraType]
        /\ \A d \in Cameras : d # c => camera'[d] = camera[d]
        /\ camera'[c].tag = camera[c].tag
        /\ camera'[c].listenPort = camera[c].listenPort
        /\ camera'[c].connectFail = camera[c].connectFail
        /\ camera'[c].state = "freed"
    <3>1. /\ camera'[c] = [camera[c] EXCEPT !.state = "freed"]
          /\ camera[c] \in CameraType
          /\ \A d \in Cameras : d # c => camera'[d] = camera[d]
      BY <1>2, <1>3
    <3>2. camera'[c] \in CameraType
      BY <3>1 DEF CameraType
    <3>3. camera' \in [Cameras -> CameraType]
      BY <1>2, <1>3, <3>2
    <3>4. QED BY <1>2, <3>1, <3>3 DEF CameraType
  <2>2. QED BY <1>2, <1>4, <2>1 DEF DeleterOnly
<1>6. Life(c)'
  BY <1>2, <1>3 DEF Life, CameraType
<1>7. camera'[c].state = "freed"
  BY <1>2, <1>3 DEF CameraType
<1>8. DeleterAt'
  BY <1>2, <1>4, <1>5, <1>7 DEF DeleterAt, DeleterOnly
<1>9. QED BY <1>2, <1>5, <1>6, <1>8, DeleterOnlyKeeps DEF IInv

(* The entry goes out of the map; the camera under it was freed. *)
LEMMA EraseFromMapStep ==
  ASSUME IInv, EraseFromMap
  PROVE  IInv'
<1>1. PICK t \in Tags : t = Head(copy)
  BY DEF EraseFromMap, IInv, TypeOK, DeleterAt
<1>2. /\ deleter.pc = "erase" /\ copy # <<>> /\ pullIns[t] = deleter.obj
      /\ deleter.obj \in Cameras
      /\ camera[deleter.obj].state = "freed" /\ camera[deleter.obj].connectFail
      /\ pullIns' = [pullIns EXCEPT ![t] = None]
      /\ deleter' = [deleter EXCEPT !.pc = "eraseKeys"]
      /\ UNCHANGED <<keys, usePorts, camera, pull, handler, copy>>
  BY <1>1 DEF EraseFromMap, IInv, DeleterAt
<1>3. /\ pullIns \in [Tags -> Cameras \cup {None}] /\ deleter \in DeleterType
      /\ None \notin Cameras
  BY CameraManageAssumption DEF IInv, TypeOK, DeleterType
<1>4. /\ deleter' \in DeleterType /\ deleter'.pc = "eraseKeys"
      /\ pullIns' \in [Tags -> Cameras \cup {None}] /\ pullIns'[t] = None
      /\ \A u \in Tags : u # t => pullIns'[u] = pullIns[u]
  BY <1>2, <1>3 DEF DeleterType
<1>5. TypeOK'
  BY <1>2, <1>4 DEF IInv, TypeOK, DeleterType
<1>6. Lives' /\ PortsUsed'
  BY <1>2 DEF IInv, Lives, Life, PortsUsed, PortsAreDistinct
<1>7. Held'
  <2>1. handler.pc \in {"pushKey", "start"} => handler.tag # t
    BY <1>2 DEF IInv, Held
  <2>2. QED BY <1>2, <1>3, <1>4, <2>1 DEF IInv, Held
<1>8. MapSound'
  BY <1>2, <1>3, <1>4 DEF IInv, MapSound
<1>9. DeleterAt'
  BY <1>2, <1>4 DEF DeleterAt
<1>10. LiveIsMapped'
  BY <1>2, <1>4 DEF IInv, LiveIsMapped
<1>11. QED BY <1>5, <1>6, <1>7, <1>8, <1>9, <1>10 DEF IInv

(* The keys of the tag go out of the list. *)
LEMMA EraseKeysStep ==
  ASSUME IInv, EraseKeys
  PROVE  IInv'
<1>1. /\ deleter.pc = "eraseKeys" /\ copy # <<>>
      /\ keys' = Without(keys, Head(copy)) /\ copy' = Tail(copy)
      /\ deleter' = [pc |-> "find", obj |-> None]
      /\ UNCHANGED <<pullIns, usePorts, camera, pull, handler>>
  BY DEF EraseKeys, IInv, DeleterAt
<1>2. keys \in Seq(Tags) /\ copy \in Seq(Tags)
  BY DEF IInv, TypeOK
<1>3. keys' \in Seq(Tags)
  BY <1>1, <1>2, WithoutKeeps
<1>4. copy' \in Seq(Tags)
  BY <1>1, <1>2
<1>5. TypeOK'
  BY <1>1, <1>3, <1>4 DEF IInv, TypeOK
<1>6. Lives' /\ Held' /\ LiveIsMapped' /\ PortsUsed'
  BY <1>1 DEF IInv, Lives, Life, Held, LiveIsMapped, PortsUsed, PortsAreDistinct
<1>7. MapSound' /\ DeleterAt'
  BY <1>1 DEF IInv, MapSound, DeleterAt
<1>8. QED BY <1>5, <1>6, <1>7 DEF IInv
-----------------------------------------------------------------------------
(* IInv is inductive. *)
LEMMA IInvStep == IInv /\ [Next]_vars => IInv'
<1> SUFFICES ASSUME IInv, [Next]_vars PROVE IInv'
  OBVIOUS
<1>1. ASSUME NEW t \in Tags, NEW isPush \in BOOLEAN, AddFind(t, isPush) PROVE IInv'
  BY <1>1, AddFindStep
<1>2. CASE AddPullNew
  <2>1. usePorts \in SUBSET (Ports \cup {0})
    BY DEF IInv, TypeOK
  <2>2. QED BY <1>2, <2>1, NewCameraStep DEF AddPullNew
<1>3. ASSUME NEW tables \in [Ports -> TcpTables], AddPushNew(tables) PROVE IInv'
  <2> DEFINE port == FreePort(tables)
  <2>1. usePorts \in SUBSET (Ports \cup {0})
    BY DEF IInv, TypeOK
  <2>2. port \in Ports \cup {0} /\ (port # 0 => port \notin usePorts)
    BY FreePortIsFree
  <2>3. /\ handler.pc = "new" /\ NewCamera(port) /\ usePorts' = usePorts \cup {port}
        /\ UNCHANGED <<pullIns, keys, pull, deleterVars>>
    BY <1>3 DEF AddPushNew
  <2> HIDE DEF port
  <2>4. /\ port # 0 => port \notin usePorts /\ port \in usePorts'
        /\ usePorts' \in SUBSET (Ports \cup {0}) /\ usePorts \subseteq usePorts'
    BY <2>1, <2>2, <2>3
  <2>5. QED BY <2>2, <2>3, <2>4, NewCameraStep
<1>4. CASE AddInsert
  BY <1>4, AddInsertStep
<1>5. CASE AddKey
  BY <1>5, AddKeyStep
<1>6. CASE StartPullThread
  BY <1>6, StartPullThreadStep
<1>7. ASSUME NEW c \in Cameras, PullThread(c) PROVE IInv'
  BY <1>7, PullThreadStep
<1>8. CASE Deleter
  BY <1>8, GetAllKeyStep, FindFailedStep, DeleteFindStep, AskPullStep,
     DeleteCameraStep, EraseFromMapStep, EraseKeysStep
  DEF Deleter
<1>9. CASE UNCHANGED vars
  BY <1>9 DEF vars, deleterVars, IInv, TypeOK, Lives, Life, Held, MapSound,
              DeleterAt, LiveIsMapped, PortsUsed, PortsAreDistinct
<1>10. QED
  BY <1>1, <1>2, <1>3, <1>4, <1>5, <1>6, <1>7, <1>8, <1>9 DEF Next, Handler, AddWork

(* It holds in every reachable state. *)
LEMMA IInvHolds == Spec => []IInv
  BY IInvInit, IInvStep, PTL DEF Spec

(* Every variable has its type; so every listenPort is 0 or a port of the
   range that GetFreePort searches. *)
THEOREM TypeCorrect == Spec => []TypeOK
<1>1. IInv => TypeOK
  BY DEF IInv
<1>2. QED BY <1>1, IInvHolds, PTL

(* No camera is freed while its pull thread may still use it. *)
THEOREM ThreadIsGone == Spec => []ThreadGoneFirst
<1>1. IInv => ThreadGoneFirst
  BY DEF IInv, Lives, Life, ThreadGoneFirst
<1>2. QED BY <1>1, IInvHolds, PTL

(* Only a camera that used up its tries is told to quit, or freed. *)
THEOREM OnlyFailed == Spec => []OnlyFailedAreDeleted
<1>1. IInv => OnlyFailedAreDeleted
  BY DEF IInv, Lives, Life, OnlyFailedAreDeleted
<1>2. QED BY <1>1, IInvHolds, PTL

(* A live camera can be found under its tag once Add has put it there. *)
THEOREM AllAreMapped == Spec => []LiveIsMapped
<1>1. IInv => LiveIsMapped
  BY DEF IInv
<1>2. QED BY <1>1, IInvHolds, PTL

(* No two live cameras have one tag. *)
THEOREM OnePerTag == Spec => []OneCameraPerTag
<1>1. ASSUME IInv PROVE OneCameraPerTag
  <2>1. SUFFICES ASSUME NEW c1 \in Cameras, NEW c2 \in Cameras,
                        camera[c1].state = "live", camera[c2].state = "live",
                        camera[c1].tag # None, camera[c1].tag = camera[c2].tag
                 PROVE  c1 = c2
    BY DEF OneCameraPerTag
  <2>2. \A c \in Cameras : camera[c].state = "live" /\ camera[c].tag # None =>
          pullIns[camera[c].tag] = c
    BY <1>1 DEF IInv, LiveIsMapped, Held, Lives, Life
  <2>3. QED BY <2>1, <2>2
<1>2. QED BY <1>1, IInvHolds, PTL

(* No port is ever given to two cameras, whatever the TCP tables say. *)
THEOREM PortsDiffer == Spec => []PortsAreDistinct
<1>1. IInv => PortsAreDistinct
  BY DEF IInv, PortsUsed
<1>2. QED BY <1>1, IInvHolds, PTL
-----------------------------------------------------------------------------
(* The refinement. *)

(* A step that changes at most the entry of one tag is a step of the
   directory, or none. *)
LEMMA OneEntryChanges ==
  ASSUME NEW t \in Tags,
         \A u \in Tags : u # t => StreamOf(u)' = StreamOf(u),
         \/ StreamOf(t)' = StreamOf(t)
         \/ StreamOf(t) = "absent" /\ StreamOf(t)' = "offered"
         \/ StreamOf(t) = "offered" /\ StreamOf(t)' = "over"
         \/ StreamOf(t) = "over" /\ StreamOf(t)' = "absent"
  PROVE  [Directory!Next]_Streams
  BY DEF Streams, Directory!Next, Directory!Offer, Directory!GiveUp, Directory!Withdraw,
         Directory!Becomes

(* A step that leaves the map and the failures of the cameras in it alone is
   not seen. *)
LEMMA NoEntryChanges ==
  ASSUME IInv, pullIns' = pullIns,
         \A t \in Tags : pullIns[t] # None =>
           camera'[pullIns[t]].connectFail = camera[pullIns[t]].connectFail
  PROVE  [Directory!Next]_Streams
<1>1. \A t \in Tags : StreamOf(t)' = StreamOf(t)
  BY DEF StreamOf
<1>2. QED BY <1>1 DEF Streams

(* A new camera is not in the map yet. *)
LEMMA NewCameraUnseen ==
  ASSUME IInv, NEW port, handler.pc = "new", NewCamera(port), pullIns' = pullIns
  PROVE  [Directory!Next]_Streams
<1> DEFINE c == CHOOSE d \in Cameras : camera[d] = Unused
<1>1. c \in Cameras /\ camera[c] = Unused
  BY DEF IInv, Held
<1>2. \A d \in Cameras : d # c => camera'[d] = camera[d]
  BY DEF NewCamera, IInv, TypeOK
<1>3. \A t \in Tags : pullIns[t] # None =>
        pullIns[t] \in Cameras /\ camera[pullIns[t]].state # "unused"
  BY DEF IInv, TypeOK, MapSound
<1>4. camera[c].state = "unused"
  BY <1>1 DEF Unused
<1>5. QED BY <1>2, <1>3, <1>4, NoEntryChanges

(* The directory sees AddInsert, the failure that a camera gives up after, and
   EraseFromMap. *)
LEMMA AddInsertOffers ==
  ASSUME IInv, AddInsert
  PROVE  [Directory!Next]_Streams
<1>1. PICK t \in Tags : t = handler.tag
  BY DEF AddInsert, IInv, Held
<1>2. PICK c \in Cameras : c = handler.obj
  BY DEF AddInsert, IInv, Held
<1>3. /\ pullIns[t] = None /\ ~camera[c].connectFail /\ c # None
      /\ pullIns' = [pullIns EXCEPT ![t] = c] /\ camera' = camera
  BY <1>1, <1>2, CameraManageAssumption DEF AddInsert, IInv, Held, Lives, Life
<1>4. pullIns'[t] = c /\ \A u \in Tags : u # t => pullIns'[u] = pullIns[u]
  BY <1>3 DEF IInv, TypeOK
<1>5. StreamOf(t) = "absent" /\ StreamOf(t)' = "offered"
  BY <1>3, <1>4 DEF StreamOf
<1>6. \A u \in Tags : u # t => StreamOf(u)' = StreamOf(u)
  BY <1>3, <1>4 DEF StreamOf
<1>7. QED BY <1>5, <1>6, OneEntryChanges

(* A pull thread gives up, or is not seen. *)
LEMMA PullThreadGivesUp ==
  ASSUME IInv, NEW c \in Cameras, PullThread(c)
  PROVE  [Directory!Next]_Streams
<1>1. /\ camera \in [Cameras -> CameraType] /\ pullIns' = pullIns
      /\ Life(c)
      /\ \A u \in Tags : pullIns[u] # None => pullIns[u] \in Cameras
  BY DEF IInv, TypeOK, CameraType, Lives, PullThread, PullLoop, ConnectSuccess,
         ConnectFailure, ReadFrame, ReadError, CloseNow
<1>2. CASE ConnectFailure(c) /\ camera[c].tryConnectCount > TryConnectCountMax
  <2>1. camera' = [camera EXCEPT ![c].connectFail = TRUE]
    BY <1>2 DEF ConnectFailure
  <2>2. /\ camera'[c].connectFail /\ ~camera[c].connectFail
        /\ \A d \in Cameras : d # c => camera'[d] = camera[d]
    BY <1>1, <1>2, <2>1 DEF ConnectFailure, Life, CameraType
  <2>3. CASE \E t \in Tags : pullIns[t] = c
    <3>1. PICK t \in Tags : pullIns[t] = c
      BY <2>3
    <3>2. \A u \in Tags : u # t => pullIns[u] # c
      BY <3>1, CameraManageAssumption DEF IInv, MapSound
    <3>3. StreamOf(t) = "offered" /\ StreamOf(t)' = "over"
      BY <1>1, <2>2, <3>1, CameraManageAssumption DEF StreamOf
    <3>4. \A u \in Tags : u # t => StreamOf(u)' = StreamOf(u)
      BY <1>1, <2>2, <3>2 DEF StreamOf
    <3>5. QED BY <3>3, <3>4, OneEntryChanges
  <2>4. CASE \A t \in Tags : pullIns[t] # c
    BY <1>1, <2>2, <2>4, NoEntryChanges
  <2>5. QED BY <2>3, <2>4
<1>3. CASE ~(ConnectFailure(c) /\ camera[c].tryConnectCount > TryConnectCountMax)
  <2>1. \A d \in Cameras : camera'[d].connectFail = camera[d].connectFail
    BY <1>1, <1>3 DEF PullThread, PullLoop, ConnectSuccess, ConnectFailure,
                      ReadFrame, ReadError, CloseNow, CameraType
  <2>2. QED BY <1>1, <2>1, NoEntryChanges
<1>4. QED BY <1>2, <1>3

(* The entry that is erased is of a camera that gave up. *)
LEMMA EraseFromMapWithdraws ==
  ASSUME IInv, EraseFromMap
  PROVE  [Directory!Next]_Streams
<1>1. PICK t \in Tags : t = Head(copy)
  BY DEF EraseFromMap, IInv, TypeOK, DeleterAt
<1>2. /\ pullIns[t] # None /\ camera[pullIns[t]].connectFail
      /\ pullIns' = [pullIns EXCEPT ![t] = None] /\ camera' = camera
  BY <1>1, CameraManageAssumption DEF EraseFromMap, IInv, DeleterAt
<1>3. pullIns'[t] = None /\ \A u \in Tags : u # t => pullIns'[u] = pullIns[u]
  BY <1>2 DEF IInv, TypeOK
<1>4. StreamOf(t) = "over" /\ StreamOf(t)' = "absent"
  BY <1>2, <1>3 DEF StreamOf
<1>5. \A u \in Tags : u # t => StreamOf(u)' = StreamOf(u)
  BY <1>2, <1>3 DEF StreamOf
<1>6. QED BY <1>4, <1>5, OneEntryChanges

(* The other steps of the deleting thread are not seen. *)
LEMMA DeleterUnseen ==
  ASSUME IInv,
         GetAllKey \/ FindFailed \/ DeleteFind \/ AskPull \/ DeleteCamera \/ EraseKeys
  PROVE  [Directory!Next]_Streams
<1>1. camera \in [Cameras -> CameraType] /\ pullIns' = pullIns
  BY DEF IInv, TypeOK, CameraType, GetAllKey, FindFailed, DeleteFind, AskPull,
         DeleteCamera, EraseKeys
<1>2. \A u \in Tags : pullIns[u] # None => pullIns[u] \in Cameras
  BY DEF IInv, TypeOK
<1>3. \A d \in Cameras : camera'[d].connectFail = camera[d].connectFail
  <2>1. CASE GetAllKey
    BY <2>1 DEF GetAllKey
  <2>2. CASE FindFailed
    BY <2>2 DEF FindFailed
  <2>3. CASE AskPull
    BY <1>1, <2>3 DEF AskPull, CameraType
  <2>4. CASE DeleteCamera
    BY <1>1, <2>4 DEF DeleteCamera, CameraType
  <2>5. CASE EraseKeys
    BY <2>5 DEF EraseKeys
  <2>6. CASE DeleteFind
    BY <2>6 DEF DeleteFind
  <2>7. QED BY <2>1, <2>2, <2>3, <2>4, <2>5, <2>6
<1>4. QED BY <1>1, <1>2, <1>3, NoEntryChanges

(* Every step is a step of the directory, or none. *)
LEMMA DirectoryStep ==
  ASSUME IInv, [Next]_vars
  PROVE  [Directory!Next]_Streams
<1>1. ASSUME NEW t \in Tags, NEW isPush \in BOOLEAN, AddFind(t, isPush)
      PROVE  [Directory!Next]_Streams
  BY <1>1, NoEntryChanges DEF AddFind
<1>2. CASE AddPullNew
  BY <1>2, NewCameraUnseen DEF AddPullNew
<1>3. ASSUME NEW tables \in [Ports -> TcpTables], AddPushNew(tables)
      PROVE  [Directory!Next]_Streams
  BY <1>3, NewCameraUnseen DEF AddPushNew
<1>4. CASE AddInsert
  BY <1>4, AddInsertOffers
<1>5. CASE AddKey
  BY <1>5, NoEntryChanges DEF AddKey
<1>6. CASE StartPullThread
  <2>1. \A d \in Cameras : camera'[d].connectFail = camera[d].connectFail
    BY <1>6 DEF StartPullThread, IInv, TypeOK
  <2>2. pullIns' = pullIns /\ \A u \in Tags : pullIns[u] # None => pullIns[u] \in Cameras
    BY <1>6 DEF StartPullThread, IInv, TypeOK
  <2>3. QED BY <2>1, <2>2, NoEntryChanges
<1>7. ASSUME NEW c \in Cameras, PullThread(c)
      PROVE  [Directory!Next]_Streams
  BY <1>7, PullThreadGivesUp
<1>8. CASE Deleter
  BY <1>8, DeleterUnseen, EraseFromMapWithdraws DEF Deleter
<1>9. CASE UNCHANGED vars
  BY <1>9, NoEntryChanges DEF vars
<1>10. QED
  BY <1>1, <1>2, <1>3, <1>4, <1>5, <1>6, <1>7, <1>8, <1>9 DEF Next, Handler, AddWork

(* The cameras implement the directory of streams: a tag's entry goes from
   none to a camera that has not given up, to one that has, to none, whatever
   the four kinds of threads do in between. *)
THEOREM CamerasRefine == Spec => ImplementsDirectory
<1>1. Init => Directory!Init
  BY DEF Init, Directory!Init, Streams, StreamOf
<1>2. IInv /\ [Next]_vars => [Directory!Next]_Streams
  BY DirectoryStep
<1>3. QED
  BY <1>1, <1>2, IInvHolds, PTL DEF Spec, ImplementsDirectory, Directory!Spec
=============================================================================
