---------------------------- MODULE ClientManage ----------------------------
(***************************************************************************)
(* The sessions of one camera (ClientManage): a map from session ids to    *)
(* Client objects, and the list allKeys that the cleaner goes through.     *)
(* allKeysLock protects the list, nothing protects the map or the objects. *)
(* Three threads use them:                                                 *)
(*   - the HTTP handler, which finds or adds the Client of a request and   *)
(*     answers it, and lists the clients (GetInfo);                        *)
(*   - the cleaner thread the constructor starts, which deletes clients    *)
(*     that have been idle too long and sleeps in between;                 *)
(*   - the thread that deletes the camera, once (~Camera calls ClearClient *)
(*     and then runs ~ClientManage).                                       *)
(* Each access of the map is one step, as if it were atomic; an access to  *)
(* an object through a pointer found earlier is a step of its own.         *)
(***************************************************************************)
EXTENDS KeyList

CONSTANTS
  Guids,           \* session ids
  Objects,         \* Client objects, never reused: bounds how many are made
  None,
  SessionTimeout,  \* seesionTimeout, 10 s
  MaxTime,         \* bound on the clock
  Destroys         \* TRUE when the camera may be deleted

ASSUME ClientManageAssumption ==
  /\ None \notin Guids \cup Objects
  /\ SessionTimeout \in Nat
  /\ MaxTime \in Nat
  /\ Destroys \in BOOLEAN

VARIABLES
  clients,      \* the map: guid -> object, None when there is no entry
  allKeys,
  allKeysLock,  \* held by the deleting thread over several steps, or free
  object,       \* of each Client: its state, clientName, lastActivityTime
  now,
  handler,      \* the HTTP thread: where it is, for which guid and object
  listing,      \* what is left of GetInfo's copy of allKeys
  cleaner,      \* the cleaner: where it is, with which object
  copy,         \* what is left of its copy of allKeys
  end,          \* the time it compares with
  deleter,      \* the deleting thread: where it is
  clearing,     \* what is left of ClearClient's loop
  deleteTheadGo

handlerVars == <<handler, listing>>
cleanerVars == <<cleaner, copy, end>>
deleterVars == <<deleter, clearing>>
vars == <<clients, allKeys, allKeysLock, object, now, handlerVars,
          cleanerVars, deleterVars, deleteTheadGo>>

Unused == [state |-> "unused", clientName |-> None, lastActivityTime |-> 0]

HandlerIdle == [pc |-> "idle", guid |-> None, obj |-> None]

Init ==
  /\ clients = [g \in Guids |-> None]
  /\ allKeys = <<>>
  /\ allKeysLock = "free"
  /\ object = [o \in Objects |-> Unused]
  /\ now = 0
  /\ handler = HandlerIdle
  /\ listing = <<>>
  /\ cleaner = [pc |-> "check", obj |-> None]
  /\ copy = <<>>
  /\ end = 0
  /\ deleter = "idle"
  /\ clearing = <<>>
  /\ deleteTheadGo = 0

Tick ==
  /\ now < MaxTime
  /\ now' = now + 1
  /\ UNCHANGED <<clients, allKeys, allKeysLock, object, handlerVars,
                 cleanerVars, deleterVars, deleteTheadGo>>

(* delete of a client, which may have been deleted before. *)
Deleted(o) ==
  [object EXCEPT ![o].state = IF @ = "live" THEN "freed" ELSE "twice"]
-----------------------------------------------------------------------------
(* The HTTP handler. *)

(* A playlist or segment request: GetClient.  (A segment request of an
   unknown session is answered 404 and changes nothing.) *)
GetClient(g) ==
  /\ handler.pc = "idle"
  /\ deleter # "destroyed"
  /\ clients[g] = None => \E o \in Objects : object[o] = Unused
  /\ handler' = IF clients[g] # None
                THEN [pc |-> "respond", guid |-> g, obj |-> clients[g]]
                ELSE [pc |-> "add", guid |-> g, obj |-> None]
  /\ UNCHANGED <<clients, allKeys, allKeysLock, object, now, listing,
                 cleanerVars, deleterVars, deleteTheadGo>>

(* new Client: which of the unused objects it is makes no difference. *)
NewObject == CHOOSE o \in Objects : object[o] = Unused

(* Mutant: the constructor does not set lastActivityTime. *)
AddToMapNoTime ==
  /\ handler.pc = "add"
  /\ object' = [object EXCEPT ![NewObject] =
       [state |-> "live", clientName |-> handler.guid, lastActivityTime |-> -1]]
  /\ clients' = [clients EXCEPT ![handler.guid] = NewObject]
  /\ handler' = [handler EXCEPT !.pc = "addKey", !.obj = NewObject]
  /\ UNCHANGED <<allKeys, allKeysLock, now, listing, cleanerVars, deleterVars,
                 deleteTheadGo>>

(* AddClient up to the lock: the new object is in the map. *)
AddToMap ==
  /\ handler.pc = "add"
  /\ object' = [object EXCEPT ![NewObject] =
       [state |-> "live", clientName |-> handler.guid, lastActivityTime |-> now]]
  /\ clients' = [clients EXCEPT ![handler.guid] = NewObject]
  /\ handler' = [handler EXCEPT !.pc = "addKey", !.obj = NewObject]
  /\ UNCHANGED <<allKeys, allKeysLock, now, listing, cleanerVars, deleterVars,
                 deleteTheadGo>>

(* Mutant: the key is not pushed. *)
AddNoKey ==
  /\ handler.pc = "addKey"
  /\ allKeysLock = "free"
  /\ handler' = [handler EXCEPT !.pc = "respond"]
  /\ UNCHANGED <<clients, allKeys, allKeysLock, object, now, listing,
                 cleanerVars, deleterVars, deleteTheadGo>>

(* The locked part of AddClient. *)
AddKey ==
  /\ handler.pc = "addKey"
  /\ allKeysLock = "free"
  /\ allKeys' = Append(allKeys, handler.guid)
  /\ handler' = [handler EXCEPT !.pc = "respond"]
  /\ UNCHANGED <<clients, allKeysLock, object, now, listing, cleanerVars,
                 deleterVars, deleteTheadGo>>

(* The end of ResponeM3u8 or ResponeTs. *)
Respond ==
  /\ handler.pc = "respond"
  /\ object' = [object EXCEPT ![handler.obj].lastActivityTime = now]
  /\ handler' = HandlerIdle
  /\ UNCHANGED <<clients, allKeys, allKeysLock, now, listing, cleanerVars,
                 deleterVars, deleteTheadGo>>

(* GetInfo: copy the keys under the lock, then find and read each client. *)
GetInfo ==
  /\ handler.pc = "idle"
  /\ deleter # "destroyed"
  /\ allKeysLock = "free"
  /\ listing' = allKeys
  /\ handler' = [HandlerIdle EXCEPT !.pc = "infoFind"]
  /\ UNCHANGED <<clients, allKeys, allKeysLock, object, now, cleanerVars,
                 deleterVars, deleteTheadGo>>

GetInfoFind ==
  /\ handler.pc = "infoFind"
  /\ IF listing = <<>>
     THEN handler' = HandlerIdle /\ UNCHANGED listing
     ELSE /\ listing' = Tail(listing)
          /\ handler' = IF clients[Head(listing)] = None
                        THEN handler
                        ELSE [pc |-> "infoRead", guid |-> Head(listing),
                              obj |-> clients[Head(listing)]]
  /\ UNCHANGED <<clients, allKeys, allKeysLock, object, now, cleanerVars,
                 deleterVars, deleteTheadGo>>

GetInfoRead ==
  /\ handler.pc = "infoRead"
  /\ handler' = [HandlerIdle EXCEPT !.pc = "infoFind"]
  /\ UNCHANGED <<clients, allKeys, allKeysLock, object, now, listing,
                 cleanerVars, deleterVars, deleteTheadGo>>

HandlerWork ==
  \/ AddToMap
  \/ AddKey
  \/ Respond
  \/ GetInfoFind
  \/ GetInfoRead

Handler == (\E g \in Guids : GetClient(g)) \/ GetInfo \/ HandlerWork
-----------------------------------------------------------------------------
(* The cleaner thread: while (deleteTheadGo == 0) { DeleteClient(); sleep } *)

(* The test of the loop, and the end of the thread. *)
CheckGo ==
  /\ cleaner.pc = "check"
  /\ IF deleteTheadGo = 0
     THEN cleaner' = [cleaner EXCEPT !.pc = "copy"] /\ UNCHANGED deleteTheadGo
     ELSE cleaner' = [cleaner EXCEPT !.pc = "exited"] /\ deleteTheadGo' = 2
  /\ UNCHANGED <<clients, allKeys, allKeysLock, object, now, handlerVars,
                 copy, end, deleterVars>>

CopyKeys ==
  /\ cleaner.pc = "copy"
  /\ allKeysLock = "free"
  /\ copy' = allKeys
  /\ cleaner' = [cleaner EXCEPT !.pc = "clock"]
  /\ UNCHANGED <<clients, allKeys, allKeysLock, object, now, handlerVars,
                 end, deleterVars, deleteTheadGo>>

ReadClock ==
  /\ cleaner.pc = "clock"
  /\ end' = now
  /\ cleaner' = [cleaner EXCEPT !.pc = "find"]
  /\ UNCHANGED <<clients, allKeys, allKeysLock, object, now, handlerVars,
                 copy, deleterVars, deleteTheadGo>>

Expired(o) == end - object[o].lastActivityTime > SessionTimeout

(* Mutant: the pass ends at the first client that has not expired. *)
FindExpiredBreak ==
  /\ cleaner.pc = "find"
  /\ IF copy # <<>> /\ clients[Head(copy)] # None /\ Expired(clients[Head(copy)])
     THEN cleaner' = [pc |-> "deleteKey", obj |-> clients[Head(copy)]]
     ELSE cleaner' = [cleaner EXCEPT !.pc = "sleep"]
  /\ UNCHANGED <<clients, allKeys, allKeysLock, object, now, handlerVars, copy,
                 end, deleterVars, deleteTheadGo>>

(* The next key: look its client up and at its last activity.  A pass is
   over when the copy is used up, and the thread sleeps. *)
FindExpired ==
  /\ cleaner.pc = "find"
  /\ IF copy = <<>>
     THEN cleaner' = [cleaner EXCEPT !.pc = "sleep"] /\ UNCHANGED copy
     ELSE LET o == clients[Head(copy)]
          IN  IF o # None /\ Expired(o)
              THEN cleaner' = [pc |-> "deleteKey", obj |-> o] /\ UNCHANGED copy
              ELSE copy' = Tail(copy) /\ UNCHANGED cleaner
  /\ UNCHANGED <<clients, allKeys, allKeysLock, object, now, handlerVars, end,
                 deleterVars, deleteTheadGo>>

(* Mutant: the key stays in the list. *)
DeteteNoKey ==
  /\ cleaner.pc = "deleteKey"
  /\ allKeysLock = "free"
  /\ cleaner' = [cleaner EXCEPT !.pc = "delete"]
  /\ UNCHANGED <<clients, allKeys, allKeysLock, object, now, handlerVars, copy,
                 end, deleterVars, deleteTheadGo>>

DeteteKey ==
  /\ cleaner.pc = "deleteKey"
  /\ allKeysLock = "free"
  /\ allKeys' = Without(allKeys, object[cleaner.obj].clientName)
  /\ cleaner' = [cleaner EXCEPT !.pc = "delete"]
  /\ UNCHANGED <<clients, allKeysLock, object, now, handlerVars, copy, end,
                 deleterVars, deleteTheadGo>>

(* Mutant: the client is taken out of the map but never deleted. *)
DeleteNoObject ==
  /\ cleaner.pc = "delete"
  /\ cleaner' = [cleaner EXCEPT !.pc = "erase"]
  /\ UNCHANGED <<clients, allKeys, allKeysLock, object, now, handlerVars, copy,
                 end, deleterVars, deleteTheadGo>>

DeleteObject ==
  /\ cleaner.pc = "delete"
  /\ object' = Deleted(cleaner.obj)
  /\ cleaner' = [cleaner EXCEPT !.pc = "erase"]
  /\ UNCHANGED <<clients, allKeys, allKeysLock, now, handlerVars, copy, end,
                 deleterVars, deleteTheadGo>>

(* Mutant: the entry of the deleted client stays in the map. *)
EraseNothing ==
  /\ cleaner.pc = "erase"
  /\ copy' = Tail(copy)
  /\ cleaner' = [pc |-> "find", obj |-> None]
  /\ UNCHANGED <<clients, allKeys, allKeysLock, object, now, handlerVars, end,
                 deleterVars, deleteTheadGo>>

EraseFromMap ==
  /\ cleaner.pc = "erase"
  /\ clients' = [clients EXCEPT ![Head(copy)] = None]
  /\ copy' = Tail(copy)
  /\ cleaner' = [pc |-> "find", obj |-> None]
  /\ UNCHANGED <<allKeys, allKeysLock, object, now, handlerVars, end,
                 deleterVars, deleteTheadGo>>

(* SleepMs(10000): any time may pass. *)
WakeUp ==
  /\ cleaner.pc = "sleep"
  /\ cleaner' = [cleaner EXCEPT !.pc = "check"]
  /\ UNCHANGED <<clients, allKeys, allKeysLock, object, now, handlerVars,
                 copy, end, deleterVars, deleteTheadGo>>

Cleaner ==
  \/ CheckGo
  \/ CopyKeys
  \/ ReadClock
  \/ FindExpired
  \/ DeteteKey
  \/ DeleteObject
  \/ EraseFromMap
  \/ WakeUp
-----------------------------------------------------------------------------
(* The thread that deletes the camera. *)

(* Mutant: the loop begins after the first key. *)
ClearBeginLate ==
  /\ Destroys
  /\ deleter = "idle"
  /\ allKeysLock = "free"
  /\ allKeysLock' = "deleter"
  /\ clearing' = IF allKeys = <<>> THEN <<>> ELSE Tail(allKeys)
  /\ deleter' = "clear"
  /\ UNCHANGED <<clients, allKeys, object, now, handlerVars, cleanerVars,
                 deleteTheadGo>>

(* ClearClient: the lock is held over the whole loop.  allKeys is not
   cleared. *)
ClearBegin ==
  /\ Destroys
  /\ deleter = "idle"
  /\ allKeysLock = "free"
  /\ allKeysLock' = "deleter"
  /\ clearing' = allKeys
  /\ deleter' = "clear"
  /\ UNCHANGED <<clients, allKeys, object, now, handlerVars, cleanerVars,
                 deleteTheadGo>>

ClearNext ==
  /\ deleter = "clear"
  /\ clearing # <<>>
  /\ LET o == clients[Head(clearing)]
     IN  object' = IF o = None THEN object ELSE Deleted(o)
  /\ clearing' = Tail(clearing)
  /\ UNCHANGED <<clients, allKeys, allKeysLock, now, handlerVars, cleanerVars,
                 deleter, deleteTheadGo>>

(* Mutant: the lock is not released. *)
ClearKeepsLock ==
  /\ deleter = "clear"
  /\ clearing = <<>>
  /\ clients' = [g \in Guids |-> None]
  /\ deleter' = "cleared"
  /\ UNCHANGED <<allKeys, allKeysLock, object, now, handlerVars, cleanerVars,
                 clearing, deleteTheadGo>>

ClearEnd ==
  /\ deleter = "clear"
  /\ clearing = <<>>
  /\ clients' = [g \in Guids |-> None]
  /\ allKeysLock' = "free"
  /\ deleter' = "cleared"
  /\ UNCHANGED <<allKeys, object, now, handlerVars, cleanerVars, clearing,
                 deleteTheadGo>>

(* ~ClientManage: ask the cleaner to stop, and wait until it has. *)
AskCleaner ==
  /\ deleter = "cleared"
  /\ deleteTheadGo' = 1
  /\ deleter' = "waiting"
  /\ UNCHANGED <<clients, allKeys, allKeysLock, object, now, handlerVars,
                 cleanerVars, clearing>>

(* Mutant: the destructor does not wait. *)
CleanerMaybeGone ==
  /\ deleter = "waiting"
  /\ deleter' = "destroyed"
  /\ UNCHANGED <<clients, allKeys, allKeysLock, object, now, handlerVars,
                 cleanerVars, clearing, deleteTheadGo>>

CleanerGone ==
  /\ deleter = "waiting"
  /\ deleteTheadGo = 2
  /\ deleter' = "destroyed"
  /\ UNCHANGED <<clients, allKeys, allKeysLock, object, now, handlerVars,
                 cleanerVars, clearing, deleteTheadGo>>

Deleter == ClearBegin \/ ClearNext \/ ClearEnd \/ AskCleaner \/ CleanerGone
-----------------------------------------------------------------------------
Next == Tick \/ Handler \/ Cleaner \/ Deleter

Spec == Init /\ [][Next]_vars

(* A thread that can take a step takes it; requests need not come, and the
   camera need not be deleted. *)
Fairness ==
  /\ WF_vars(HandlerWork)
  /\ WF_vars(Cleaner)
  /\ WF_vars(ClearNext \/ ClearEnd \/ AskCleaner \/ CleanerGone)

FairSpec == Spec /\ Fairness
-----------------------------------------------------------------------------
(* Every variable has its type. *)
TypeOK ==
  /\ clients \in [Guids -> Objects \cup {None}]
  /\ allKeys \in Seq(Guids)
  /\ allKeysLock \in {"free", "deleter"}
  /\ object \in [Objects -> [state : {"unused", "live", "freed", "twice"},
                             clientName : Guids \cup {None},
                             lastActivityTime : Nat]]
  /\ now \in Nat
  /\ handler \in [pc : {"idle", "add", "addKey", "respond",
                        "infoFind", "infoRead"},
                  guid : Guids \cup {None}, obj : Objects \cup {None}]
  /\ listing \in Seq(Guids)
  /\ cleaner \in [pc : {"check", "copy", "clock", "find", "deleteKey",
                        "delete", "erase", "sleep", "exited"},
                  obj : Objects \cup {None}]
  /\ copy \in Seq(Guids)
  /\ end \in Nat
  /\ deleter \in {"idle", "clear", "cleared", "waiting", "destroyed"}
  /\ clearing \in Seq(Guids)
  /\ deleteTheadGo \in {0, 1, 2}

(* The session that a thread has half added, or half removed. *)
Adding(g) == handler.pc = "addKey" /\ handler.guid = g
Removing(g) == cleaner.pc \in {"delete", "erase"} /\ Head(copy) = g

(* As long as the camera lives, the cleaner can see every client: a guid in
   the map is in allKeys too, once AddClient is through and until DeleteClient
   gets to it.  (The two are not changed together.) *)
ClientsAreListed ==
  deleter = "idle" =>
    \A g \in Guids : clients[g] # None =>
      Adding(g) \/ Removing(g) \/ \E i \in 1..Len(allKeys) : allKeys[i] = g

(* ... and exactly once, however often its session expired and came back. *)
KeysAreUnique ==
  deleter = "idle" =>
    \A i, j \in 1..Len(allKeys) : allKeys[i] = allKeys[j] => i = j

(* As long as the camera lives, a pointer in the map is the client of that
   guid and alive, but for the step between delete and erase. *)
MapHoldsLive ==
  deleter = "idle" =>
    \A g \in Guids : clients[g] # None =>
      \/ /\ object[clients[g]].state = "live"
         /\ object[clients[g]].clientName = g
      \/ cleaner.pc = "erase" /\ Head(copy) = g

(* ... and no client is lost: AddClient never overwrites an entry, and none is
   erased whose client was not deleted. *)
LiveIsMapped ==
  deleter = "idle" =>
    \A o \in Objects : object[o].state = "live" =>
      clients[object[o].clientName] = o

(* The fields are destroyed only once the cleaner does not use them any more:
   the handshake of deleteTheadGo. *)
CleanerGoneFirst == deleter = "destroyed" => cleaner.pc = "exited"

(* No client is deleted twice, except one that the cleaner has in its hands
   while the camera is being deleted: ClearClient goes through the keys, and
   each key once through the map. *)
DeletedOnce ==
  [][\A o \in Objects :
       object[o].state # "twice" /\ object'[o].state = "twice" =>
         deleter # "idle" /\ cleaner.obj = o]_vars

(* ClearClient leaves no client behind, except the one a request is just
   adding, whose key waits for the lock, and the one the cleaner is just
   deleting, whose key is gone already.  (The first is never deleted.) *)
ClearLeavesInFlight ==
  [][deleter = "clear" /\ deleter' = "cleared" =>
       \A o \in Objects : object[o].state = "live" =>
         \/ handler.pc = "addKey" /\ handler.obj = o
         \/ cleaner.pc = "delete" /\ cleaner.obj = o]_vars

(* A client that is idle for longer than seesionTimeout is deleted, unless it
   is used again in time. *)
Idle(o) == object[o].state = "live" /\ now - object[o].lastActivityTime > SessionTimeout

IdleIsDeleted ==
  \A o \in Objects :
    (Idle(o) /\ deleter = "idle") ~> (~Idle(o) \/ deleter # "idle")

(* What comments of the code say, and the code does not do: the cleaner
   deletes the dead clients (ClientManage.h:26), told by lastActivityTime, which
   is there to detect a timeout (Client.h:35).  So no client it deletes has
   been active within the timeout. *)
OnlyDeadAreDeleted ==
  [][\A o \in Objects :
       cleaner.pc = "delete" /\ cleaner.obj = o /\ cleaner'.pc = "erase" =>
         now - object[o].lastActivityTime > SessionTimeout]_vars
=============================================================================
