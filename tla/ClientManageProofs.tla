------------------------- MODULE ClientManageProofs -------------------------
(***************************************************************************)
(* Proofs about ClientManage for every set of session ids and of clients,  *)
(* every timeout and any time: the map, the list of keys and the clients   *)
(* stay in step as long as the camera lives, the cleaner is gone before    *)
(* the fields it uses are, and ClearClient deletes every client once but   *)
(* those in flight.                                                        *)
(***************************************************************************)
EXTENDS ClientManage, KeyListProofs

ObjectType == [state : {"unused", "live", "freed", "twice"},
               clientName : Guids \cup {None}, lastActivityTime : Nat]

Deleting == {"deleteKey", "delete", "erase"}

(* A thread that uses a client has one. *)
Holders ==
  /\ handler.pc \in {"add", "addKey"} => handler.guid \in Guids
  /\ handler.pc \in {"addKey", "respond", "infoRead"} => handler.obj \in Objects
  /\ handler.pc = "add" => \E o \in Objects : object[o] = Unused
  /\ cleaner.pc \in Deleting =>
       copy # <<>> /\ cleaner.obj \in Objects
  /\ cleaner.pc \in {"check", "copy", "sleep", "exited"} => copy = <<>>

(* What is in the map, or in the hands of the cleaner, was made, and what
   lives has the name of a session. *)
Made ==
  /\ \A o \in Objects : object[o].state = "live" => object[o].clientName \in Guids
  /\ \A g \in Guids :
       clients[g] # None => object[clients[g]].state # "unused"
  /\ cleaner.pc \in Deleting =>
       object[cleaner.obj].state # "unused"

(* The handshake of the destructor with the cleaner. *)
Handshake ==
  /\ deleter \in {"idle", "clear", "cleared"} => deleteTheadGo = 0
  /\ deleteTheadGo = 2 => cleaner.pc = "exited"
  /\ deleter = "destroyed" => deleteTheadGo = 2

Listed(g) == InList(allKeys, g)

(* While the camera lives: every key is of a client in the map, until
   DeleteClient gets to it, ... *)
KeysAreMapped ==
  deleter = "idle" => \A g \in Guids : Listed(g) => clients[g] # None

(* ... the cleaner's copy holds keys that are still there, each once, ... *)
CopyIsListed ==
  deleter = "idle" =>
    /\ NoneTwice(copy)
    /\ \A g \in Guids : InList(copy, g) => Listed(g) \/ Removing(g)

(* ... the client it is about to delete is the one under the key it is at, and
   is not alive any more when it has been deleted, ... *)
CleanerAtHead ==
  deleter = "idle" /\ cleaner.pc \in Deleting =>
    /\ clients[Head(copy)] = cleaner.obj
    /\ cleaner.pc \in {"delete", "erase"} => ~Listed(Head(copy))
    /\ cleaner.pc = "erase" => object[cleaner.obj].state # "live"

(* ... and a session that is being added is known to nobody else. *)
AddingIsNew ==
  deleter = "idle" =>
    /\ handler.pc = "add" => clients[handler.guid] = None
    /\ handler.pc = "addKey" =>
         /\ clients[handler.guid] = handler.obj
         /\ ~Listed(handler.guid) /\ ~InList(copy, handler.guid)

InStep ==
  /\ ClientsAreListed
  /\ KeysAreUnique
  /\ MapHoldsLive
  /\ LiveIsMapped

Steady ==
  /\ KeysAreMapped
  /\ CopyIsListed
  /\ CleanerAtHead
  /\ AddingIsNew
  /\ InStep

IInv ==
  /\ TypeOK
  /\ Holders
  /\ Made
  /\ Handshake
  /\ Steady
-----------------------------------------------------------------------------
(* Types, and the threads. *)

Threads == TypeOK /\ Holders /\ Made /\ Handshake

(* At the start no thread holds anything. *)
LEMMA ThreadsInit == Init => Threads
  BY ClientManageAssumption
  DEF Init, Deleting, Threads, TypeOK, Holders, Made, Handshake, HandlerIdle, Unused

(* An object that is used has another state than Unused. *)
LEMMA NewObjectIsUnused ==
  ASSUME \E o \in Objects : object[o] = Unused
  PROVE  NewObject \in Objects /\ object[NewObject] = Unused
  BY DEF NewObject

(* What delete does to the clients. *)
LEMMA DeletedKeeps ==
  ASSUME object \in [Objects -> ObjectType], NEW p \in Objects,
         object[p].state # "unused"
  PROVE  /\ Deleted(p) \in [Objects -> ObjectType]
         /\ Deleted(p)[p].state \in {"freed", "twice"}
         /\ \A o \in Objects :
              /\ o # p => Deleted(p)[o] = object[o]
              /\ Deleted(p)[o].clientName = object[o].clientName
              /\ Deleted(p)[o].state = "live" => object[o].state = "live"
              /\ Deleted(p)[o].state = "unused" <=> object[o].state = "unused"
              /\ object[o] = Unused => Deleted(p)[o] = Unused
  BY DEF Deleted, Unused, ObjectType

(* A step that deletes a client takes nothing from the threads. *)
LEMMA DeletingKeepsMade ==
  ASSUME TypeOK, Holders, Made, NEW p \in Objects,
         object[p].state # "unused", object' = Deleted(p),
         UNCHANGED <<clients, handler, copy>>,
         cleaner'.pc \in Deleting =>
           cleaner.pc \in Deleting,
         cleaner'.obj = cleaner.obj
  PROVE  /\ object' \in [Objects -> ObjectType]
         /\ handler.pc = "add" => \E o \in Objects : object'[o] = Unused
         /\ Made'
<1>1. object \in [Objects -> ObjectType]
  BY DEF TypeOK, ObjectType
<1>2. /\ object' \in [Objects -> ObjectType]
      /\ \A o \in Objects : object[o] = Unused => object'[o] = Unused
      /\ \A o \in Objects : object'[o].state = "unused" <=> object[o].state = "unused"
      /\ \A o \in Objects : object'[o].state = "live" =>
           object[o].state = "live" /\ object'[o].clientName = object[o].clientName
  BY <1>1, DeletedKeeps
<1>3. handler.pc = "add" => \E o \in Objects : object'[o] = Unused
  BY <1>2 DEF Holders
<1>4. \A g \in Guids : clients[g] # None => clients[g] \in Objects
  BY DEF TypeOK
<1>5. Made'
  BY <1>2, <1>4 DEF Made, Holders, Deleting
<1>6. QED BY <1>2, <1>3, <1>5

(* What an answer does to them. *)
LEMMA AnsweredKeeps ==
  ASSUME object \in [Objects -> ObjectType], now \in Nat, NEW p \in Objects
  PROVE  LET answered == [object EXCEPT ![p].lastActivityTime = now]
         IN  /\ answered \in [Objects -> ObjectType]
             /\ \A o \in Objects : /\ answered[o].state = object[o].state
                                  /\ answered[o].clientName = object[o].clientName
  BY DEF ObjectType

(* Every step keeps the types and what each thread has in its hands. *)
LEMMA ThreadsStep ==
  ASSUME Threads, [Next]_vars
  PROVE  Threads'
<1> USE ClientManageAssumption
    DEF Threads, Deleting, TypeOK, Holders, Made, Handshake, HandlerIdle, vars, handlerVars,
        cleanerVars, deleterVars
<1>1. CASE Tick
  BY <1>1 DEF Tick
<1>2. ASSUME NEW g \in Guids, GetClient(g) PROVE Threads'
  BY <1>2 DEF GetClient
<1>3. CASE GetInfo
  BY <1>3 DEF GetInfo
<1>4. CASE AddToMap
  <2>1. NewObject \in Objects /\ object[NewObject] = Unused
    BY <1>4, NewObjectIsUnused DEF AddToMap
  <2>2. QED BY <1>4, <2>1 DEF AddToMap
<1>5. CASE AddKey
  BY <1>5, AppendKeeps DEF AddKey
<1>6. CASE Respond
  <2>1. object \in [Objects -> ObjectType] /\ handler.obj \in Objects
    BY <1>6 DEF Respond, ObjectType
  <2>2. /\ object' \in [Objects -> ObjectType]
        /\ \A o \in Objects : /\ object'[o].state = object[o].state
                             /\ object'[o].clientName = object[o].clientName
    BY <1>6, <2>1, AnsweredKeeps DEF Respond
  <2>3. QED BY <1>6, <2>1, <2>2 DEF Respond, ObjectType
<1>7. CASE GetInfoFind
  <2>1. listing # <<>> => Tail(listing) \in Seq(Guids) /\ Head(listing) \in Guids
    BY TailKeeps
  <2>2. /\ listing' \in Seq(Guids)
        /\ handler'.pc \in {"idle", "infoFind", "infoRead"}
        /\ handler'.guid \in Guids \cup {None}
        /\ handler'.obj \in Objects \cup {None}
        /\ handler'.pc = "infoRead" => handler'.obj \in Objects
        /\ handler' = [pc |-> handler'.pc, guid |-> handler'.guid, obj |-> handler'.obj]
    <3>1. CASE listing = <<>>
      BY <1>7, <3>1 DEF GetInfoFind
    <3>2. CASE listing # <<>> /\ clients[Head(listing)] = None
      BY <1>7, <2>1, <3>2 DEF GetInfoFind
    <3>3. CASE listing # <<>> /\ clients[Head(listing)] # None
      <4>1. clients[Head(listing)] \in Objects
        BY <2>1, <3>3
      <4>2. /\ listing' = Tail(listing)
            /\ handler' = [pc |-> "infoRead", guid |-> Head(listing),
                           obj |-> clients[Head(listing)]]
        BY <1>7, <3>3 DEF GetInfoFind
      <4>3. QED BY <2>1, <3>3, <4>1, <4>2
    <3>4. QED BY <3>1, <3>2, <3>3
  <2>3. UNCHANGED <<clients, allKeys, allKeysLock, object, now, cleanerVars,
                    deleterVars, deleteTheadGo>>
    BY <1>7 DEF GetInfoFind
  <2>4. QED BY <2>2, <2>3
<1>8. CASE GetInfoRead
  BY <1>8 DEF GetInfoRead
<1>9. CASE CheckGo
  BY <1>9 DEF CheckGo
<1>10. CASE CopyKeys
  BY <1>10 DEF CopyKeys
<1>11. CASE ReadClock
  BY <1>11 DEF ReadClock
<1>12. CASE FindExpired
  <2>1. copy # <<>> => Tail(copy) \in Seq(Guids) /\ Head(copy) \in Guids
    BY TailKeeps
  <2>2. UNCHANGED <<clients, allKeys, allKeysLock, object, now, handlerVars,
                    end, deleterVars, deleteTheadGo>>
    BY <1>12 DEF FindExpired
  <2>3. CASE copy = <<>>
    <3>1. cleaner' = [cleaner EXCEPT !.pc = "sleep"] /\ UNCHANGED copy
      BY <1>12, <2>3 DEF FindExpired
    <3>2. QED BY <1>12, <2>2, <2>3, <3>1 DEF FindExpired
  <2> DEFINE o == clients[Head(copy)]
  <2>4. CASE copy # <<>> /\ o # None /\ Expired(o)
    <3>1. /\ cleaner' = [pc |-> "deleteKey", obj |-> o]
          /\ UNCHANGED copy
      BY <1>12, <2>4 DEF FindExpired
    <3>2. o \in Objects /\ object[o].state # "unused"
      BY <2>1, <2>4
    <3>3. QED BY <1>12, <2>2, <2>4, <3>1, <3>2 DEF FindExpired
  <2>5. CASE copy # <<>> /\ ~(o # None /\ Expired(o))
    <3>1. copy' = Tail(copy) /\ UNCHANGED cleaner
      BY <1>12, <2>5 DEF FindExpired
    <3>2. QED BY <1>12, <2>1, <2>2, <2>5, <3>1 DEF FindExpired
  <2>6. QED BY <2>3, <2>4, <2>5
<1>13. CASE DeteteKey
  <2>1. Without(allKeys, object[cleaner.obj].clientName) \in Seq(Guids)
    BY WithoutKeeps
  <2>2. QED BY <1>13, <2>1 DEF DeteteKey
<1>14. CASE DeleteObject
  <2>1. /\ object' \in [Objects -> ObjectType]
        /\ handler.pc = "add" => \E o \in Objects : object'[o] = Unused
        /\ Made'
    BY <1>14, DeletingKeepsMade DEF DeleteObject
  <2>2. TypeOK' /\ Handshake'
    BY <1>14, <2>1 DEF DeleteObject, ObjectType
  <2>3. Holders'
    BY <1>14, <2>1 DEF DeleteObject
  <2>4. QED BY <2>1, <2>2, <2>3
<1>15. CASE EraseFromMap
  BY <1>15 DEF EraseFromMap
<1>16. CASE WakeUp
  BY <1>16 DEF WakeUp
<1>17. CASE ClearBegin
  BY <1>17 DEF ClearBegin
<1>18. CASE ClearNext
  <2>1. Tail(clearing) \in Seq(Guids) /\ Head(clearing) \in Guids
    BY <1>18, TailKeeps DEF ClearNext
  <2>2. /\ clearing' \in Seq(Guids)
        /\ UNCHANGED <<clients, allKeys, allKeysLock, now, handlerVars,
                       cleanerVars, deleter, deleteTheadGo>>
    BY <1>18, <2>1 DEF ClearNext
  <2> DEFINE o == clients[Head(clearing)]
  <2>3. CASE o = None
    BY <1>18, <2>2, <2>3 DEF ClearNext
  <2>4. CASE o # None
    <3>1. o \in Objects /\ object[o].state # "unused"
      BY <2>1, <2>4
    <3>2. object' = Deleted(o)
      BY <1>18, <2>4 DEF ClearNext
    <3>3. /\ object' \in [Objects -> ObjectType]
          /\ handler.pc = "add" => \E p \in Objects : object'[p] = Unused
          /\ Made'
      BY <2>2, <3>1, <3>2, DeletingKeepsMade
    <3>4. TypeOK' /\ Handshake'
      BY <1>18, <2>2, <3>3 DEF ClearNext, ObjectType
    <3>5. Holders'
      BY <2>2, <3>3
    <3>6. QED BY <3>3, <3>4, <3>5
  <2>5. QED BY <2>3, <2>4
<1>19. CASE ClearEnd
  BY <1>19 DEF ClearEnd
<1>20. CASE AskCleaner
  BY <1>20 DEF AskCleaner
<1>21. CASE CleanerGone
  BY <1>21 DEF CleanerGone
<1>22. CASE UNCHANGED vars
  BY <1>22
<1>23. QED
  BY <1>1, <1>2, <1>3, <1>4, <1>5, <1>6, <1>7, <1>8, <1>9, <1>10, <1>11,
     <1>12, <1>13, <1>14, <1>15, <1>16, <1>17, <1>18, <1>19, <1>20, <1>21,
     <1>22
  DEF Next, Handler, HandlerWork, Cleaner, Deleter
-----------------------------------------------------------------------------
(* The map, the list and the clients. *)

(* At the start there is nothing to keep in step. *)
LEMMA SteadyInit == Init => Steady
  BY DEF Init, Deleting, Steady, KeysAreMapped, CopyIsListed, CleanerAtHead, AddingIsNew,
         InStep, ClientsAreListed, KeysAreUnique, MapHoldsLive, LiveIsMapped,
         HandlerIdle, Unused, InList, NoneTwice, Listed

(* What the types give, for the steps below. *)
Types ==
  /\ clients \in [Guids -> Objects \cup {None}]
  /\ allKeys \in Seq(Guids)
  /\ copy \in Seq(Guids)
  /\ object \in [Objects -> ObjectType]
  /\ cleaner \in [pc : {"check", "copy", "clock", "find", "deleteKey",
                        "delete", "erase", "sleep", "exited"},
                  obj : Objects \cup {None}]
  /\ None \notin Objects

(* The types that the next lemmas need. *)
LEMMA TypesHold == TypeOK => Types
  BY ClientManageAssumption DEF TypeOK, Types, ObjectType

(* A step that leaves the map, the list, the clients' states and names and the
   cleaner's place alone, and has nobody begin to add. *)
LEMMA SteadyIfUntouched ==
  ASSUME Types, Holders, Steady, deleter = "idle",
         UNCHANGED <<clients, allKeys, copy, deleter>>,
         cleaner' = cleaner \/ {cleaner.pc, cleaner'.pc} \cap Deleting = {},
         DOMAIN object' = DOMAIN object,
         \A o \in Objects : /\ object'[o].state = object[o].state
                           /\ object'[o].clientName = object[o].clientName,
         handler'.pc \in {"add", "addKey"} => handler' = handler,
         handler'.pc = handler.pc \/ handler.pc # "addKey"
  PROVE  Steady'
<1> USE DEF Steady, Types, Deleting, KeysAreMapped, CopyIsListed, CleanerAtHead, AddingIsNew,
            InStep, Adding, Removing, Listed
<1>1. KeysAreMapped' /\ CopyIsListed' /\ KeysAreUnique'
  BY DEF KeysAreUnique
<1>2. CleanerAtHead'
  BY DEF Holders
<1>3. AddingIsNew' /\ ClientsAreListed'
  BY DEF ClientsAreListed
<1>4. MapHoldsLive'
  BY DEF MapHoldsLive
<1>5. LiveIsMapped'
  BY DEF LiveIsMapped
<1>6. QED BY <1>1, <1>2, <1>3, <1>4, <1>5

(* A request that finds its session, or does not. *)
LEMMA GetClientStep ==
  ASSUME Types, Holders, Steady, deleter = "idle", NEW g \in Guids, GetClient(g)
  PROVE  Steady'
<1>1. handler.pc = "idle" /\ UNCHANGED <<clients, allKeys, object, cleaner, copy, deleter>>
  BY DEF GetClient, cleanerVars, deleterVars
<1>2. CASE clients[g] # None
  BY <1>1, <1>2, SteadyIfUntouched DEF GetClient
<1>3. CASE clients[g] = None
  <2>1. handler' = [pc |-> "add", guid |-> g, obj |-> None]
    BY <1>3 DEF GetClient
  <2>2. KeysAreMapped' /\ CopyIsListed' /\ CleanerAtHead' /\ KeysAreUnique'
        /\ MapHoldsLive' /\ LiveIsMapped'
    BY <1>1 DEF Steady, InStep, KeysAreMapped, CopyIsListed, CleanerAtHead,
                KeysAreUnique, MapHoldsLive, LiveIsMapped, Removing, Listed
  <2>3. AddingIsNew'
    BY <1>1, <1>3, <2>1 DEF AddingIsNew
  <2>4. ClientsAreListed'
    BY <1>1, <2>1 DEF Steady, InStep, ClientsAreListed, Adding, Removing
  <2>5. QED BY <2>2, <2>3, <2>4 DEF Steady, InStep
<1>4. QED BY <1>2, <1>3

(* The new client comes into the map, where there was none. *)
LEMMA AddToMapStep ==
  ASSUME Types, Holders, Made, Steady, deleter = "idle", AddToMap
  PROVE  Steady'
<1> DEFINE g == handler.guid
           n == NewObject
<1>1. /\ g \in Guids /\ clients[g] = None
      /\ n \in Objects /\ object[n].state = "unused" /\ n # None
  <2>1. handler.pc = "add" /\ \E o \in Objects : object[o] = Unused
    BY DEF AddToMap, Holders
  <2>2. n \in Objects /\ object[n] = Unused
    BY <2>1, NewObjectIsUnused
  <2>3. QED BY <2>1, <2>2 DEF Steady, AddingIsNew, Holders, Types, Unused
<1>2. /\ clients' = [clients EXCEPT ![g] = n]
      /\ object' = [object EXCEPT ![n] = [state |-> "live", clientName |-> g,
                                          lastActivityTime |-> now]]
      /\ handler.pc = "add"
      /\ handler'.pc = "addKey" /\ handler'.guid = g /\ handler'.obj = n
      /\ UNCHANGED <<allKeys, cleaner, copy, deleter>>
  <2>1. handler.pc = "add" /\ handler' = [handler EXCEPT !.pc = "addKey", !.obj = n]
    BY DEF AddToMap
  <2>2. QED BY <2>1 DEF AddToMap, cleanerVars, deleterVars
<1>3. /\ clients'[g] = n /\ object'[n].state = "live" /\ object'[n].clientName = g
      /\ \A h \in Guids : h # g => clients'[h] = clients[h]
      /\ \A o \in Objects : o # n => object'[o] = object[o]
  BY <1>1, <1>2 DEF Types
<1>4. ~Listed(g) /\ ~InList(copy, g)
  <2>1. ~Listed(g)
    BY <1>1 DEF Steady, KeysAreMapped
  <2>2. ~Removing(g)
    BY <1>1 DEF Steady, CleanerAtHead, Removing, Deleting, Holders, Types
  <2>3. QED BY <1>1, <2>1, <2>2 DEF Steady, CopyIsListed
<1>5. KeysAreMapped'
  BY <1>1, <1>2, <1>3 DEF Steady, KeysAreMapped, Listed
<1>6. CopyIsListed' /\ KeysAreUnique'
  BY <1>2 DEF Steady, CopyIsListed, InStep, KeysAreUnique, Removing, Listed
<1>7. CleanerAtHead'
  <2>1. SUFFICES ASSUME cleaner.pc \in Deleting
                 PROVE  /\ clients'[Head(copy)] = cleaner.obj
                        /\ object'[cleaner.obj] = object[cleaner.obj]
    BY <1>2 DEF Steady, CleanerAtHead, Listed
  <2>2. clients[Head(copy)] = cleaner.obj /\ cleaner.obj \in Objects
    BY <2>1 DEF Steady, CleanerAtHead, Holders
  <2>3. Head(copy) \in Guids
    BY <2>1, TailKeeps DEF Types, Holders
  <2>4. Head(copy) # g /\ cleaner.obj # n
    BY <1>1, <2>1, <2>2 DEF Types, Made
  <2>5. QED BY <1>3, <2>2, <2>3, <2>4
<1>8. AddingIsNew'
  BY <1>2, <1>3, <1>4 DEF AddingIsNew, Listed
<1>9. ClientsAreListed'
  BY <1>2, <1>3 DEF Steady, InStep, ClientsAreListed, Adding, Removing
<1>10. MapHoldsLive'
  <2>1. SUFFICES ASSUME NEW h \in Guids, h # g, clients[h] # None
                 PROVE  object'[clients[h]] = object[clients[h]]
    BY <1>1, <1>2, <1>3 DEF Steady, InStep, MapHoldsLive
  <2>2. clients[h] \in Objects /\ clients[h] # n
    BY <1>1, <2>1 DEF Types, Made
  <2>3. QED BY <1>3, <2>2
<1>11. LiveIsMapped'
  <2>1. SUFFICES ASSUME NEW o \in Objects, o # n, object[o].state = "live"
                 PROVE  clients'[object[o].clientName] = o
    BY <1>1, <1>2, <1>3 DEF LiveIsMapped
  <2>2. clients[object[o].clientName] = o /\ object[o].clientName \in Guids
    BY <2>1 DEF Steady, InStep, LiveIsMapped, Made
  <2>3. object[o].clientName # g
    BY <1>1, <2>2 DEF Types
  <2>4. QED BY <1>3, <2>2, <2>3
<1>12. QED
  BY <1>5, <1>6, <1>7, <1>8, <1>9, <1>10, <1>11 DEF Steady, InStep

(* Its key comes into the list. *)
LEMMA AddKeyStep ==
  ASSUME Types, Holders, Steady, deleter = "idle", AddKey
  PROVE  Steady'
<1> DEFINE g == handler.guid
<1>1. /\ handler.pc = "addKey" /\ handler'.pc = "respond"
      /\ UNCHANGED <<clients, object, cleaner, copy, deleter>>
  BY DEF AddKey, cleanerVars, deleterVars
<1>2. /\ g \in Guids /\ clients[g] = handler.obj /\ handler.obj \in Objects
      /\ ~Listed(g) /\ ~InList(copy, g)
  BY <1>1 DEF Steady, AddingIsNew, Holders
<1>3. /\ \A x : InList(allKeys', x) <=> InList(allKeys, x) \/ x = g
      /\ NoneTwice(allKeys) /\ ~InList(allKeys, g) => NoneTwice(allKeys')
  BY <1>2, AppendKeeps DEF AddKey, Types
<1>4. KeysAreMapped'
  BY <1>1, <1>2, <1>3 DEF Steady, KeysAreMapped, Listed, Types
<1>5. CopyIsListed'
  BY <1>1, <1>3 DEF Steady, CopyIsListed, Removing, Listed
<1>6. CleanerAtHead'
  <2>1. cleaner.pc \in Deleting => Head(copy) # g
    BY <1>2, TailKeeps DEF Types, Holders
  <2>2. QED BY <1>1, <1>3, <2>1 DEF Steady, CleanerAtHead, Listed, Deleting
<1>7. AddingIsNew'
  BY <1>1 DEF AddingIsNew
<1>8. ClientsAreListed'
  <2>1. \A h \in Guids : clients[h] # None => InList(allKeys', h) \/ Removing(h)
    BY <1>1, <1>3 DEF Steady, InStep, ClientsAreListed, Adding, InList
  <2>2. QED BY <1>1, <2>1 DEF ClientsAreListed, Removing, InList
<1>9. KeysAreUnique'
  BY <1>1, <1>2, <1>3 DEF Steady, InStep, KeysAreUnique, NoneTwice, Listed
<1>10. MapHoldsLive' /\ LiveIsMapped'
  BY <1>1 DEF Steady, InStep, MapHoldsLive, LiveIsMapped
<1>11. QED
  BY <1>4, <1>5, <1>6, <1>7, <1>8, <1>9, <1>10 DEF Steady, InStep

(* The copy is what the list is. *)
LEMMA CopyKeysStep ==
  ASSUME Types, Holders, Steady, deleter = "idle", CopyKeys
  PROVE  Steady'
<1>1. /\ cleaner.pc = "copy" /\ cleaner'.pc = "clock" /\ copy' = allKeys
      /\ UNCHANGED <<clients, allKeys, object, handler, deleter>>
  <2>1. cleaner.pc = "copy" /\ cleaner' = [cleaner EXCEPT !.pc = "clock"]
    BY DEF CopyKeys
  <2>2. QED BY <2>1 DEF CopyKeys, handlerVars, deleterVars
<1>2. KeysAreMapped' /\ KeysAreUnique' /\ LiveIsMapped'
  BY <1>1 DEF Steady, InStep, KeysAreMapped, KeysAreUnique, LiveIsMapped, Listed
<1>3. CopyIsListed'
  BY <1>1 DEF Steady, InStep, KeysAreUnique, CopyIsListed, NoneTwice, Listed
<1>4. CleanerAtHead'
  BY <1>1 DEF CleanerAtHead, Deleting
<1>5. AddingIsNew'
  BY <1>1 DEF Steady, AddingIsNew, Listed
<1>6. ClientsAreListed'
  BY <1>1 DEF Steady, InStep, ClientsAreListed, Adding, Removing
<1>7. MapHoldsLive'
  BY <1>1 DEF Steady, InStep, MapHoldsLive
<1>8. QED BY <1>2, <1>3, <1>4, <1>5, <1>6, <1>7 DEF Steady, InStep

(* The next key of the copy: its client has expired, or the key is passed. *)
LEMMA FindExpiredStep ==
  ASSUME Types, Holders, Steady, deleter = "idle", FindExpired
  PROVE  Steady'
<1>1. /\ cleaner.pc = "find"
      /\ UNCHANGED <<clients, allKeys, object, handler, deleter>>
  BY DEF FindExpired, handlerVars, deleterVars
<1>2. /\ cleaner'.pc \notin {"delete", "erase"}
      /\ copy' = copy \/ (copy # <<>> /\ copy' = Tail(copy))
      /\ cleaner'.pc = "deleteKey" =>
           /\ copy' = copy
           /\ clients[Head(copy)] = cleaner'.obj
  <2>1. CASE copy = <<>>
    <3>1. cleaner' = [cleaner EXCEPT !.pc = "sleep"] /\ copy' = copy
      BY <2>1 DEF FindExpired
    <3>2. cleaner'.pc = "sleep"
      BY <3>1 DEF Types
    <3>3. cleaner'.pc \notin {"delete", "erase", "deleteKey"}
      BY <3>2
    <3>4. QED BY <3>1, <3>3
  <2> DEFINE o == clients[Head(copy)]
  <2>2. CASE copy # <<>> /\ o # None /\ Expired(o)
    <3>1. cleaner' = [pc |-> "deleteKey", obj |-> o] /\ copy' = copy
      BY <2>2 DEF FindExpired
    <3>2. cleaner'.pc = "deleteKey" /\ cleaner'.obj = o
      BY <3>1
    <3>3. QED BY <3>1, <3>2
  <2>3. CASE copy # <<>> /\ ~(o # None /\ Expired(o))
    BY <1>1, <2>3 DEF FindExpired
  <2>4. QED BY <2>1, <2>2, <2>3
<1>3. /\ NoneTwice(copy) => NoneTwice(copy')
      /\ \A x : InList(copy', x) => InList(copy, x)
  BY <1>2, TailKeeps DEF Types
<1>4. KeysAreMapped' /\ KeysAreUnique' /\ LiveIsMapped'
  BY <1>1 DEF Steady, InStep, KeysAreMapped, KeysAreUnique, LiveIsMapped, Listed
<1>5. CopyIsListed'
  BY <1>1, <1>3 DEF Steady, CopyIsListed, Removing, Listed
<1>6. CleanerAtHead'
  BY <1>1, <1>2 DEF CleanerAtHead, Deleting
<1>7. AddingIsNew'
  BY <1>1, <1>3 DEF Steady, AddingIsNew, Listed
<1>8. ClientsAreListed'
  BY <1>1, <1>2 DEF Steady, InStep, ClientsAreListed, Adding, Removing
<1>9. MapHoldsLive'
  BY <1>1, <1>2 DEF Steady, InStep, MapHoldsLive
<1>10. QED BY <1>4, <1>5, <1>6, <1>7, <1>8, <1>9 DEF Steady, InStep

(* The name of the client that the cleaner is about to delete is the key it is
   at. *)
LEMMA HeadIsClient ==
  ASSUME Types, Holders, Steady, deleter = "idle", cleaner.pc \in {"deleteKey", "delete"}
  PROVE  /\ Head(copy) \in Guids /\ InList(copy, Head(copy))
         /\ clients[Head(copy)] = cleaner.obj
         /\ cleaner.obj \in Objects /\ cleaner.obj # None
         /\ object[cleaner.obj].state = "live"
         /\ object[cleaner.obj].clientName = Head(copy)
<1>1. copy # <<>> /\ cleaner.obj \in Objects /\ cleaner.obj # None
  BY DEF Holders, Deleting, Types
<1>2. Head(copy) \in Guids /\ InList(copy, Head(copy))
  BY <1>1, TailKeeps DEF Types
<1>3. clients[Head(copy)] = cleaner.obj
  BY DEF Steady, CleanerAtHead, Deleting
<1>4. QED BY <1>1, <1>2, <1>3 DEF Steady, InStep, MapHoldsLive

(* The key goes out of the list; the client is still in the map. *)
LEMMA DeteteKeyStep ==
  ASSUME Types, Holders, Steady, deleter = "idle", DeteteKey
  PROVE  Steady'
<1> DEFINE g == Head(copy)
<1>1. /\ cleaner.pc = "deleteKey"
      /\ UNCHANGED <<clients, object, handler, copy, deleter>>
  BY DEF DeteteKey, handlerVars, deleterVars
<1>2. cleaner'.pc = "delete" /\ cleaner'.obj = cleaner.obj
  BY DEF DeteteKey, Types
<1>3. /\ g \in Guids /\ clients[g] = cleaner.obj /\ cleaner.obj # None
      /\ object[cleaner.obj].clientName = g
  BY <1>1, HeadIsClient
<1>4. /\ \A x : InList(allKeys', x) <=> InList(allKeys, x) /\ x # g
      /\ NoneTwice(allKeys) => NoneTwice(allKeys')
  <2>1. allKeys' = Without(allKeys, g)
    BY <1>3 DEF DeteteKey
  <2>2. QED BY <2>1, WithoutKeeps DEF Types
<1>5. KeysAreMapped'
  BY <1>1, <1>4 DEF Steady, KeysAreMapped, Listed
<1>6. CopyIsListed'
  BY <1>1, <1>2, <1>4 DEF Steady, CopyIsListed, Removing, Listed
<1>7. CleanerAtHead'
  BY <1>1, <1>2, <1>3, <1>4 DEF CleanerAtHead, Listed
<1>8. AddingIsNew'
  BY <1>1, <1>4 DEF Steady, AddingIsNew, Listed
<1>9. ClientsAreListed'
  <2>1. \A h \in Guids : clients[h] # None /\ h # g => Adding(h) \/ InList(allKeys', h)
    BY <1>1, <1>4 DEF Steady, InStep, ClientsAreListed, Removing, InList
  <2>2. QED BY <1>1, <1>2, <2>1 DEF ClientsAreListed, Adding, Removing, InList
<1>10. KeysAreUnique'
  BY <1>1, <1>4 DEF Steady, InStep, KeysAreUnique, NoneTwice
<1>11. MapHoldsLive' /\ LiveIsMapped'
  BY <1>1, <1>2 DEF Steady, InStep, MapHoldsLive, LiveIsMapped
<1>12. QED
  BY <1>5, <1>6, <1>7, <1>8, <1>9, <1>10, <1>11 DEF Steady, InStep

(* The client is deleted; the map still points to it. *)
LEMMA DeleteObjectStep ==
  ASSUME Types, Holders, Steady, deleter = "idle", DeleteObject
  PROVE  Steady'
<1> DEFINE g == Head(copy)
           p == cleaner.obj
<1>1. /\ cleaner.pc = "delete" /\ object' = Deleted(p)
      /\ UNCHANGED <<clients, allKeys, handler, copy, deleter>>
  BY DEF DeleteObject, handlerVars, deleterVars
<1>2. cleaner'.pc = "erase" /\ cleaner'.obj = p
  BY DEF DeleteObject, Types
<1>3. /\ g \in Guids /\ clients[g] = p /\ p \in Objects /\ p # None
      /\ object[p].state = "live" /\ object[p].clientName = g
  BY <1>1, HeadIsClient
<1>4. /\ object'[p].state # "live"
      /\ \A o \in Objects : o # p => object'[o] = object[o]
  BY <1>1, <1>3, DeletedKeeps DEF Types
<1>5. KeysAreMapped' /\ KeysAreUnique'
  BY <1>1 DEF Steady, InStep, KeysAreMapped, KeysAreUnique, Listed
<1>6. CopyIsListed'
  BY <1>1, <1>2 DEF Steady, CopyIsListed, Removing, Listed
<1>7. CleanerAtHead'
  BY <1>1, <1>2, <1>4 DEF Steady, CleanerAtHead, Listed, Deleting
<1>8. AddingIsNew'
  BY <1>1 DEF Steady, AddingIsNew, Listed
<1>9. ClientsAreListed'
  BY <1>1, <1>2 DEF Steady, InStep, ClientsAreListed, Adding, Removing
<1>10. MapHoldsLive'
  <2>1. SUFFICES ASSUME NEW h \in Guids, clients[h] # None, h # g
                 PROVE  /\ object'[clients[h]].state = "live"
                        /\ object'[clients[h]].clientName = h
    BY <1>1, <1>2 DEF MapHoldsLive
  <2>2. object[clients[h]].state = "live" /\ object[clients[h]].clientName = h
    BY <1>1, <2>1 DEF Steady, InStep, MapHoldsLive
  <2>3. clients[h] \in Objects /\ clients[h] # p
    BY <1>3, <2>1, <2>2 DEF Types
  <2>4. QED BY <1>4, <2>2, <2>3
<1>11. LiveIsMapped'
  BY <1>1, <1>4 DEF Steady, InStep, LiveIsMapped
<1>12. QED
  BY <1>5, <1>6, <1>7, <1>8, <1>9, <1>10, <1>11 DEF Steady, InStep

(* The entry goes out of the map. *)
LEMMA EraseFromMapStep ==
  ASSUME Types, Holders, Made, Steady, deleter = "idle", EraseFromMap
  PROVE  Steady'
<1> DEFINE g == Head(copy)
<1>1. /\ cleaner.pc = "erase" /\ cleaner'.pc = "find"
      /\ clients' = [clients EXCEPT ![g] = None] /\ copy' = Tail(copy)
      /\ UNCHANGED <<allKeys, object, handler, deleter>>
  BY DEF EraseFromMap, handlerVars, deleterVars
<1>2. /\ copy # <<>> /\ clients[g] = cleaner.obj /\ ~Listed(g)
      /\ cleaner.obj \in Objects /\ object[cleaner.obj].state # "live"
  BY <1>1 DEF Steady, CleanerAtHead, Holders, Deleting
<1>3. /\ g \in Guids /\ InList(copy, g)
      /\ \A x : InList(copy', x) => InList(copy, x)
      /\ NoneTwice(copy')
      /\ ~InList(copy', g)
  BY <1>1, <1>2, TailKeeps DEF Types, Steady, CopyIsListed
<1>4. clients'[g] = None /\ \A h \in Guids : h # g => clients'[h] = clients[h]
  BY <1>1, <1>3 DEF Types
<1>5. KeysAreMapped' /\ KeysAreUnique'
  BY <1>1, <1>2, <1>4 DEF Steady, InStep, KeysAreMapped, KeysAreUnique, Listed
<1>6. CopyIsListed'
  BY <1>1, <1>3 DEF Steady, CopyIsListed, Removing, Listed
<1>7. CleanerAtHead'
  BY <1>1 DEF CleanerAtHead, Deleting
<1>8. AddingIsNew'
  <2>1. handler.pc = "addKey" => handler.guid \in Guids /\ handler.guid # g
    BY <1>3 DEF Steady, AddingIsNew, Holders
  <2>2. handler.pc = "add" => clients'[handler.guid] = None
    BY <1>3, <1>4 DEF Steady, AddingIsNew, Holders
  <2>3. QED BY <1>1, <1>3, <1>4, <2>1, <2>2 DEF Steady, AddingIsNew, Listed
<1>9. ClientsAreListed'
  BY <1>1, <1>3, <1>4 DEF Steady, InStep, ClientsAreListed, Adding, Removing
<1>10. MapHoldsLive'
  BY <1>1, <1>3, <1>4 DEF Steady, InStep, MapHoldsLive
<1>11. LiveIsMapped'
  <2>1. SUFFICES ASSUME NEW o \in Objects, object[o].state = "live"
                 PROVE  clients'[object[o].clientName] = o
    BY <1>1 DEF LiveIsMapped
  <2>2. clients[object[o].clientName] = o /\ object[o].clientName \in Guids
    BY <2>1 DEF Steady, InStep, LiveIsMapped, Made
  <2>3. object[o].clientName # g
    BY <1>2, <2>1, <2>2
  <2>4. QED BY <1>4, <2>2, <2>3
<1>12. QED
  BY <1>5, <1>6, <1>7, <1>8, <1>9, <1>10, <1>11 DEF Steady, InStep

(* Every step keeps the map, the list and the clients in step. *)
LEMMA SteadyStep ==
  ASSUME Threads, Steady, [Next]_vars
  PROVE  Steady'
<1>1. Types /\ Holders /\ Made
  BY TypesHold DEF Threads
<1>2. CASE deleter' # "idle"
  BY <1>2 DEF Steady, KeysAreMapped, CopyIsListed, CleanerAtHead, AddingIsNew,
              InStep, ClientsAreListed, KeysAreUnique, MapHoldsLive, LiveIsMapped
<1>3. CASE deleter' = "idle"
  <2> USE <1>1, <1>3
  <2>1. CASE Tick
    BY <2>1, SteadyIfUntouched DEF Tick, handlerVars, cleanerVars, deleterVars
  <2>2. ASSUME NEW g \in Guids, GetClient(g) PROVE Steady'
    BY <2>2, GetClientStep DEF GetClient, deleterVars
  <2>3. CASE GetInfo
    BY <2>3, SteadyIfUntouched DEF GetInfo, HandlerIdle, cleanerVars, deleterVars
  <2>4. CASE AddToMap
    BY <2>4, AddToMapStep DEF AddToMap, deleterVars
  <2>5. CASE AddKey
    BY <2>5, AddKeyStep DEF AddKey, deleterVars
  <2>6. CASE Respond
    BY <2>6, SteadyIfUntouched
       DEF Respond, Types, ObjectType, HandlerIdle, cleanerVars, deleterVars
  <2>7. CASE GetInfoFind
    BY <2>7, SteadyIfUntouched DEF GetInfoFind, HandlerIdle, cleanerVars, deleterVars
  <2>8. CASE GetInfoRead
    BY <2>8, SteadyIfUntouched DEF GetInfoRead, HandlerIdle, cleanerVars, deleterVars
  <2>9. CASE CheckGo
    BY <2>9, SteadyIfUntouched DEF CheckGo, Deleting, handlerVars, deleterVars, Threads, TypeOK
  <2>10. CASE CopyKeys
    BY <2>10, CopyKeysStep DEF CopyKeys, deleterVars
  <2>11. CASE ReadClock
    BY <2>11, SteadyIfUntouched DEF ReadClock, Deleting, handlerVars, deleterVars, Threads, TypeOK
  <2>12. CASE FindExpired
    BY <2>12, FindExpiredStep DEF FindExpired, deleterVars
  <2>13. CASE DeteteKey
    BY <2>13, DeteteKeyStep DEF DeteteKey, deleterVars
  <2>14. CASE DeleteObject
    BY <2>14, DeleteObjectStep DEF DeleteObject, deleterVars
  <2>15. CASE EraseFromMap
    BY <2>15, EraseFromMapStep DEF EraseFromMap, deleterVars
  <2>16. CASE WakeUp
    BY <2>16, SteadyIfUntouched DEF WakeUp, Deleting, handlerVars, deleterVars, Threads, TypeOK
  <2>17. CASE Deleter
    BY <2>17 DEF Deleter, ClearBegin, ClearNext, ClearEnd, AskCleaner, CleanerGone
  <2>18. CASE UNCHANGED vars
    BY <2>18, SteadyIfUntouched DEF vars, handlerVars, cleanerVars, deleterVars
  <2>19. QED
    BY <2>1, <2>2, <2>3, <2>4, <2>5, <2>6, <2>7, <2>8, <2>9, <2>10, <2>11,
       <2>12, <2>13, <2>14, <2>15, <2>16, <2>17, <2>18
    DEF Next, Handler, HandlerWork, Cleaner
<1>4. QED BY <1>2, <1>3
-----------------------------------------------------------------------------
(* IInv is inductive. *)
LEMMA IInvInit == Init => IInv
  BY ThreadsInit, SteadyInit DEF Threads, IInv

(* Every step keeps it. *)
LEMMA IInvStep == IInv /\ [Next]_vars => IInv'
<1> SUFFICES ASSUME IInv, [Next]_vars PROVE IInv'
  OBVIOUS
<1>1. Threads /\ Steady
  BY DEF IInv, Threads
<1>2. Threads'
  BY <1>1, ThreadsStep
<1>3. Steady'
  BY <1>1, SteadyStep
<1>4. QED BY <1>2, <1>3 DEF IInv, Threads

(* It holds in every reachable state. *)
LEMMA IInvHolds == Spec => []IInv
  BY IInvInit, IInvStep, PTL DEF Spec

(* Every variable has its type, whatever the sessions, the clients and the
   timeout are. *)
THEOREM TypeCorrect == Spec => []TypeOK
<1>1. IInv => TypeOK
  BY DEF IInv
<1>2. QED BY <1>1, IInvHolds, PTL

(* As long as the camera lives, every entry of the map is in allKeys, but for
   the session that is half added or half removed: no client escapes the
   cleaner. *)
THEOREM AllAreListed == Spec => []ClientsAreListed
<1>1. IInv => ClientsAreListed
  BY DEF IInv, Steady, InStep
<1>2. QED BY <1>1, IInvHolds, PTL

(* As long as the camera lives, no key is in allKeys twice, though AddClient
   pushes a key without looking. *)
THEOREM NoKeyTwice == Spec => []KeysAreUnique
<1>1. IInv => KeysAreUnique
  BY DEF IInv, Steady, InStep
<1>2. QED BY <1>1, IInvHolds, PTL

(* As long as the camera lives, what the map points to is alive and is the
   client of that key, but for the step between DeleteClient's delete and its
   erase. *)
THEOREM MapIsSound == Spec => []MapHoldsLive
<1>1. IInv => MapHoldsLive
  BY DEF IInv, Steady, InStep
<1>2. QED BY <1>1, IInvHolds, PTL

(* As long as the camera lives, every live client is in the map: none leaks. *)
THEOREM NoneLost == Spec => []LiveIsMapped
<1>1. IInv => LiveIsMapped
  BY DEF IInv, Steady, InStep
<1>2. QED BY <1>1, IInvHolds, PTL

(* ~ClientManage returns only once the cleaner thread has ended. *)
THEOREM CleanerIsGone == Spec => []CleanerGoneFirst
<1>1. IInv => CleanerGoneFirst
  BY DEF IInv, Handshake, CleanerGoneFirst
<1>2. QED BY <1>1, IInvHolds, PTL
-----------------------------------------------------------------------------
(* While ClearClient runs, with the lock, the map is no longer in step with
   the clients: it may point to one that is deleted.  What still holds, and
   makes the two action properties true. *)

(* A client in the map bears its name, at any time; and the cleaner has no
   client in hand unless it is deleting one. *)
MapNames ==
  \A g \in Guids : clients[g] # None => object[clients[g]].clientName = g

HandsEmpty == cleaner.pc \notin Deleting => cleaner.obj = None

(* The threads that were under way when ClearClient took the lock. *)
UnderWay ==
  deleter = "clear" =>
    /\ allKeysLock = "deleter"
    /\ handler.pc = "add" => clients[handler.guid] = None
    /\ cleaner.pc \in Deleting => clients[Head(copy)] = cleaner.obj
    /\ cleaner.pc = "erase" => object[cleaner.obj].state # "live"

(* A client that ClearClient has yet to delete lives, or is in the hands of
   the cleaner. *)
FreedIsHeld ==
  deleter = "clear" =>
    /\ NoneTwice(clearing)
    /\ \A g \in Guids : InList(clearing, g) /\ clients[g] # None =>
         object[clients[g]].state = "live" \/ cleaner.obj = clients[g]

(* A client that lives is one ClearClient has yet to delete, or is just being
   added, or just being deleted by the cleaner. *)
InFlight(o) ==
  \/ handler.pc = "addKey" /\ handler.obj = o
  \/ cleaner.pc = "delete" /\ cleaner.obj = o

LiveIsLeft ==
  deleter = "clear" =>
    \A o \in Objects : object[o].state = "live" =>
      \/ InFlight(o)
      \/ /\ InList(clearing, object[o].clientName)
         /\ clients[object[o].clientName] = o

ClearOK == MapNames /\ HandsEmpty /\ UnderWay /\ FreedIsHeld /\ LiveIsLeft

(* A step that changes no state and no name of a client, neither the map nor
   what is left to clear, and leaves the two other threads where they are as
   far as ClearOK asks. *)
LEMMA ClearIfUntouched ==
  ASSUME Types, Holders, ClearOK,
         UNCHANGED <<clients, deleter, clearing>>,
         deleter = "clear" => allKeysLock' = allKeysLock,
         DOMAIN object' = DOMAIN object,
         \A o \in Objects : /\ object'[o].state = object[o].state
                           /\ object'[o].clientName = object[o].clientName,
         \/ cleaner' = cleaner /\ copy' = copy
         \/ {cleaner.pc, cleaner'.pc} \cap Deleting = {} /\ cleaner'.obj = cleaner.obj,
         deleter = "clear" =>
           \/ handler' = handler
           \/ /\ handler.pc # "addKey"
              /\ handler'.pc = "add" => clients[handler'.guid] = None
  PROVE  ClearOK'
<1> USE DEF ClearOK, Types, Deleting
<1>1. MapNames'
  BY DEF MapNames
<1>2. HandsEmpty'
  BY DEF HandsEmpty
<1>3. UnderWay'
  BY DEF UnderWay, Holders
<1>4. FreedIsHeld'
  BY DEF FreedIsHeld
<1>5. LiveIsLeft'
  BY DEF LiveIsLeft, InFlight
<1>6. QED BY <1>1, <1>2, <1>3, <1>4, <1>5

(* A new client enters the map under a key that was free. *)
LEMMA AddToMapClears ==
  ASSUME Types, Holders, Made, Steady, ClearOK, AddToMap
  PROVE  ClearOK'
<1> DEFINE p == NewObject
           g == handler.guid
<1>1. /\ handler.pc = "add" /\ handler'.pc = "addKey" /\ handler'.obj = p
      /\ object' = [object EXCEPT ![p] = [state |-> "live", clientName |-> g,
                                          lastActivityTime |-> now]]
      /\ clients' = [clients EXCEPT ![g] = p]
      /\ UNCHANGED <<cleaner, copy, deleter, clearing, allKeysLock>>
  BY DEF AddToMap, cleanerVars, deleterVars
<1>2. g \in Guids /\ p \in Objects /\ object[p] = Unused
  BY <1>1, NewObjectIsUnused DEF Holders
<1>3. /\ object'[p].state = "live" /\ object'[p].clientName = g
      /\ object[p].state = "unused"
      /\ \A o \in Objects : o # p => object'[o] = object[o]
  BY <1>1, <1>2 DEF Types, Unused
<1>4. clients'[g] = p /\ \A h \in Guids : h # g => clients'[h] = clients[h]
  BY <1>1, <1>2 DEF Types
<1> HIDE DEF p, g
<1>5. \A h \in Guids : clients[h] # None => clients[h] \in Objects /\ clients[h] # p
  BY <1>3 DEF Made, Types
<1>6. cleaner.pc \in Deleting => cleaner.obj \in Objects /\ cleaner.obj # p
                                 /\ Head(copy) \in Guids
  <2>1. cleaner.pc \in Deleting => cleaner.obj \in Objects /\ copy # <<>>
                                   /\ object[cleaner.obj].state # "unused"
    BY DEF Made, Holders
  <2>2. copy # <<>> => Head(copy) \in Guids
    BY TailKeeps DEF Types
  <2>3. QED BY <1>3, <2>1, <2>2
<1>7. deleter = "clear" => clients[g] = None
  BY <1>1 DEF ClearOK, UnderWay, g
<1>8. MapNames'
  BY <1>3, <1>4, <1>5 DEF ClearOK, MapNames
<1>9. HandsEmpty'
  BY <1>1 DEF ClearOK, HandsEmpty
<1>10. UnderWay'
  <2>1. SUFFICES ASSUME deleter = "clear" PROVE UnderWay'
    BY <1>1 DEF UnderWay
  <2>2. cleaner.pc \in Deleting => Head(copy) # g
    BY <1>6, <1>7, <2>1 DEF ClearOK, UnderWay, Types
  <2>3. QED BY <1>1, <1>3, <1>4, <1>6, <2>1, <2>2 DEF ClearOK, UnderWay, Deleting
<1>11. FreedIsHeld'
  BY <1>1, <1>3, <1>4, <1>5 DEF ClearOK, FreedIsHeld
<1>12. LiveIsLeft'
  <2>1. SUFFICES ASSUME deleter = "clear", NEW o \in Objects, o # p,
                        object[o].state = "live"
                 PROVE  InFlight(o)' \/ /\ InList(clearing, object[o].clientName)
                                        /\ clients'[object[o].clientName] = o
    BY <1>1, <1>3 DEF LiveIsLeft, InFlight
  <2>2. InFlight(o) \/ /\ InList(clearing, object[o].clientName)
                       /\ clients[object[o].clientName] = o
    BY <2>1 DEF ClearOK, LiveIsLeft
  <2>3. InFlight(o) => InFlight(o)'
    BY <1>1 DEF InFlight
  <2>4. clients[object[o].clientName] = o => object[o].clientName # g
    BY <1>7, <2>1 DEF Types
  <2>5. object[o].clientName \in Guids
    BY <2>1 DEF Made
  <2>6. QED BY <1>4, <2>2, <2>3, <2>4, <2>5
<1>13. QED BY <1>8, <1>9, <1>10, <1>11, <1>12 DEF ClearOK

(* The cleaner takes the next client in hand. *)
LEMMA FindExpiredClears ==
  ASSUME Types, Holders, ClearOK, FindExpired
  PROVE  ClearOK'
<1>1. /\ cleaner.pc = "find"
      /\ UNCHANGED <<clients, object, handler, deleter, clearing, allKeysLock>>
  BY DEF FindExpired, handlerVars, deleterVars
<1>2. cleaner.obj = None
  BY <1>1 DEF ClearOK, HandsEmpty, Deleting
<1>3. CASE cleaner'.pc \notin Deleting
  <2>1. cleaner'.obj = cleaner.obj
    BY <1>3 DEF FindExpired, Types, Deleting
  <2>2. QED
    BY <1>1, <1>3, <2>1, ClearIfUntouched DEF Deleting, Types
<1>4. CASE cleaner'.pc \in Deleting
  <2>1. /\ cleaner'.pc = "deleteKey" /\ copy' = copy
        /\ cleaner'.obj = clients[Head(copy)]
    BY <1>4, <1>1 DEF FindExpired, Types, Deleting
  <2>2. MapNames' /\ HandsEmpty'
    BY <1>1, <1>4 DEF ClearOK, MapNames, HandsEmpty
  <2>3. UnderWay'
    BY <1>1, <2>1 DEF ClearOK, UnderWay
  <2>4. FreedIsHeld'
    BY <1>1, <1>2, <2>1 DEF ClearOK, FreedIsHeld, Types
  <2>5. LiveIsLeft'
    BY <1>1, <2>1 DEF ClearOK, LiveIsLeft, InFlight
  <2>6. QED BY <2>2, <2>3, <2>4, <2>5 DEF ClearOK
<1>5. QED BY <1>3, <1>4

(* The key of the client in hand goes, which takes the lock: not while
   ClearClient has it. *)
LEMMA DeteteKeyClears ==
  ASSUME Types, Holders, ClearOK, DeteteKey
  PROVE  ClearOK'
<1>1. /\ cleaner.pc = "deleteKey" /\ allKeysLock = "free"
      /\ cleaner'.pc = "delete" /\ cleaner'.obj = cleaner.obj
      /\ UNCHANGED <<clients, object, handler, copy, deleter, clearing,
                     allKeysLock>>
  BY DEF DeteteKey, handlerVars, deleterVars, Types
<1>2. deleter # "clear"
  BY <1>1 DEF ClearOK, UnderWay
<1>3. MapNames' /\ HandsEmpty'
  BY <1>1 DEF ClearOK, MapNames, HandsEmpty, Deleting
<1>4. UnderWay' /\ FreedIsHeld' /\ LiveIsLeft'
  BY <1>1, <1>2 DEF UnderWay, FreedIsHeld, LiveIsLeft
<1>5. QED BY <1>3, <1>4 DEF ClearOK

(* The cleaner deletes the client in its hands: a copy of it may be left in
   the map, but it stays in its hands until it has erased it. *)
LEMMA DeleteObjectClears ==
  ASSUME Types, Holders, Made, ClearOK, DeleteObject
  PROVE  ClearOK'
<1> DEFINE p == cleaner.obj
<1>1. /\ cleaner.pc = "delete" /\ object' = Deleted(p)
      /\ cleaner'.pc = "erase" /\ cleaner'.obj = p
      /\ UNCHANGED <<clients, handler, copy, deleter, clearing, allKeysLock>>
  BY DEF DeleteObject, handlerVars, deleterVars, Types
<1>2. p \in Objects /\ object[p].state # "unused"
  BY <1>1 DEF Holders, Made, Deleting
<1>3. /\ object'[p].state # "live"
      /\ \A o \in Objects :
           /\ o # p => object'[o] = object[o]
           /\ object'[o].clientName = object[o].clientName
           /\ object'[o].state = "live" => object[o].state = "live"
  BY <1>1, <1>2, DeletedKeeps DEF Types
<1>4. MapNames'
  BY <1>1, <1>3 DEF ClearOK, MapNames, Types
<1>5. HandsEmpty'
  BY <1>1 DEF HandsEmpty, Deleting
<1>6. UnderWay'
  BY <1>1, <1>3 DEF ClearOK, UnderWay, Deleting
<1>7. FreedIsHeld'
  BY <1>1, <1>3 DEF ClearOK, FreedIsHeld, Types
<1>8. LiveIsLeft'
  BY <1>1, <1>3 DEF ClearOK, LiveIsLeft, InFlight
<1>9. QED BY <1>4, <1>5, <1>6, <1>7, <1>8 DEF ClearOK

(* The cleaner erases the entry of the client it has deleted. *)
LEMMA EraseFromMapClears ==
  ASSUME Types, Holders, Made, ClearOK, EraseFromMap
  PROVE  ClearOK'
<1> DEFINE g == Head(copy)
           p == cleaner.obj
<1>1. /\ cleaner.pc = "erase" /\ cleaner'.pc = "find" /\ cleaner'.obj = None
      /\ clients' = [clients EXCEPT ![g] = None]
      /\ UNCHANGED <<object, handler, deleter, clearing, allKeysLock>>
  BY DEF EraseFromMap, handlerVars, deleterVars
<1>2. copy # <<>> /\ p \in Objects
  BY <1>1 DEF Holders, Deleting
<1>3. g \in Guids
  BY <1>2, TailKeeps DEF Types
<1>4. clients'[g] = None /\ \A h \in Guids : h # g => clients'[h] = clients[h]
  BY <1>1, <1>3 DEF Types
<1>5. deleter = "clear" => clients[g] = p /\ object[p].state # "live"
  BY <1>1 DEF ClearOK, UnderWay, Deleting
<1>6. deleter = "clear" => \A h \in Guids : h # g => clients[h] # p
  BY <1>2, <1>3, <1>5 DEF ClearOK, MapNames, Types
<1> HIDE DEF g
<1>7. MapNames'
  BY <1>1, <1>4 DEF ClearOK, MapNames
<1>8. HandsEmpty'
  BY <1>1 DEF HandsEmpty
<1>9. UnderWay'
  BY <1>1, <1>3, <1>4 DEF ClearOK, UnderWay, Deleting, Holders
<1>10. FreedIsHeld'
  <2>1. SUFFICES ASSUME deleter = "clear", NEW h \in Guids,
                        InList(clearing, h), clients'[h] # None
                 PROVE  object[clients'[h]].state = "live"
    BY <1>1 DEF ClearOK, FreedIsHeld
  <2>2. h # g /\ clients'[h] = clients[h]
    BY <1>4, <2>1
  <2>3. object[clients[h]].state = "live" \/ p = clients[h]
    BY <2>1, <2>2 DEF ClearOK, FreedIsHeld
  <2>4. QED BY <1>6, <2>1, <2>2, <2>3
<1>11. LiveIsLeft'
  <2>1. SUFFICES ASSUME deleter = "clear", NEW o \in Objects,
                        object[o].state = "live"
                 PROVE  InFlight(o)' \/ /\ InList(clearing, object[o].clientName)
                                        /\ clients'[object[o].clientName] = o
    BY <1>1 DEF LiveIsLeft
  <2>2. InFlight(o) \/ /\ InList(clearing, object[o].clientName)
                       /\ clients[object[o].clientName] = o
    BY <2>1 DEF ClearOK, LiveIsLeft
  <2>3. InFlight(o) => InFlight(o)'
    BY <1>1 DEF InFlight
  <2>4. object[o].clientName \in Guids
    BY <2>1 DEF Made
  <2>5. clients[object[o].clientName] = o => object[o].clientName # g
    BY <1>5, <2>1
  <2>6. QED BY <1>4, <2>2, <2>3, <2>4, <2>5
<1>12. QED BY <1>7, <1>8, <1>9, <1>10, <1>11 DEF ClearOK

(* ClearClient takes the lock while everything is in step. *)
LEMMA ClearBeginClears ==
  ASSUME Types, Holders, Made, Steady, ClearOK, ClearBegin
  PROVE  ClearOK'
<1>1. /\ deleter = "idle" /\ allKeysLock' = "deleter" /\ clearing' = allKeys
      /\ UNCHANGED <<clients, object, handler, cleaner, copy>>
  BY DEF ClearBegin, handlerVars, cleanerVars
<1>2. /\ KeysAreUnique /\ ClientsAreListed /\ MapHoldsLive /\ LiveIsMapped
      /\ CleanerAtHead /\ AddingIsNew
  BY DEF Steady, InStep
<1>3. MapNames' /\ HandsEmpty'
  BY <1>1 DEF ClearOK, MapNames, HandsEmpty
<1>4. UnderWay'
  BY <1>1, <1>2 DEF UnderWay, CleanerAtHead, AddingIsNew, Deleting
<1>5. FreedIsHeld'
  <2>1. NoneTwice(allKeys)
    BY <1>1, <1>2 DEF KeysAreUnique, NoneTwice
  <2>2. ASSUME NEW g \in Guids, clients[g] # None
        PROVE  object[clients[g]].state = "live" \/ cleaner.obj = clients[g]
    BY <1>1, <1>2, <2>2 DEF MapHoldsLive, CleanerAtHead, Deleting
  <2>3. QED BY <1>1, <2>1, <2>2 DEF FreedIsHeld
<1>6. LiveIsLeft'
  <2>1. SUFFICES ASSUME NEW o \in Objects, object[o].state = "live"
                 PROVE  \/ InFlight(o)
                        \/ /\ InList(allKeys, object[o].clientName)
                           /\ clients[object[o].clientName] = o
    BY <1>1 DEF LiveIsLeft, InFlight
  <2>2. PICK g \in Guids : g = object[o].clientName
    BY <2>1 DEF Made
  <2>3. clients[g] = o /\ clients[g] # None
    BY <1>1, <1>2, <2>1, <2>2 DEF LiveIsMapped, Types
  <2>4. Adding(g) \/ Removing(g) \/ \E i \in 1..Len(allKeys) : allKeys[i] = g
    BY <1>1, <1>2, <2>3 DEF ClientsAreListed
  <2>5. CASE Adding(g)
    BY <1>1, <1>2, <2>3, <2>5 DEF Adding, AddingIsNew, InFlight
  <2>6. CASE Removing(g)
    <3>1. cleaner.obj = o /\ cleaner.pc # "erase"
      BY <1>1, <1>2, <2>1, <2>3, <2>6 DEF Removing, CleanerAtHead, Deleting
    <3>2. QED BY <2>6, <3>1 DEF Removing, InFlight
  <2>7. CASE \E i \in 1..Len(allKeys) : allKeys[i] = g
    BY <2>2, <2>3, <2>7 DEF InList
  <2>8. QED BY <2>4, <2>5, <2>6, <2>7
<1>7. QED BY <1>3, <1>4, <1>5, <1>6 DEF ClearOK

(* ClearClient deletes the client of the next key. *)
LEMMA ClearNextClears ==
  ASSUME Types, Holders, Made, ClearOK, clearing \in Seq(Guids), ClearNext
  PROVE  ClearOK'
<1> DEFINE g == Head(clearing)
           p == clients[Head(clearing)]
<1>1. /\ deleter = "clear" /\ clearing # <<>>
      /\ object' = IF p = None THEN object ELSE Deleted(p)
      /\ clearing' = Tail(clearing)
      /\ UNCHANGED <<clients, handler, cleaner, copy, deleter, allKeysLock>>
  BY DEF ClearNext, handlerVars, cleanerVars
<1>2. /\ g \in Guids
      /\ \A x : InList(clearing', x) => InList(clearing, x)
      /\ NoneTwice(clearing') /\ ~InList(clearing', g)
      /\ \A x : InList(clearing, x) => x = g \/ InList(clearing', x)
  <2>1. NoneTwice(clearing)
    BY <1>1 DEF ClearOK, FreedIsHeld
  <2>2. ASSUME NEW x, InList(clearing, x) PROVE x = g \/ InList(clearing', x)
    <3>1. PICK i \in 1..Len(clearing) : clearing[i] = x
      BY <2>2 DEF InList
    <3>2. CASE i = 1
      BY <3>1, <3>2
    <3>3. CASE i # 1
      <4>1. /\ Len(clearing) \in Nat /\ Len(Tail(clearing)) = Len(clearing) - 1
            /\ \A j \in 1..Len(clearing)-1 : Tail(clearing)[j] = clearing[j + 1]
        BY <1>1
      <4>2. i - 1 \in 1..Len(clearing)-1 /\ (i - 1) + 1 = i
        BY <3>3, <4>1
      <4>3. clearing'[i - 1] = x
        BY <1>1, <3>1, <4>1, <4>2
      <4>4. QED BY <1>1, <4>1, <4>2, <4>3 DEF InList
    <3>4. QED BY <3>2, <3>3
  <2>3. QED BY <1>1, <2>1, <2>2, TailKeeps
<1> HIDE DEF g
<1>3. p # None => p \in Objects /\ object[p].state # "unused"
  BY <1>2 DEF Types, Made, g
<1>4. /\ \A o \in Objects :
           /\ o # p => object'[o] = object[o]
           /\ object'[o].clientName = object[o].clientName
           /\ object'[o].state = "live" => object[o].state = "live" /\ o # p
  <2>1. CASE p = None
    BY <1>1, <2>1 DEF Types
  <2>2. CASE p # None
    <3>1. object' = Deleted(p) /\ p \in Objects /\ object[p].state # "unused"
      BY <1>1, <1>3, <2>2
    <3> HIDE DEF p
    <3>2. object \in [Objects -> ObjectType]
      BY DEF Types
    <3>3. QED BY <3>1, <3>2, DeletedKeeps
  <2>3. QED BY <2>1, <2>2
<1>5. MapNames'
  BY <1>1, <1>4 DEF ClearOK, MapNames, Types
<1>6. HandsEmpty'
  BY <1>1 DEF ClearOK, HandsEmpty
<1>7. UnderWay'
  BY <1>1, <1>4 DEF ClearOK, UnderWay, Holders, Deleting
<1>8. FreedIsHeld'
  <2>1. SUFFICES ASSUME NEW h \in Guids, InList(clearing', h), clients[h] # None
                 PROVE  object'[clients[h]].state = "live" \/ cleaner.obj = clients[h]
    BY <1>1, <1>2 DEF FreedIsHeld
  <2>2. h # g /\ InList(clearing, h) /\ clients[h] \in Objects
    BY <1>2, <2>1 DEF Types
  <2>3. object[clients[h]].state = "live" \/ cleaner.obj = clients[h]
    BY <1>1, <2>1, <2>2 DEF ClearOK, FreedIsHeld
  <2>4. clients[h] # p
    BY <1>2, <2>1, <2>2 DEF ClearOK, MapNames, g
  <2>5. QED BY <1>4, <2>2, <2>3, <2>4
<1>9. LiveIsLeft'
  <2>1. SUFFICES ASSUME NEW o \in Objects, object[o].state = "live", o # p
                 PROVE  \/ InFlight(o)
                        \/ /\ InList(clearing', object[o].clientName)
                           /\ clients[object[o].clientName] = o
    BY <1>1, <1>4 DEF LiveIsLeft, InFlight
  <2>2. InFlight(o) \/ /\ InList(clearing, object[o].clientName)
                       /\ clients[object[o].clientName] = o
    BY <1>1, <2>1 DEF ClearOK, LiveIsLeft
  <2>3. clients[object[o].clientName] = o => object[o].clientName # g
    BY <2>1 DEF g
  <2>4. QED BY <1>2, <2>2, <2>3
<1>10. QED BY <1>5, <1>6, <1>7, <1>8, <1>9 DEF ClearOK

(* Every step keeps ClearOK. *)
LEMMA ClearStep ==
  ASSUME Threads, Steady, ClearOK, [Next]_vars
  PROVE  ClearOK'
<1>1. Types /\ Holders /\ Made /\ clearing \in Seq(Guids)
  BY TypesHold DEF Threads, TypeOK
<1> USE <1>1
<1>2. CASE Tick
  BY <1>2, ClearIfUntouched DEF Tick, handlerVars, cleanerVars, deleterVars
<1>3. ASSUME NEW g \in Guids, GetClient(g) PROVE ClearOK'
  <2>1. /\ handler.pc = "idle"
        /\ UNCHANGED <<clients, allKeysLock, object, cleaner, copy, deleter,
                       clearing>>
    BY <1>3 DEF GetClient, cleanerVars, deleterVars
  <2>2. handler'.pc = "add" => clients[handler'.guid] = None
    BY <1>3 DEF GetClient
  <2>3. QED BY <2>1, <2>2, ClearIfUntouched
<1>4. CASE GetInfo
  BY <1>4, ClearIfUntouched DEF GetInfo, HandlerIdle, cleanerVars, deleterVars
<1>5. CASE AddToMap
  BY <1>5, AddToMapClears
<1>6. CASE AddKey
  <2>1. /\ handler.pc = "addKey" /\ allKeysLock = "free"
        /\ UNCHANGED <<clients, allKeysLock, object, cleaner, copy, deleter,
                       clearing>>
    BY <1>6 DEF AddKey, cleanerVars, deleterVars
  <2>2. deleter # "clear"
    BY <2>1 DEF ClearOK, UnderWay
  <2>3. QED BY <2>1, <2>2, ClearIfUntouched
<1>7. CASE Respond
  <2>1. /\ handler.pc = "respond" /\ handler' = HandlerIdle
        /\ object' = [object EXCEPT ![handler.obj].lastActivityTime = now]
        /\ UNCHANGED <<clients, allKeysLock, cleaner, copy, deleter, clearing>>
    BY <1>7 DEF Respond, cleanerVars, deleterVars
  <2>2. /\ DOMAIN object' = DOMAIN object
        /\ \A o \in Objects : /\ object'[o].state = object[o].state
                              /\ object'[o].clientName = object[o].clientName
    BY <2>1 DEF Types, ObjectType
  <2>3. handler'.pc = "idle"
    BY <2>1 DEF HandlerIdle
  <2>4. QED BY <2>1, <2>2, <2>3, ClearIfUntouched
<1>8. CASE GetInfoFind
  <2>1. /\ handler.pc = "infoFind"
        /\ UNCHANGED <<clients, allKeysLock, object, cleaner, copy, deleter,
                       clearing>>
    BY <1>8 DEF GetInfoFind, cleanerVars, deleterVars
  <2>2. handler'.pc # "add"
    BY <1>8 DEF GetInfoFind, HandlerIdle
  <2>3. QED BY <2>1, <2>2, ClearIfUntouched
<1>9. CASE GetInfoRead
  BY <1>9, ClearIfUntouched DEF GetInfoRead, HandlerIdle, cleanerVars, deleterVars
<1>10. CASE CheckGo
  BY <1>10, ClearIfUntouched
     DEF CheckGo, Deleting, Types, handlerVars, deleterVars
<1>11. CASE CopyKeys
  BY <1>11, ClearIfUntouched
     DEF CopyKeys, Deleting, Types, handlerVars, deleterVars
<1>12. CASE ReadClock
  BY <1>12, ClearIfUntouched
     DEF ReadClock, Deleting, Types, handlerVars, deleterVars
<1>13. CASE FindExpired
  BY <1>13, FindExpiredClears
<1>14. CASE DeteteKey
  BY <1>14, DeteteKeyClears
<1>15. CASE DeleteObject
  BY <1>15, DeleteObjectClears
<1>16. CASE EraseFromMap
  BY <1>16, EraseFromMapClears
<1>17. CASE WakeUp
  BY <1>17, ClearIfUntouched
     DEF WakeUp, Deleting, Types, handlerVars, deleterVars
<1>18. CASE ClearBegin
  BY <1>18, ClearBeginClears
<1>19. CASE ClearNext
  BY <1>19, ClearNextClears
<1>20. CASE ClearEnd \/ AskCleaner \/ CleanerGone
  <2>1. /\ deleter' # "clear"
        /\ UNCHANGED <<object, cleaner>>
        /\ \A g \in Guids : clients'[g] = None \/ clients'[g] = clients[g]
    BY <1>20 DEF ClearEnd, AskCleaner, CleanerGone, cleanerVars
  <2>2. MapNames' /\ HandsEmpty'
    BY <2>1 DEF ClearOK, MapNames, HandsEmpty
  <2>3. UnderWay' /\ FreedIsHeld' /\ LiveIsLeft'
    BY <2>1 DEF UnderWay, FreedIsHeld, LiveIsLeft
  <2>4. QED BY <2>2, <2>3 DEF ClearOK
<1>21. CASE UNCHANGED vars
  BY <1>21, ClearIfUntouched DEF vars, handlerVars, cleanerVars, deleterVars
<1>22. QED
  BY <1>2, <1>3, <1>4, <1>5, <1>6, <1>7, <1>8, <1>9, <1>10, <1>11, <1>12,
     <1>13, <1>14, <1>15, <1>16, <1>17, <1>18, <1>19, <1>20, <1>21
  DEF Next, Handler, HandlerWork, Cleaner, Deleter

(* ClearOK holds at the start and in every reachable state. *)
LEMMA ClearHolds == Spec => [](IInv /\ ClearOK)
<1>1. Init => ClearOK
  BY DEF Init, ClearOK, MapNames, HandsEmpty, UnderWay, FreedIsHeld, LiveIsLeft,
         Unused, HandlerIdle
<1>2. IInv /\ ClearOK /\ [Next]_vars => ClearOK'
  BY ClearStep DEF IInv, Threads
<1>3. QED BY <1>1, <1>2, IInvInit, IInvStep, PTL DEF Spec

(* Only the deletion of a camera can delete a client twice, and then only the
   one the cleaner has in its hands: ClearClient deletes no client twice by
   itself, though it leaves the pointers in the map (ClientManage.h:143-156), and
   DeleteClient none (ClientManage.h:114-135). *)
THEOREM TwiceOnlyInFlight == Spec => DeletedOnce
<1>1. ASSUME IInv, ClearOK, Next, NEW o \in Objects,
             object[o].state # "twice", object'[o].state = "twice"
      PROVE  deleter # "idle" /\ cleaner.obj = o
  <2> USE ClientManageAssumption
  <2>1. Types /\ Holders /\ Made /\ Steady
    BY <1>1, TypesHold DEF IInv
  <2>2. CASE DeleteObject
    <3>1. /\ cleaner.pc = "delete" /\ object' = Deleted(cleaner.obj)
          /\ cleaner.obj \in Objects
      BY <2>1, <2>2 DEF DeleteObject, Holders, Deleting
    <3>2. cleaner.obj = o /\ object[o].state # "live"
      BY <1>1, <2>1, <3>1 DEF Deleted, Types, ObjectType
    <3>3. deleter # "idle"
      <4>1. SUFFICES ASSUME deleter = "idle" PROVE FALSE
        OBVIOUS
      <4>2. object[cleaner.obj].state = "live"
        BY <2>1, <3>1, <4>1, HeadIsClient
      <4>3. QED BY <3>2, <4>2
    <3>4. QED BY <3>2, <3>3
  <2>3. CASE ClearNext
    <3> DEFINE g == Head(clearing)
               p == clients[Head(clearing)]
    <3>1. /\ deleter = "clear" /\ clearing # <<>> /\ clearing \in Seq(Guids)
          /\ object' = IF p = None THEN object ELSE Deleted(p)
      BY <1>1, <2>3 DEF ClearNext, IInv, TypeOK
    <3>2. g \in Guids /\ InList(clearing, g)
      BY <3>1, TailKeeps
    <3>3. p # None /\ p = o /\ object[o].state # "live"
      BY <1>1, <2>1, <3>1, <3>2 DEF Deleted, Types, ObjectType
    <3>4. cleaner.obj = o
      BY <1>1, <3>1, <3>2, <3>3 DEF ClearOK, FreedIsHeld
    <3>5. QED BY <3>1, <3>4
  <2>4. CASE ~(DeleteObject \/ ClearNext)
    <3>1. CASE AddToMap
      <4>1. NewObject \in Objects
        BY <2>1, <3>1, NewObjectIsUnused DEF AddToMap, Holders
      <4>2. object'[o] = object[o] \/ object'[o].state = "live"
        BY <2>1, <3>1, <4>1 DEF AddToMap, Types
      <4>3. QED BY <1>1, <4>2
    <3>2. CASE Respond
      <4>1. object'[o].state = object[o].state
        BY <2>1, <3>2 DEF Respond, Types, ObjectType
      <4>2. QED BY <1>1, <4>1
    <3>3. CASE ~(AddToMap \/ Respond)
      <4>1. object' = object
        BY <1>1, <2>4, <3>3
        DEF Next, Tick, Handler, HandlerWork, GetClient, GetInfo, AddKey,
            GetInfoFind, GetInfoRead, Cleaner, CheckGo, CopyKeys, ReadClock,
            FindExpired, DeteteKey, EraseFromMap, WakeUp, Deleter, ClearBegin,
            ClearEnd, AskCleaner, CleanerGone
      <4>2. QED BY <1>1, <4>1
    <3>4. QED BY <3>1, <3>2, <3>3
  <2>5. QED BY <2>2, <2>3, <2>4
<1>2. IInv /\ ClearOK /\ [Next]_vars =>
        [\A o \in Objects :
           object[o].state # "twice" /\ object'[o].state = "twice" =>
             deleter # "idle" /\ cleaner.obj = o]_vars
  BY <1>1
<1>3. QED BY <1>2, ClearHolds, PTL DEF Spec, DeletedOnce

(* ClearClient leaves no client behind but the one that was being added, and
   the one the cleaner is deleting, for every number of sessions: between its
   lock and its end no other thread can list a key or take one out
   (ClientManage.h:143-156). *)
THEOREM NoneLeftBehind == Spec => ClearLeavesInFlight
<1>1. ASSUME IInv, ClearOK, Next, deleter = "clear", deleter' = "cleared",
             NEW o \in Objects, object[o].state = "live"
      PROVE  \/ handler.pc = "addKey" /\ handler.obj = o
             \/ cleaner.pc = "delete" /\ cleaner.obj = o
  <2>1. clearing = <<>>
    BY <1>1 DEF Next, Tick, Handler, HandlerWork, GetClient, GetInfo, AddToMap,
                AddKey, Respond, GetInfoFind, GetInfoRead, Cleaner, CheckGo,
                CopyKeys, ReadClock, FindExpired, DeteteKey, DeleteObject,
                EraseFromMap, WakeUp, Deleter, ClearBegin, ClearNext, ClearEnd,
                AskCleaner, CleanerGone, deleterVars
  <2>2. ~InList(clearing, object[o].clientName)
    BY <2>1 DEF InList
  <2>3. QED BY <1>1, <2>2 DEF ClearOK, LiveIsLeft, InFlight
<1>2. IInv /\ ClearOK /\ [Next]_vars =>
        [deleter = "clear" /\ deleter' = "cleared" =>
           \A o \in Objects : object[o].state = "live" =>
             \/ handler.pc = "addKey" /\ handler.obj = o
             \/ cleaner.pc = "delete" /\ cleaner.obj = o]_vars
  BY <1>1
<1>3. QED BY <1>2, ClearHolds, PTL DEF Spec, ClearLeavesInFlight
=============================================================================
