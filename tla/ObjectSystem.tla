---------------------------- MODULE ObjectSystem ----------------------------
(***************************************************************************)
(* The server's object system: the objects of Y/object/object.c, the       *)
(* clients of Y/message/client.c that own them, and the signal             *)
(* subscriptions, which are recorded twice: in the object (struct Signal,  *)
(* the list of subscribed clients) and in the client (struct               *)
(* SignalSubscription, the list of foreign signals it subscribed to).      *)
(*                                                                         *)
(* The server is single threaded: one action is one message despatched by  *)
(* messageDoDespatch, one connection torn down, or one emitted signal,     *)
(* with every call the handler makes.                                      *)
(*                                                                         *)
(* A client is identified by the memory block (slot) its record occupies,  *)
(* since that is what the lists of subscribers hold; a block released by   *)
(* clientClose can be handed out again by the next accept.  A use of       *)
(* released memory sets undefined: whatever runs afterwards is not         *)
(* described by this module.                                               *)
(***************************************************************************)
EXTENDS Naturals, FiniteSets

CONSTANTS
  Slots,        \* memory blocks a client record may occupy
  Server,       \* the NULL client: owner of the objects the server creates
  MaxObjects,   \* bound: objects are numbered 1 .. MaxObjects
  Signals,      \* signal names
  ShortNames,   \* the names of fewer than 12 bytes (see StrayMatches)
  Disciplined   \* TRUE: clients only name the objects they created (libYc++)

ASSUME SlotsAssumption == Server \notin Slots
ASSUME MaxObjectsAssumption == MaxObjects \in Nat \ {0}
ASSUME SignalsAssumption == ShortNames \subseteq Signals
ASSUME DisciplinedAssumption == Disciplined \in BOOLEAN

ObjectIds == 1 .. MaxObjects
Subscription == ObjectIds \X Signals

VARIABLES
  live,         \* the index of clients: slots in use
  objects,      \* objectIndex: ids of the objects that exist
  nextObject,   \* objectNextID
  owner,        \* o->client
  cobjects,     \* c->objects
  sigs,         \* o->signals: the clients of each signal of each object
  csubs,        \* c->signals: subscriptions to objects of others
  asked,        \* history: what the client now in the slot subscribed to
  events,       \* events queued for the client in the slot
  undefined     \* released memory has been used

vars == <<live, objects, nextObject, owner, cobjects, sigs, csubs, asked,
          events, undefined>>

-----------------------------------------------------------------------------
(* The released blocks that the list of subscribers of a signal still      *)
(* names.                                                                  *)
Dangling(o, n) == sigs[o][n] \ live

(* A reference that may be followed into released memory: the read may     *)
(* find the old contents (FALSE) or anything else (TRUE).                  *)
MayBeUndefined(risk) == IF risk THEN BOOLEAN ELSE {FALSE}

(* The objects a client can name in a message.                             *)
Nameable(c) == IF Disciplined THEN cobjects[c] ELSE objects

(* objectInitialise allocates the next id and files the object under the   *)
(* current client, if there is one.                                        *)
ObjectInitialise(c) ==
  /\ nextObject <= MaxObjects
  /\ nextObject' = nextObject + 1
  /\ objects' = objects \cup {nextObject}
  /\ owner' = [owner EXCEPT ![nextObject] = c]
  /\ cobjects' = [s \in Slots |->
                    IF s = c THEN cobjects[s] \cup {nextObject}
                             ELSE cobjects[s]]

(* Mutation: the objects stay in the index after they left their owners.   *)
KeepsObjects(gone) ==
  /\ UNCHANGED <<objects, owner, sigs>>
  /\ cobjects' = [s \in Slots |-> cobjects[s] \ gone]

(* Mutation: the table of signals is released and not emptied.             *)
LosesTable(gone) ==
  /\ objects' = objects \ gone
  /\ sigs' = [o \in ObjectIds \ gone |-> sigs[o]]
  /\ cobjects' = [s \in Slots |-> cobjects[s] \ gone]
  /\ UNCHANGED owner

(* objectFinalise drops the objects in gone from the index, frees their    *)
(* lists of subscribers and takes them off their owners' lists.            *)
ObjectFinalise(gone) ==
  /\ objects' = objects \ gone
  /\ owner' = [o \in ObjectIds |-> IF o \in gone THEN Server ELSE owner[o]]
  /\ sigs' = [o \in ObjectIds |->
                IF o \in gone THEN [n \in Signals |-> {}] ELSE sigs[o]]
  /\ cobjects' = [s \in Slots |-> cobjects[s] \ gone]

(* What clientUnsubscribedSignal removes from the subscribers' own lists   *)
(* when the objects in gone are destroyed by objectDestroy.                *)
Unrecorded(s, gone) ==
  {sub \in csubs[s] : sub[1] \in gone /\ s \in sigs[sub[1]][sub[2]]}

-----------------------------------------------------------------------------
(* Only the desktop, created by the window manager module, exists before   *)
(* the first client connects.                                              *)
Init ==
  /\ live = {}
  /\ objects = {1}
  /\ nextObject = 2
  /\ owner = [o \in ObjectIds |-> Server]
  /\ cobjects = [s \in Slots |-> {}]
  /\ sigs = [o \in ObjectIds |-> [n \in Signals |-> {}]]
  /\ csubs = [s \in Slots |-> {}]
  /\ asked = [s \in Slots |-> {}]
  /\ events = [s \in Slots |-> {}]
  /\ undefined = FALSE

(* A connection is accepted: clientRegister.  The record may be placed in  *)
(* any free block.                                                         *)
ClientRegister(c) ==
  /\ ~undefined
  /\ c \notin live
  /\ live' = live \cup {c}
  /\ cobjects' = [cobjects EXCEPT ![c] = {}]
  /\ csubs' = [csubs EXCEPT ![c] = {}]
  /\ asked' = [asked EXCEPT ![c] = {}]
  /\ events' = [events EXCEPT ![c] = {}]
  /\ UNCHANGED <<objects, nextObject, owner, sigs, undefined>>

(* A constructor, invoked as a class method by client c.                   *)
Instantiate(c) ==
  /\ ~undefined
  /\ c \in live
  /\ ObjectInitialise(c)
  /\ UNCHANGED <<live, sigs, csubs, asked, events, undefined>>

(* clientSubscribedSignal is called for a new subscriber, and records the  *)
(* signals of objects that are not the client's own.                       *)
(* Mutation: it records those of its own objects too.                      *)
RecordsOwn(c, o, n) == c \notin sigs[o][n]
IsRecorded(c, o, n) == c \notin sigs[o][n] /\ o \notin cobjects[c]

(* subscribeSignal.  Looking c up in the list compares it with its         *)
(* members.                                                                *)
SubscribeSignal(c, o, n) ==
  /\ ~undefined
  /\ c \in live /\ o \in Nameable(c)
  /\ undefined' \in MayBeUndefined(Dangling(o, n) # {})
  /\ sigs' = [sigs EXCEPT ![o][n] = @ \cup {c}]
  /\ csubs' = [csubs EXCEPT ![c] =
                 IF IsRecorded(c, o, n) THEN @ \cup {<<o, n>>} ELSE @]
  /\ asked' = [asked EXCEPT ![c] = @ \cup {<<o, n>>}]
  /\ UNCHANGED <<live, objects, nextObject, owner, cobjects, events>>

(* objectUnsubscribeSignal looks the client up by the signal's name        *)
(* instead of the client: the comparison reads a client id from bytes 8 to *)
(* 11 of the name.  In a name of 12 bytes or more those are characters and *)
(* match no id; a shorter name may match any subscriber, or none ({}).     *)
StrayMatches(o, n) ==
  {{}} \cup (IF n \in ShortNames THEN {{d} : d \in sigs[o][n]} ELSE {})

(* unsubscribeSignal, which libYc++ never invokes.  When the last          *)
(* subscriber is taken off the list, the signal itself is looked up by its *)
(* address instead of its name, is not found, and the NULL result is       *)
(* dereferenced.                                                           *)
UnsubscribeSignal(c, o, n) ==
  /\ ~undefined /\ ~Disciplined
  /\ c \in live /\ o \in Nameable(c)
  /\ sigs[o][n] # {}
  /\ \E removed \in StrayMatches(o, n) :
       /\ sigs' = [sigs EXCEPT ![o][n] = @ \ removed]
       /\ csubs' = [csubs EXCEPT ![c] =
                      IF removed # {} THEN @ \ {<<o, n>>} ELSE @]
       /\ undefined' \in IF removed # {} /\ sigs[o][n] = removed
                         THEN {TRUE}
                         ELSE MayBeUndefined(Dangling(o, n) # {})
  /\ asked' = [asked EXCEPT ![c] = @ \ {<<o, n>>}]
  /\ UNCHANGED <<live, objects, nextObject, owner, cobjects, events>>

(* DESTROY, invoked as an instance method by client c: the destructor runs *)
(* objectFinalise but not objectDestroy, so that the subscribers' records  *)
(* of the object stay.                                                     *)
DestroyMethod(c, o) ==
  /\ ~undefined
  /\ c \in live /\ o \in Nameable(c)
  /\ ObjectFinalise({o})
  /\ UNCHANGED <<live, nextObject, csubs, asked, events, undefined>>

(* A widget emits a signal: one event for each client on the list; events  *)
(* for a block that holds no client find no destination.                   *)
EmitSignal(o, n) ==
  /\ ~undefined
  /\ o \in objects
  /\ sigs[o][n] # {}
  /\ undefined' \in MayBeUndefined(Dangling(o, n) # {})
  /\ events' = [s \in Slots |->
                  IF s \in sigs[o][n] \cap live
                  THEN events[s] \cup {<<o, n>>} ELSE events[s]]
  /\ UNCHANGED <<live, objects, nextObject, owner, cobjects, sigs, csubs,
                 asked>>

(* The objects a client subscribed to and that no longer exist.            *)
Stale(c) == {sub \in csubs[c] : sub[1] \notin objects}

(* clientClose follows every recorded subscription to its object, and      *)
(* clientDestructorFunction destroys the client's objects, following every *)
(* subscriber of theirs.                                                   *)
CloseRisk(c) ==
  \/ Stale(c) # {}
  \/ \E sub \in csubs[c] : sub[2] \in ShortNames
  \/ \E sub \in csubs[c] : Dangling(sub[1], sub[2]) # {}
  \/ \E o \in cobjects[c], n \in Signals : Dangling(o, n) # {}

(* The connection of c ends (YMO_QUIT, YMO_ERROR, a protocol error, end of *)
(* file): clientClose.  Its objectUnsubscribeSignal calls change no list   *)
(* unless a stray match removes the record being iterated over, which is   *)
(* one of the ways into undefined.                                         *)
ClientClose(c) ==
  /\ ~undefined
  /\ c \in live
  /\ undefined' \in MayBeUndefined(CloseRisk(c))
  /\ live' = live \ {c}
  /\ ObjectFinalise(cobjects[c])
  /\ csubs' = [s \in Slots |->
                 IF s = c THEN {}
                 ELSE csubs[s] \ Unrecorded(s, cobjects[c])]
  /\ asked' = [asked EXCEPT ![c] = {}]
  /\ events' = [events EXCEPT ![c] = {}]
  /\ UNCHANGED nextObject

(* The client receives what was queued for it.                             *)
ReadEvents(c) ==
  /\ ~undefined
  /\ c \in live
  /\ events[c] # {}
  /\ events' = [events EXCEPT ![c] = {}]
  /\ UNCHANGED <<live, objects, nextObject, owner, cobjects, sigs, csubs,
                 asked, undefined>>

(* Nothing is said about what follows a use of released memory.            *)
Undefined == undefined /\ UNCHANGED vars

(* What can happen while all clients are of libYc++ (Disciplined) and      *)
(* nothing undefined has: the rest of Next is then disabled.               *)
LibraryNext ==
  \/ \E c \in Slots : \/ ClientRegister(c)
                      \/ Instantiate(c)
                      \/ ClientClose(c)
                      \/ ReadEvents(c)
  \/ \E c \in Slots, o \in ObjectIds :
       \/ DestroyMethod(c, o)
       \/ \E n \in Signals : SubscribeSignal(c, o, n)
  \/ \E o \in ObjectIds, n \in Signals : EmitSignal(o, n)

Next ==
  \/ LibraryNext
  \/ \E c \in Slots, o \in ObjectIds, n \in Signals : UnsubscribeSignal(c, o, n)
  \/ Undefined

Spec == Init /\ [][Next]_vars
LibrarySpec == Init /\ [][LibraryNext]_vars

-----------------------------------------------------------------------------
TypeOK ==
  /\ live \subseteq Slots
  /\ objects \subseteq ObjectIds
  /\ nextObject \in 1 .. MaxObjects + 1
  /\ owner \in [ObjectIds -> Slots \cup {Server}]
  /\ cobjects \in [Slots -> SUBSET ObjectIds]
  /\ sigs \in [ObjectIds -> [Signals -> SUBSET Slots]]
  /\ csubs \in [Slots -> SUBSET Subscription]
  /\ asked \in [Slots -> SUBSET Subscription]
  /\ events \in [Slots -> SUBSET Subscription]
  /\ undefined \in BOOLEAN

(* The owner recorded in an object and the list of objects of each client  *)
(* agree, and no object of a client outlives its connection: an object is  *)
(* on a client's list exactly when it exists and names that client, which  *)
(* is connected (objectInitialise, objectFinalise, clientClose).           *)
OwnershipAgrees ==
  /\ \A c \in Slots, o \in ObjectIds :
       o \in cobjects[c] <=> o \in objects /\ owner[o] = c
  /\ \A o \in objects : owner[o] # Server => owner[o] \in live

(* A client keeps records of subscriptions only to signals of objects it   *)
(* does not own, and a record of a signal with a long name stands for an   *)
(* entry in that object's list of subscribers as long as the object        *)
(* exists (clientSubscribedSignal, objectSubscribeSignal).                 *)
RecordsBacked ==
  \A c \in live : \A sub \in csubs[c] :
    /\ owner[sub[1]] # c
    /\ sub[1] \in objects /\ sub[2] \notin ShortNames
         => c \in sigs[sub[1]][sub[2]]

(* The server touches no released memory, whatever the order of            *)
(* connections, subscriptions, destructions and disconnections: clientClose *)
(* follows records of subscriptions, objectDestroy and objectEmitSignal    *)
(* the lists of subscribers.  Holds for clients that use libYc++.          *)
NeverUndefined == ~undefined

(* Every list of subscribers names connected clients only, and each of     *)
(* them asked for the signal itself, also when the memory of a closed      *)
(* connection is used for a new one: "Unsubscribe the client"              *)
(* (object.c:236).  Holds for clients that use libYc++.                    *)
SubscribersAsked ==
  \A o \in ObjectIds, n \in Signals : \A s \in sigs[o][n] :
    s \in live /\ <<o, n>> \in asked[s]

(* No event is queued for a client that did not ask for it, in particular  *)
(* not for the successor of the client that did.  Holds for clients that   *)
(* use libYc++.                                                            *)
EventsAsked == \A s \in live : events[s] \subseteq asked[s]
=============================================================================
