------------------------- MODULE ObjectSystemProofs -------------------------
(***************************************************************************)
(* Proofs about ObjectSystem: types and ownership for any client, and, for *)
(* clients that use libYc++, that no released memory is touched and no     *)
(* event reaches a client that did not ask for it.                         *)
(***************************************************************************)
EXTENDS ObjectSystem, TLAPS

ConstantsOK ==
  /\ Server \notin Slots
  /\ MaxObjects \in Nat \ {0}
  /\ ShortNames \subseteq Signals
  /\ Disciplined \in BOOLEAN

LEMMA Constants == ConstantsOK
BY SlotsAssumption, MaxObjectsAssumption, SignalsAssumption,
   DisciplinedAssumption DEF ConstantsOK

(***************************************************************************)
(* Types and ownership.  Ids are handed out once: the next one names no    *)
(* object yet, so that filing it under its client steals nobody's object.  *)
(***************************************************************************)
FreshIds == \A o \in objects : o < nextObject

OwnInv == TypeOK /\ FreshIds /\ OwnershipAgrees

LEMMA InitOwnInv == Init => OwnInv
<1> SUFFICES ASSUME Init PROVE OwnInv
  OBVIOUS
<1>1. live \subseteq Slots /\ undefined \in BOOLEAN
  BY DEF Init
<1>2. objects \subseteq ObjectIds /\ nextObject \in 1 .. MaxObjects + 1
  BY Constants DEF ConstantsOK, Init, ObjectIds
<1>3. /\ owner \in [ObjectIds -> Slots \cup {Server}]
      /\ sigs \in [ObjectIds -> [Signals -> SUBSET Slots]]
  BY DEF Init
<1>4. /\ cobjects \in [Slots -> SUBSET ObjectIds]
      /\ csubs \in [Slots -> SUBSET Subscription]
      /\ asked \in [Slots -> SUBSET Subscription]
      /\ events \in [Slots -> SUBSET Subscription]
  BY DEF Init
<1>5. FreshIds
  BY DEF Init, FreshIds
<1>6. OwnershipAgrees
  BY Constants, <1>2 DEF ConstantsOK, Init, OwnershipAgrees
<1> QED BY <1>1, <1>2, <1>3, <1>4, <1>5, <1>6 DEF OwnInv, TypeOK

(* objectInitialise, run for a connected client.                           *)
LEMMA InitialiseOwn ==
  ASSUME NEW c \in live, OwnInv, ObjectInitialise(c),
         UNCHANGED <<live, sigs, csubs, asked, events, undefined>>
  PROVE  OwnInv'
<1> USE Constants DEF ConstantsOK, OwnInv
<1>1. c \in Slots /\ nextObject \in ObjectIds /\ nextObject \notin objects
  BY DEF TypeOK, FreshIds, ObjectInitialise, ObjectIds
<1>2. TypeOK'
  BY <1>1 DEF TypeOK, ObjectInitialise, ObjectIds
<1>3. FreshIds'
  BY <1>1 DEF TypeOK, FreshIds, ObjectInitialise, ObjectIds
<1>4. OwnershipAgrees'
  BY <1>1 DEF TypeOK, OwnershipAgrees, ObjectInitialise
<1> QED BY <1>2, <1>3, <1>4

(* objectFinalise, run for any set of objects while the clients stay.      *)
LEMMA FinaliseOwn ==
  ASSUME NEW gone \in SUBSET ObjectIds, OwnInv, ObjectFinalise(gone),
         live' \in SUBSET live, nextObject' = nextObject,
         \A o \in objects \ gone : owner[o] # Server => owner[o] \in live'
  PROVE  /\ objects' \in SUBSET ObjectIds
         /\ owner' \in [ObjectIds -> Slots \cup {Server}]
         /\ cobjects' \in [Slots -> SUBSET ObjectIds]
         /\ sigs' \in [ObjectIds -> [Signals -> SUBSET Slots]]
         /\ FreshIds' /\ OwnershipAgrees'
<1> USE Constants DEF ConstantsOK, OwnInv, TypeOK, ObjectFinalise
<1>1. objects' \in SUBSET ObjectIds
  OBVIOUS
<1>2. owner' \in [ObjectIds -> Slots \cup {Server}]
  OBVIOUS
<1>3. cobjects' \in [Slots -> SUBSET ObjectIds]
  OBVIOUS
<1>4. sigs' \in [ObjectIds -> [Signals -> SUBSET Slots]]
  OBVIOUS
<1>5. FreshIds'
  BY DEF FreshIds
<1>6. OwnershipAgrees'
  BY DEF OwnershipAgrees
<1> QED BY <1>1, <1>2, <1>3, <1>4, <1>5, <1>6

LEMMA NextOwnInv == OwnInv /\ [Next]_vars => OwnInv'
<1> SUFFICES ASSUME OwnInv, [Next]_vars PROVE OwnInv'
  OBVIOUS
<1> USE Constants DEF ConstantsOK
<1>1. ASSUME NEW c \in Slots, ClientRegister(c) PROVE OwnInv'
  <2>1. cobjects[c] = {}
    BY <1>1 DEF OwnInv, TypeOK, OwnershipAgrees, ClientRegister
  <2>2. TypeOK'
    BY <1>1 DEF OwnInv, TypeOK, ClientRegister
  <2>3. FreshIds' /\ OwnershipAgrees'
    BY <1>1, <2>1 DEF OwnInv, TypeOK, FreshIds, OwnershipAgrees,
                      ClientRegister
  <2> QED BY <2>2, <2>3 DEF OwnInv
<1>2. ASSUME NEW c \in Slots, Instantiate(c) PROVE OwnInv'
  BY <1>2, InitialiseOwn DEF Instantiate
<1>3. ASSUME NEW c \in Slots, ClientClose(c) PROVE OwnInv'
  <2>1. cobjects[c] \in SUBSET ObjectIds
    BY DEF OwnInv, TypeOK
  <2>2. \A o \in objects \ cobjects[c] :
          owner[o] # Server => owner[o] \in live'
    BY <1>3 DEF OwnInv, TypeOK, OwnershipAgrees, ClientClose
  <2>3. ObjectFinalise(cobjects[c]) /\ live' \in SUBSET live
        /\ nextObject' = nextObject
    BY <1>3 DEF ClientClose
  <2>4. /\ objects' \in SUBSET ObjectIds
        /\ owner' \in [ObjectIds -> Slots \cup {Server}]
        /\ cobjects' \in [Slots -> SUBSET ObjectIds]
        /\ sigs' \in [ObjectIds -> [Signals -> SUBSET Slots]]
        /\ FreshIds' /\ OwnershipAgrees'
    BY <2>1, <2>2, <2>3, FinaliseOwn
  <2>5. /\ csubs' \in [Slots -> SUBSET Subscription]
        /\ asked' \in [Slots -> SUBSET Subscription]
        /\ events' \in [Slots -> SUBSET Subscription]
        /\ undefined' \in BOOLEAN
        /\ live' \subseteq Slots
        /\ nextObject' \in 1 .. MaxObjects + 1
    BY <1>3 DEF OwnInv, TypeOK, ClientClose, MayBeUndefined
  <2> QED BY <2>4, <2>5 DEF OwnInv, TypeOK
<1>4. ASSUME NEW c \in Slots, ReadEvents(c) PROVE OwnInv'
  BY <1>4 DEF OwnInv, TypeOK, FreshIds, OwnershipAgrees, ReadEvents
<1>5. ASSUME NEW c \in Slots, NEW o \in ObjectIds, DestroyMethod(c, o)
      PROVE  OwnInv'
  <2>1. /\ ObjectFinalise({o}) /\ live' \in SUBSET live
        /\ nextObject' = nextObject /\ {o} \in SUBSET ObjectIds
        /\ \A p \in objects \ {o} : owner[p] # Server => owner[p] \in live'
    BY <1>5 DEF OwnInv, OwnershipAgrees, DestroyMethod
  <2>2. /\ objects' \in SUBSET ObjectIds
        /\ owner' \in [ObjectIds -> Slots \cup {Server}]
        /\ cobjects' \in [Slots -> SUBSET ObjectIds]
        /\ sigs' \in [ObjectIds -> [Signals -> SUBSET Slots]]
        /\ FreshIds' /\ OwnershipAgrees'
    BY <2>1, FinaliseOwn
  <2> QED BY <1>5, <2>2 DEF OwnInv, TypeOK, DestroyMethod
<1>6. ASSUME NEW c \in Slots, NEW o \in ObjectIds, NEW n \in Signals,
             SubscribeSignal(c, o, n)
      PROVE  OwnInv'
  <2>1. sigs' \in [ObjectIds -> [Signals -> SUBSET Slots]]
    BY <1>6 DEF OwnInv, TypeOK, SubscribeSignal
  <2>2. csubs' \in [Slots -> SUBSET Subscription]
    <3>1. <<o, n>> \in Subscription
      BY DEF Subscription
    <3> QED BY <1>6, <3>1 DEF OwnInv, TypeOK, SubscribeSignal
  <2>3. asked' \in [Slots -> SUBSET Subscription]
    <3>1. <<o, n>> \in Subscription
      BY DEF Subscription
    <3> QED BY <1>6, <3>1 DEF OwnInv, TypeOK, SubscribeSignal
  <2>4. undefined' \in BOOLEAN
    BY <1>6 DEF SubscribeSignal, IsRecorded, MayBeUndefined
  <2> QED BY <1>6, <2>1, <2>2, <2>3, <2>4
          DEF OwnInv, TypeOK, FreshIds, OwnershipAgrees, SubscribeSignal
<1>7. ASSUME NEW c \in Slots, NEW o \in ObjectIds, NEW n \in Signals,
             UnsubscribeSignal(c, o, n)
      PROVE  OwnInv'
  <2>1. PICK removed \in StrayMatches(o, n) :
          /\ sigs' = [sigs EXCEPT ![o][n] = @ \ removed]
          /\ csubs' = [csubs EXCEPT ![c] =
                         IF removed # {} THEN @ \ {<<o, n>>} ELSE @]
          /\ undefined' \in IF removed # {} /\ sigs[o][n] = removed
                            THEN {TRUE}
                            ELSE MayBeUndefined(Dangling(o, n) # {})
    BY <1>7 DEF UnsubscribeSignal
  <2>2. sigs' \in [ObjectIds -> [Signals -> SUBSET Slots]]
    BY <2>1 DEF OwnInv, TypeOK
  <2>3. csubs' \in [Slots -> SUBSET Subscription]
    BY <2>1 DEF OwnInv, TypeOK
  <2>4. undefined' \in BOOLEAN
    BY <2>1 DEF MayBeUndefined
  <2>5. asked' \in [Slots -> SUBSET Subscription]
    BY <1>7 DEF OwnInv, TypeOK, UnsubscribeSignal
  <2> QED BY <1>7, <2>2, <2>3, <2>4, <2>5
          DEF OwnInv, TypeOK, FreshIds, OwnershipAgrees, UnsubscribeSignal
<1>8. ASSUME NEW o \in ObjectIds, NEW n \in Signals, EmitSignal(o, n)
      PROVE  OwnInv'
  <2>1. <<o, n>> \in Subscription
    BY DEF Subscription
  <2>2. events' \in [Slots -> SUBSET Subscription]
    BY <1>8, <2>1 DEF OwnInv, TypeOK, EmitSignal
  <2>3. undefined' \in BOOLEAN
    BY <1>8 DEF EmitSignal, MayBeUndefined
  <2> QED BY <1>8, <2>2, <2>3
          DEF OwnInv, TypeOK, FreshIds, OwnershipAgrees, EmitSignal
<1>9. CASE UNCHANGED vars
  BY <1>9 DEF OwnInv, TypeOK, FreshIds, OwnershipAgrees, vars
<1> QED
  BY <1>1, <1>2, <1>3, <1>4, <1>5, <1>6, <1>7, <1>8, <1>9
  DEF Next, LibraryNext, Undefined

(* Every reachable state of the object system has the types of TypeOK.     *)
THEOREM TypeCorrect == Spec => []TypeOK
<1>1. OwnInv => TypeOK
  BY DEF OwnInv
<1> QED BY InitOwnInv, NextOwnInv, <1>1, PTL DEF Spec

(* The owner of an object and the owner's list of objects always agree,    *)
(* and no object outlives the connection that owns it, for any clients.    *)
THEOREM Ownership == Spec => []OwnershipAgrees
<1>1. OwnInv => OwnershipAgrees
  BY DEF OwnInv
<1> QED BY InitOwnInv, NextOwnInv, <1>1, PTL DEF Spec

(***************************************************************************)
(* Clients of libYc++.  Such a client subscribes to its own objects only,  *)
(* so that no subscription is recorded in a client, and clientClose takes  *)
(* the list of subscribers with the object: this is what keeps the records *)
(* of the two sides from ever disagreeing.                                 *)
(***************************************************************************)
OwnSubscribersOnly ==
  \A o \in ObjectIds, n \in Signals : \A s \in sigs[o][n] :
    o \in objects /\ owner[o] = s /\ <<o, n>> \in asked[s]

LibInv ==
  /\ OwnInv
  /\ undefined = FALSE
  /\ csubs = [s \in Slots |-> {}]
  /\ OwnSubscribersOnly
  /\ EventsAsked

LEMMA InitLibInv == Init => LibInv
BY InitOwnInv DEF Init, LibInv, OwnSubscribersOnly, EventsAsked

(* A subscriber is the connected client that owns the object.              *)
LEMMA Subscriber ==
  ASSUME LibInv, NEW o \in ObjectIds, NEW n \in Signals,
         NEW s \in sigs[o][n]
  PROVE  /\ s \in Slots /\ s \in live
         /\ o \in objects /\ owner[o] = s /\ o \in cobjects[s]
         /\ <<o, n>> \in asked[s]
<1>1. sigs[o][n] \in SUBSET Slots
  <2>1. sigs[o] \in [Signals -> SUBSET Slots]
    BY DEF LibInv, OwnInv, TypeOK
  <2> QED BY <2>1
<1>2. s \in Slots /\ s # Server
  BY <1>1, Constants DEF ConstantsOK
<1>3. o \in objects /\ owner[o] = s /\ <<o, n>> \in asked[s]
  BY DEF LibInv, OwnSubscribersOnly
<1>4. s \in live /\ o \in cobjects[s]
  BY <1>2, <1>3 DEF LibInv, OwnInv, OwnershipAgrees
<1> QED BY <1>2, <1>3, <1>4

(* A list of subscribers never names a released block.                     *)
LEMMA NoneDangling ==
  ASSUME LibInv, NEW o \in ObjectIds, NEW n \in Signals
  PROVE  Dangling(o, n) = {}
BY Subscriber DEF Dangling

LEMMA NextLibInv == Disciplined = TRUE /\ LibInv /\ [Next]_vars => LibInv'
<1> SUFFICES ASSUME Disciplined = TRUE, LibInv, [Next]_vars PROVE LibInv'
  OBVIOUS
<1> USE Constants DEF ConstantsOK
<1>0. OwnInv /\ OwnInv'
  BY NextOwnInv DEF LibInv
<1>1. ASSUME NEW c \in Slots, ClientRegister(c) PROVE LibInv'
  <2>1. \A o \in ObjectIds, n \in Signals : c \notin sigs[o][n]
    BY <1>1, Subscriber DEF ClientRegister
  <2>2. OwnSubscribersOnly'
    <3> SUFFICES ASSUME NEW o \in ObjectIds, NEW n \in Signals,
                        NEW s \in sigs[o][n]
                 PROVE  o \in objects /\ owner[o] = s
                        /\ <<o, n>> \in asked'[s]
      BY <1>1 DEF OwnSubscribersOnly, ClientRegister
    <3>1. s # c /\ s \in Slots /\ <<o, n>> \in asked[s]
      BY <2>1, Subscriber
    <3>2. asked'[s] = asked[s]
      BY <1>0, <1>1, <3>1 DEF OwnInv, TypeOK, ClientRegister
    <3> QED BY <3>1, <3>2, Subscriber
  <2>3. EventsAsked'
    BY <1>0, <1>1 DEF LibInv, OwnInv, TypeOK, EventsAsked, ClientRegister
  <2> QED BY <1>0, <1>1, <2>2, <2>3 DEF LibInv, ClientRegister
<1>2. ASSUME NEW c \in Slots, Instantiate(c) PROVE LibInv'
  <2>1. nextObject \notin objects /\ nextObject \in ObjectIds
    BY <1>0, <1>2 DEF OwnInv, TypeOK, FreshIds, Instantiate,
                      ObjectInitialise, ObjectIds
  <2>2. OwnSubscribersOnly'
    <3> SUFFICES ASSUME NEW o \in ObjectIds, NEW n \in Signals,
                        NEW s \in sigs[o][n]
                 PROVE  o \in objects' /\ owner'[o] = s
                        /\ <<o, n>> \in asked[s]
      BY <1>2 DEF OwnSubscribersOnly, Instantiate
    <3>1. o \in objects /\ owner[o] = s /\ <<o, n>> \in asked[s]
      BY Subscriber
    <3> QED BY <1>0, <1>2, <2>1, <3>1
            DEF OwnInv, TypeOK, Instantiate, ObjectInitialise
  <2>3. EventsAsked'
    BY <1>2 DEF LibInv, EventsAsked, Instantiate
  <2> QED BY <1>0, <1>2, <2>2, <2>3 DEF LibInv, Instantiate
<1>3. ASSUME NEW c \in Slots, ClientClose(c) PROVE LibInv'
  <2>1. ~CloseRisk(c)
    BY <1>0, NoneDangling
    DEF LibInv, OwnInv, TypeOK, CloseRisk, Stale
  <2>2. undefined' = FALSE
    BY <1>3, <2>1 DEF ClientClose, MayBeUndefined
  <2>3. csubs' = [s \in Slots |-> {}]
    BY <1>3 DEF LibInv, ClientClose
  <2>4. OwnSubscribersOnly'
    <3> SUFFICES ASSUME NEW o \in ObjectIds, NEW n \in Signals,
                        NEW s \in sigs'[o][n]
                 PROVE  o \in objects' /\ owner'[o] = s
                        /\ <<o, n>> \in asked'[s]
      BY DEF OwnSubscribersOnly
    <3>1. o \notin cobjects[c] /\ s \in sigs[o][n]
      BY <1>3 DEF ClientClose, ObjectFinalise
    <3>2. s \in Slots /\ o \in cobjects[s]
      BY <3>1, Subscriber
    <3>3. s # c
      BY <3>1, <3>2
    <3> QED BY <1>0, <1>3, <3>1, <3>2, <3>3
            DEF LibInv, OwnInv, TypeOK, OwnSubscribersOnly, ClientClose,
                ObjectFinalise
  <2>5. EventsAsked'
    BY <1>0, <1>3 DEF LibInv, OwnInv, TypeOK, EventsAsked, ClientClose
  <2> QED BY <1>0, <2>2, <2>3, <2>4, <2>5 DEF LibInv
<1>4. ASSUME NEW c \in Slots, ReadEvents(c) PROVE LibInv'
  <2>1. EventsAsked'
    BY <1>0, <1>4 DEF LibInv, OwnInv, TypeOK, EventsAsked, ReadEvents
  <2> QED BY <1>0, <1>4, <2>1 DEF LibInv, OwnSubscribersOnly, ReadEvents
<1>5. ASSUME NEW c \in Slots, NEW o \in ObjectIds, DestroyMethod(c, o)
      PROVE  LibInv'
  <2>1. OwnSubscribersOnly'
    BY <1>0, <1>5 DEF LibInv, OwnInv, TypeOK, OwnSubscribersOnly,
                      DestroyMethod, ObjectFinalise
  <2> QED BY <1>0, <1>5, <2>1 DEF LibInv, EventsAsked, DestroyMethod
<1>6. ASSUME NEW c \in Slots, NEW o \in ObjectIds, NEW n \in Signals,
             SubscribeSignal(c, o, n)
      PROVE  LibInv'
  <2>1. o \in cobjects[c] /\ o \in objects /\ owner[o] = c
    BY <1>0, <1>6 DEF OwnInv, OwnershipAgrees, SubscribeSignal, Nameable
  <2>2. undefined' = FALSE
    BY <1>6, NoneDangling DEF SubscribeSignal, IsRecorded, MayBeUndefined
  <2>3. csubs' = [s \in Slots |-> {}]
    BY <1>6, <2>1 DEF LibInv, SubscribeSignal, IsRecorded
  <2>4. OwnSubscribersOnly'
    <3> SUFFICES ASSUME NEW p \in ObjectIds, NEW m \in Signals,
                        NEW s \in sigs'[p][m]
                 PROVE  p \in objects /\ owner[p] = s
                        /\ <<p, m>> \in asked'[s]
      <4>1. objects' = objects /\ owner' = owner
        BY <1>6 DEF SubscribeSignal, IsRecorded
      <4> QED BY <4>1 DEF OwnSubscribersOnly
    <3>1. CASE s \in sigs[p][m]
      <4>1. s \in Slots /\ <<p, m>> \in asked[s]
        BY <3>1, Subscriber
      <4>2. <<p, m>> \in asked'[s]
        BY <1>0, <1>6, <4>1 DEF OwnInv, TypeOK, SubscribeSignal
      <4> QED BY <3>1, <4>2, Subscriber
    <3>2. CASE s \notin sigs[p][m]
      <4>1. p = o /\ m = n /\ s = c
        BY <1>0, <1>6, <3>2 DEF OwnInv, TypeOK, SubscribeSignal
      <4>2. <<p, m>> \in asked'[s]
        BY <1>0, <1>6, <4>1 DEF OwnInv, TypeOK, SubscribeSignal
      <4> QED BY <2>1, <4>1, <4>2
    <3> QED BY <3>1, <3>2
  <2>5. EventsAsked'
    BY <1>0, <1>6
    DEF LibInv, OwnInv, TypeOK, EventsAsked, SubscribeSignal
  <2> QED BY <1>0, <2>2, <2>3, <2>4, <2>5 DEF LibInv
<1>7. ASSUME NEW c \in Slots, NEW o \in ObjectIds, NEW n \in Signals,
             UnsubscribeSignal(c, o, n)
      PROVE  LibInv'
  BY <1>7 DEF UnsubscribeSignal
<1>8. ASSUME NEW o \in ObjectIds, NEW n \in Signals, EmitSignal(o, n)
      PROVE  LibInv'
  <2>1. undefined' = FALSE
    BY <1>8, NoneDangling DEF EmitSignal, MayBeUndefined
  <2>2. EventsAsked'
    BY <1>0, <1>8 DEF LibInv, OwnInv, TypeOK, OwnSubscribersOnly,
                      EventsAsked, EmitSignal
  <2> QED BY <1>0, <1>8, <2>1, <2>2
          DEF LibInv, OwnSubscribersOnly, EmitSignal
<1>9. CASE UNCHANGED vars
  BY <1>0, <1>9 DEF LibInv, OwnSubscribersOnly, EventsAsked, vars
<1> QED
  BY <1>1, <1>2, <1>3, <1>4, <1>5, <1>6, <1>7, <1>8, <1>9
  DEF Next, LibraryNext, Undefined

LEMMA LibrarySafe == Disciplined => (Spec => []LibInv)
<1> SUFFICES ASSUME Disciplined = TRUE PROVE Spec => []LibInv
  BY Constants DEF ConstantsOK
<1>1. LibInv /\ [Next]_vars => LibInv'
  BY NextLibInv
<1> QED BY InitLibInv, <1>1, PTL DEF Spec

(* Clients of libYc++ never make the server touch released memory.         *)
THEOREM LibraryNeverUndefined == Disciplined => (Spec => []NeverUndefined)
<1>1. LibInv => NeverUndefined
  BY DEF LibInv, NeverUndefined
<1> QED BY LibrarySafe, <1>1, PTL

(* With clients of libYc++, the lists of subscribers name only connected   *)
(* clients, each of which asked for the signal itself.                     *)
THEOREM LibrarySubscribers == Disciplined => (Spec => []SubscribersAsked)
<1>1. LibInv => SubscribersAsked
  BY Subscriber DEF SubscribersAsked
<1> QED BY LibrarySafe, <1>1, PTL

(* With clients of libYc++, events go only to clients that asked for them, *)
(* also when memory of a closed connection serves a new client.            *)
THEOREM LibraryEvents == Disciplined => (Spec => []EventsAsked)
<1>1. LibInv => EventsAsked
  BY DEF LibInv
<1> QED BY LibrarySafe, <1>1, PTL

(***************************************************************************)
(* The records of subscriptions, with clients that name any object.  None  *)
(* is about an object that is still to be made, which its owner might be.  *)
(***************************************************************************)
RecordsOld == \A c \in live : \A sub \in csubs[c] : sub[1] < nextObject

RecordInv == RecordsBacked /\ RecordsOld

LEMMA NextRecordInv ==
  ASSUME OwnInv, OwnInv', RecordInv, [Next]_vars
  PROVE  RecordInv'
<1> USE Constants DEF ConstantsOK
<1>0. /\ live \subseteq Slots /\ nextObject \in Nat /\ objects \subseteq ObjectIds
      /\ owner \in [ObjectIds -> Slots \cup {Server}] /\ csubs \in [Slots -> SUBSET Subscription]
      /\ sigs \in [ObjectIds -> [Signals -> SUBSET Slots]]
      /\ Subscription = ObjectIds \X Signals /\ ObjectIds \subseteq Nat
  BY DEF OwnInv, TypeOK, Subscription, ObjectIds
(* Objects may go, their owner's name with them, and lists of others stay. *)
<1>1. ASSUME NEW gone \in SUBSET ObjectIds, ObjectFinalise(gone), live' \subseteq live,
             nextObject' = nextObject, \A s \in live' : csubs'[s] \subseteq csubs[s]
      PROVE  RecordInv'
  <2>1. ASSUME NEW s \in live', NEW sub \in csubs'[s]
        PROVE  /\ s \in live /\ sub \in csubs[s] /\ sub[1] \in ObjectIds /\ sub[2] \in Signals
               /\ owner'[sub[1]] # s
               /\ sub[1] \in objects' /\ sub[2] \notin ShortNames => s \in sigs'[sub[1]][sub[2]]
    <3>1. s \in live /\ sub \in csubs[s]
      BY <1>1
    <3>2. sub[1] \in ObjectIds /\ sub[2] \in Signals
      BY <1>0, <3>1
    <3>3. owner'[sub[1]] # s
      BY <1>0, <1>1, <3>1, <3>2 DEF RecordInv, RecordsBacked, ObjectFinalise
    <3>4. sub[1] \in objects' => sub[1] \in objects /\ sigs'[sub[1]] = sigs[sub[1]]
      BY <1>1, <3>2 DEF ObjectFinalise
    <3> QED BY <3>1, <3>2, <3>3, <3>4 DEF RecordInv, RecordsBacked
  <2> QED BY <1>1, <2>1 DEF RecordInv, RecordsBacked, RecordsOld
<1>2. ASSUME NEW c \in Slots, ClientRegister(c) PROVE RecordInv'
  <2>1. live' = live \cup {c} /\ csubs' = [csubs EXCEPT ![c] = {}] /\ c \notin live
        /\ UNCHANGED <<objects, nextObject, owner, sigs>>
    BY <1>2 DEF ClientRegister
  <2>2. csubs'[c] = {} /\ \A s \in live : csubs'[s] = csubs[s]
    BY <1>0, <2>1
  <2> QED BY <2>1, <2>2 DEF RecordInv, RecordsBacked, RecordsOld
<1>3. ASSUME NEW c \in Slots, Instantiate(c) PROVE RecordInv'
  <2>1. /\ nextObject' = nextObject + 1 /\ objects' = objects \cup {nextObject}
        /\ owner' = [owner EXCEPT ![nextObject] = c] /\ UNCHANGED <<live, sigs, csubs>>
    BY <1>3 DEF Instantiate, ObjectInitialise
  <2>2. ASSUME NEW s \in live, NEW sub \in csubs[s]
        PROVE  sub[1] \in ObjectIds /\ sub[1] # nextObject /\ sub[1] < nextObject
               /\ owner'[sub[1]] = owner[sub[1]]
    <3>1. sub[1] \in ObjectIds
      BY <1>0
    <3>2. sub[1] < nextObject
      BY DEF RecordInv, RecordsOld
    <3> QED BY <1>0, <2>1, <3>1, <3>2
  <2>3. RecordsOld'
    <3>1. SUFFICES ASSUME NEW s \in live, NEW sub \in csubs[s]
                   PROVE  sub[1] < nextObject'
      BY <2>1 DEF RecordsOld
    <3>2. sub[1] \in ObjectIds /\ sub[1] < nextObject
      BY <2>2
    <3>3. nextObject \in Nat /\ sub[1] \in Nat /\ nextObject' = nextObject + 1
      BY <2>1, <3>2 DEF ObjectIds, OwnInv, TypeOK
    <3> QED BY <3>2, <3>3, SMT
  <2> QED BY <2>1, <2>2, <2>3 DEF RecordInv, RecordsBacked
<1>4. ASSUME NEW c \in Slots, ClientClose(c) PROVE RecordInv'
  <2>1. cobjects[c] \in SUBSET ObjectIds
    BY DEF OwnInv, TypeOK
  <2>2. \A s \in live' : csubs'[s] \subseteq csubs[s]
    BY <1>0, <1>4 DEF ClientClose, Unrecorded
  <2> QED BY <1>1, <1>4, <2>1, <2>2 DEF ClientClose
<1>5. ASSUME NEW c \in Slots, NEW o \in ObjectIds, DestroyMethod(c, o) PROVE RecordInv'
  BY <1>1, <1>5 DEF DestroyMethod
<1>6. ASSUME NEW c \in Slots, NEW o \in ObjectIds, NEW n \in Signals, SubscribeSignal(c, o, n)
      PROVE  RecordInv'
  <2>1. /\ sigs' = [sigs EXCEPT ![o][n] = @ \cup {c}] /\ c \in live
        /\ csubs' = [csubs EXCEPT ![c] = IF IsRecorded(c, o, n) THEN @ \cup {<<o, n>>} ELSE @]
        /\ UNCHANGED <<live, objects, nextObject, owner, cobjects>>
    BY <1>6 DEF SubscribeSignal
  <2>2. o \in objects /\ o < nextObject
    BY <1>6 DEF SubscribeSignal, Nameable, OwnInv, OwnershipAgrees, FreshIds
  <2>3. \A p \in ObjectIds, m \in Signals : sigs[p][m] \subseteq sigs'[p][m]
    BY <1>0, <2>1
  <2>4. c \in sigs'[o][n]
    BY <1>0, <2>1
  <2>5. ASSUME NEW s \in live, NEW sub \in csubs'[s]
        PROVE  /\ owner[sub[1]] # s /\ sub[1] < nextObject
               /\ sub[1] \in objects /\ sub[2] \notin ShortNames => s \in sigs'[sub[1]][sub[2]]
    <3>1. CASE sub \in csubs[s]
      <4>1. sub[1] \in ObjectIds /\ sub[2] \in Signals
        BY <1>0, <3>1
      <4> QED BY <2>3, <3>1, <4>1 DEF RecordInv, RecordsBacked, RecordsOld
    <3>2. CASE sub \notin csubs[s]
      <4>1. s = c /\ sub = <<o, n>> /\ IsRecorded(c, o, n)
        BY <1>0, <2>1, <3>2
      <4>2. owner[o] # c
        BY <2>2, <4>1 DEF IsRecorded, OwnInv, OwnershipAgrees
      <4> QED BY <2>2, <2>4, <4>1, <4>2
    <3> QED BY <3>1, <3>2
  <2> QED BY <2>1, <2>5 DEF RecordInv, RecordsBacked, RecordsOld
(* A list that loses a stray match is that of a signal with a short name.  *)
<1>7. ASSUME NEW c \in Slots, NEW o \in ObjectIds, NEW n \in Signals, UnsubscribeSignal(c, o, n)
      PROVE  RecordInv'
  <2>1. PICK removed \in StrayMatches(o, n) :
          /\ sigs' = [sigs EXCEPT ![o][n] = @ \ removed]
          /\ csubs' = [csubs EXCEPT ![c] = IF removed # {} THEN @ \ {<<o, n>>} ELSE @]
          /\ UNCHANGED <<live, objects, nextObject, owner, cobjects>>
    BY <1>7 DEF UnsubscribeSignal
  <2>2. removed # {} => n \in ShortNames
    BY DEF StrayMatches
  <2>3. \A s \in live : csubs'[s] \subseteq csubs[s]
    BY <1>0, <2>1
  <2>4. \A p \in ObjectIds, m \in Signals : m \notin ShortNames => sigs'[p][m] = sigs[p][m]
    BY <1>0, <2>1, <2>2
  <2>5. ASSUME NEW s \in live, NEW sub \in csubs'[s]
        PROVE  /\ owner[sub[1]] # s /\ sub[1] < nextObject
               /\ sub[1] \in objects /\ sub[2] \notin ShortNames => s \in sigs'[sub[1]][sub[2]]
    <3>1. sub \in csubs[s] /\ sub[1] \in ObjectIds /\ sub[2] \in Signals
      BY <1>0, <2>3
    <3> QED BY <2>4, <3>1 DEF RecordInv, RecordsBacked, RecordsOld
  <2> QED BY <2>1, <2>5 DEF RecordInv, RecordsBacked, RecordsOld
<1>8. ASSUME UNCHANGED <<live, objects, nextObject, owner, sigs, csubs>> PROVE RecordInv'
  BY <1>8 DEF RecordInv, RecordsBacked, RecordsOld
<1> QED
  BY <1>2, <1>3, <1>4, <1>5, <1>6, <1>7, <1>8
  DEF Next, LibraryNext, Undefined, ReadEvents, EmitSignal, vars

(* Whatever objects clients name in their messages, what a client's record *)
(* keeps of a subscription stands for an entry in that object's list, for  *)
(* signals with long names, and is not about the client's own object       *)
(* (clientSubscribedSignal, objectUnsubscribeSignal).                      *)
THEOREM Records == Spec => []RecordsBacked
<1>1. Init => RecordInv
  BY DEF Init, RecordInv, RecordsBacked, RecordsOld
<1>2. RecordInv => RecordsBacked
  BY DEF RecordInv
<1>3. OwnInv /\ OwnInv' /\ RecordInv /\ [Next]_vars => RecordInv'
  BY NextRecordInv
<1> QED BY InitOwnInv, NextOwnInv, <1>1, <1>2, <1>3, PTL DEF Spec
=============================================================================
