------------------------------ MODULE Methods ------------------------------
(***************************************************************************)
(* Y/message/tuple.c, the despatch of requests of Y/message/message.c, the *)
(* classes of Y/object/class.c and the properties of Y/object/object.c,    *)
(* with the wrappers that build-misc/YCL/Server/C.pm generates: a request  *)
(* names an object, a method and arguments; the method is looked for in    *)
(* the class and those above it, one of its types is chosen for the        *)
(* arguments, they are cast to it, and the function is called.             *)
(* An object goes over the wire as its number, and may be destroyed before *)
(* the request arrives.                                                    *)
(***************************************************************************)
EXTENDS Integers, Sequences, FiniteSets, SequencesExt

CONSTANTS
  MaxId,         \* bound: objects made
  Nil,
  Half,          \* half of the numbers that a word holds
  Spelt,         \* the numbers that strings start with
  MaxLen,        \* bound: arguments of a request
  Classes, Supers,   \* superList of each class
  Methods,       \* the methods of each class: a list of types for each name
  Properties     \* the properties of each class, and their types

Kinds == {"string", "uint32", "int32", "object"}
Value(k, n) == [kind |-> k, n |-> n]

(* What valueFromString accepts: an object comes as a number.              *)
Sent == {Value("string", n) : n \in Spelt} \cup {Value("uint32", n) : n \in 0 .. 2 * Half - 1}
        \cup {Value("int32", n) : n \in -Half .. Half - 1}
MethodNames == UNION {DOMAIN Methods[c] : c \in Classes}
PropertyNames == UNION {DOMAIN Properties[c] : c \in Classes}

Ids == 1 .. MaxId

VARIABLES
  nextId,     \* objectNextID
  class,      \* the class of each object that exists
  props,      \* o->properties
  request,    \* the message on its way, if any
  outcome,    \* of the last one: whether it failed, and whether a reply was sent
  aborted,    \* the server read what is not there, and ended
  called      \* history: the types and arguments that the method got

vars == <<nextId, class, props, request, outcome, aborted, called>>

Init ==
  /\ nextId = 1
  /\ class = [o \in Ids |-> Nil]
  /\ props = [o \in Ids |-> [p \in PropertyNames |-> Nil]]
  /\ request = Nil /\ outcome = Nil /\ aborted = FALSE /\ called = Nil

objects == {o \in Ids : class[o] # Nil}

-----------------------------------------------------------------------------
(* classFindInstanceMethod and classGetPropertyClass: the class itself,    *)
(* then depth first those above it.                                        *)
Finder(table, name) ==
  LET find[c \in Classes] ==
        LET above == SelectSeq([i \in 1 .. Len(Supers[c]) |-> find[Supers[c][i]]], LAMBDA d : d # Nil)
        IN IF name \in DOMAIN table[c] THEN c ELSE IF above = <<>> THEN Nil ELSE above[1]
  IN find

(* valueStaticCast with out NULL, for a value that is not undefined.       *)
(* Mutation: the sign of a number is not looked at.                        *)
CanCastAnySign(v, t) ==
  \/ t \in {"any", v.kind}
  \/ t = "uint32" /\ v.kind \in {"object", "string", "int32"}
  \/ t = "int32" /\ v.kind \in {"string", "uint32"}
  \/ t = "object" /\ v.kind = "uint32" /\ v.n \in objects
CanCast(v, t) ==
  \/ t \in {"any", v.kind}
  \/ t = "uint32" /\ v.kind \in {"object", "string"}
  \/ t = "uint32" /\ v.kind = "int32" /\ v.n >= 0
  \/ t = "int32" /\ v.kind = "string"
  \/ t = "int32" /\ v.kind = "uint32" /\ v.n < Half
  \/ t = "object" /\ v.kind = "uint32" /\ v.n \in objects

Unsigned(n) == n % (2 * Half)
Signed(n) == ((n + Half) % (2 * Half)) - Half
(* Mutation: the value is stored as it came.                               *)
AsItCame(v, t) == v
Cast(v, t) ==
  IF t \in {"any", v.kind} THEN v
  ELSE Value(t, IF t = "int32" THEN Signed(v.n) ELSE Unsigned(v.n))

-----------------------------------------------------------------------------
(* tupleCheckType.  The loop ends at the first of these: a list, any, a    *)
(* value of the wrong type, or the first place after the tuple, which is   *)
(* read although there is nothing (count < i stands where <= is meant);    *)
(* lucky says whether what is found there passes.                          *)
Ends(t, type, fits(_, _)) ==
  {i \in 1 .. Len(type) : type[i] \in {"list", "any"} \/ i > Len(t) \/ ~fits(t[i], type[i])}

Verdict(t, type, perfect, lucky) ==
  LET fits(v, k) == IF perfect THEN v.kind = k ELSE CanCast(v, k)
      ends == Ends(t, type, fits)
      e == CHOOSE i \in ends : \A j \in ends : i <= j
  IN \/ ends = {} /\ Len(type) = Len(t)
     \/ ends # {} /\ type[e] = "list" /\ ~perfect
     \/ ends # {} /\ type[e] = "any" /\ Len(t) >= e - 1
     \/ /\ ends # {} /\ type[e] \in Kinds /\ e = Len(t) + 1
        /\ lucky /\ ~perfect /\ Len(type) = e + 1 /\ type[e + 1] = "list"

ReadsBeyond(t, type) ==
  LET ends == Ends(t, type, CanCast)
  IN ends # {} /\ LET e == CHOOSE i \in ends : \A j \in ends : i <= j
                  IN type[e] \in Kinds /\ e = Len(t) + 1

Least(S) == CHOOSE i \in S : \A j \in S : i <= j

(* tupleMatchType: an exact match; else the types that could match, made   *)
(* fewer from left to right, first by exact values, then by casts, last by *)
(* a list; else the type that is a single list.  0 is NULL.                *)
(* Mutation: the first type that could match.                              *)
FirstCandidate(t, types, lucky) ==
  LET candidates == {i \in 1 .. Len(types) : Verdict(t, types[i], FALSE, lucky)}
  IN IF candidates = {} THEN 0 ELSE Least(candidates)

MatchType(t, types, lucky) ==
  LET exact == {i \in 1 .. Len(types) : Verdict(t, types[i], TRUE, lucky)}
      single == {i \in 1 .. Len(types) : types[i] = <<"list">>}
      fallback == IF single = {} THEN 0 ELSE Least(single)
      candidates == {i \in 1 .. Len(types) : Verdict(t, types[i], FALSE, lucky)}
      narrowed[p \in 0 .. Len(t)] ==
        IF p = 0 THEN candidates
        ELSE LET left == {i \in narrowed[p - 1] : Len(types[i]) >= p}
                 same == {i \in left : types[i][p] = t[p].kind}
                 near == {i \in left : types[i][p] # "list" /\ CanCast(t[p], types[i][p])}
                 lists == {i \in left : types[i][p] = "list"}
             IN IF Cardinality(narrowed[p - 1]) <= 1 THEN narrowed[p - 1]
                ELSE IF same # {} THEN same ELSE IF near # {} THEN near
                ELSE IF Cardinality(lists) = 1 THEN lists
                ELSE IF lists = {} THEN {} ELSE {0}
      left == narrowed[Len(t)]
  IN IF exact # {} THEN Least(exact)
     ELSE IF Cardinality(single) > 1 THEN 0
     ELSE IF Cardinality(left) = 1 THEN CHOOSE i \in left : TRUE ELSE fallback

(* A value that is not there goes to valueStaticCast, which aborts for     *)
(* what is no type; tupleStaticCast reads it through NULL.                 *)
MayAbort(t, types) ==
  /\ \A i \in 1 .. Len(types) : ~Verdict(t, types[i], TRUE, FALSE)
  /\ \E i \in 1 .. Len(types) : ReadsBeyond(t, types[i])

(* tupleStaticCast.                                                        *)
Fixed(type) == IF type # <<>> /\ Last(type) = "list" THEN Len(type) - 1 ELSE Len(type)
CanCastTuple(t, type) ==
  /\ Len(t) >= Fixed(type) /\ (Fixed(type) = Len(type) => Len(t) = Len(type))
  /\ \A i \in 1 .. Fixed(type) : CanCast(t[i], type[i])
CastTuple(t, type) == [i \in 1 .. Len(t) |-> IF i <= Fixed(type) THEN Cast(t[i], type[i]) ELSE t[i]]

-----------------------------------------------------------------------------
Create(c) ==
  /\ ~aborted /\ outcome = Nil /\ nextId <= MaxId
  /\ class' = [class EXCEPT ![nextId] = c]
  /\ nextId' = nextId + 1
  /\ UNCHANGED <<props, request, outcome, aborted, called>>

Destroy(o) ==
  /\ ~aborted /\ outcome = Nil /\ class[o] # Nil
  /\ class' = [class EXCEPT ![o] = Nil]
  /\ props' = [props EXCEPT ![o] = [p \in PropertyNames |-> Nil]]
  /\ UNCHANGED <<nextId, request, outcome, aborted, called>>

(* The types of the method the request names, in the class of the object.  *)
Asked ==
  LET c == Finder(Methods, request.method)[class[request.object]]
  IN IF c = Nil THEN <<>> ELSE Methods[c][request.method]

(* meta: whether the client wants an answer.                               *)
Send(o, m, t, meta) ==
  /\ ~aborted /\ request = Nil /\ outcome = Nil
  /\ request' = [object |-> o, method |-> m, args |-> t, meta |-> meta]
  /\ UNCHANGED <<nextId, class, props, outcome, aborted, called>>

(* The history of the last request is forgotten.                           *)
Forget ==
  /\ outcome # Nil /\ outcome' = Nil /\ called' = Nil
  /\ UNCHANGED <<nextId, class, props, request, aborted>>

(* messageDespatchInvokeInstanceMethod: the error of a method is sent to   *)
(* no one, those of the despatch itself are.                               *)
Answer(error) == [error |-> error, replied |-> request.meta /\ ~error]
Refused == [error |-> TRUE, replied |-> TRUE]

Despatch ==
  /\ request # Nil /\ request' = Nil
  /\ UNCHANGED <<nextId, class, props>>
  /\ LET t == request.args
         types == Asked
     IN \/ /\ class[request.object] = Nil
           /\ outcome' = Refused /\ called' = Nil /\ UNCHANGED aborted
        \/ /\ class[request.object] # Nil /\ MayAbort(t, types)
           /\ aborted' = TRUE /\ outcome' = Nil /\ called' = Nil
        \/ /\ class[request.object] # Nil /\ UNCHANGED aborted
           /\ \E lucky \in BOOLEAN :
                  LET i == MatchType(t, types, lucky)
                  IN IF i = 0 \/ ~CanCastTuple(t, types[i])
                     THEN outcome' = Answer(TRUE) /\ called' = Nil
                     ELSE \E error \in BOOLEAN :
                            /\ outcome' = Answer(error)
                            /\ called' = [type |-> types[i], sent |-> t, got |-> CastTuple(t, types[i])]

(* objectCSetProperty: the property of the nearest class that has one of   *)
(* the name; the value is cast to its type, stored, and the hook called.   *)
TypeOf(o, p) == Properties[Finder(Properties, p)[class[o]]][p]
SetProperty(o, p, v) ==
  /\ ~aborted /\ outcome = Nil /\ class[o] # Nil /\ Finder(Properties, p)[class[o]] # Nil
  /\ CanCast(v, TypeOf(o, p))
  /\ props' = [props EXCEPT ![o][p] = Cast(v, TypeOf(o, p))]
  /\ UNCHANGED <<nextId, class, request, outcome, aborted, called>>

Tuples == UNION {[1 .. n -> Sent] : n \in 0 .. MaxLen}
Next ==
  \/ \E c \in Classes : Create(c)
  \/ \E o \in Ids : Destroy(o)
  \/ \E o \in Ids, m \in MethodNames, t \in Tuples, meta \in BOOLEAN : Send(o, m, t, meta)
  \/ Despatch \/ Forget
  \/ \E o \in Ids, p \in PropertyNames, v \in Sent : SetProperty(o, p, v)

Spec == Init /\ [][Next]_vars

-----------------------------------------------------------------------------
TypeOK ==
  /\ nextId \in 1 .. MaxId + 1
  /\ class \in [Ids -> Classes \cup {Nil}]
  /\ request = Nil \/ (request.object \in Ids /\ request.method \in MethodNames)
  /\ outcome \in [error : BOOLEAN, replied : BOOLEAN] \cup {Nil} /\ aborted \in BOOLEAN

(* A property that is set has the type that the nearest class of its       *)
(* object declares, and a number that fits it.                             *)
Fits(v, k) ==
  /\ k \in {"any", v.kind}
  /\ v.kind = "uint32" => v.n \in 0 .. 2 * Half - 1
  /\ v.kind = "int32" => v.n \in -Half .. Half - 1
PropertiesTyped ==
  \A o \in Ids, p \in PropertyNames : props[o][p] # Nil => Fits(props[o][p], TypeOf(o, p))

(* A method gets as many arguments as it declares, of the types it         *)
(* declares, each the value that was sent (a string, the number it spells, *)
(* as far as a word holds it); an object argument exists when the method   *)
(* is called.                                                              *)
SameNumber(v, w) == IF v.kind = "string" /\ w.kind # "string" THEN (v.n - w.n) % (2 * Half) = 0 ELSE v.n = w.n
ArgumentsKept ==
  [][called' # Nil /\ request # Nil =>
       LET type == called'.type  got == called'.got  sent == called'.sent
       IN /\ Len(got) = Len(sent) /\ Len(got) >= Fixed(type)
          /\ Fixed(type) = Len(type) => Len(got) = Len(type)
          /\ \A i \in 1 .. Len(got) :
               /\ i <= Fixed(type) => Fits(got[i], type[i])
               /\ got[i].kind = "object" => got[i].n \in objects
               /\ SameNumber(sent[i], got[i])]_vars

(* Of the types of a method the one that takes the arguments is found if   *)
(* there is just one, an exact one before any other, and none if none      *)
(* takes them.                                                             *)
RightType ==
  [][request # Nil /\ request' = Nil /\ class[request.object] # Nil /\ ~aborted' =>
       LET takes == {i \in 1 .. Len(Asked) : CanCastTuple(request.args, Asked[i])}
           exact == {i \in takes : \A j \in 1 .. Len(request.args) :
                                    j <= Len(Asked[i]) /\ Asked[i][j] = request.args[j].kind}
       IN /\ Cardinality(takes) = 1 => called' # Nil
          /\ called' # Nil => \E i \in takes : called'.type = Asked[i]
          /\ exact # {} => \E i \in exact : called'.type = Asked[i]]_vars

(* message.c:295: "Only send a response if one was requested (but always   *)
(* send errors)".                                                          *)
ErrorsSent == outcome # Nil /\ outcome.error => outcome.replied
=============================================================================
