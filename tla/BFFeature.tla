------------------------------ MODULE BFFeature ------------------------------
(***************************************************************************)
(* One GenICam node and the BFFeature object that gives ADGenICam access   *)
(* to it.  ADGenICam asks isReadable or isWritable and then calls a read   *)
(* or a write; these are two calls of the SDK, and the camera may change   *)
(* the node's access between them.  Every method discards the error of its *)
(* SDK call and returns its local variable, written or not (Garbage).      *)
(*                                                                         *)
(* Numbers are counted in halves, so that a float node has values that an  *)
(* integer node cannot have.                                               *)
(***************************************************************************)
EXTENDS Integers

CONSTANTS
  Numbers,          \* values of the node, in halves: 0 and below it, too
  SdkFails,         \* may a call of the SDK fail for no reason shown here?
  Garbage           \* what an uninitialised variable holds

ASSUME FeatureAssumption ==
  /\ Numbers \subseteq Int /\ Garbage \notin Numbers
  /\ SdkFails \in BOOLEAN

NodeTypes == {"INTEGER", "FLOAT", "BOOLEAN", "ENUMERATION", "STRING", "COMMAND"}

\* What ADGenICam may read or write a value as; ENUMSTRING: the text of an
\* enumeration's entry.
Wanted == (NodeTypes \ {"COMMAND"}) \cup {"ENUMSTRING"}

Accesses == {"NA", "WO", "RO", "RW"}

\* MIN stands for the lower and the upper limit.
Attributes == {"VALUE", "MIN", "INC"}

VARIABLES
  node,             \* the camera's node
  feature,          \* the BFFeature object
  call              \* the call ADGenICam is making, with its result

featureVars == <<node, feature, call>>

\* How a value of the node is stored: reading it as anything else yields bits.
Storage(type) ==
  CASE type \in {"INTEGER", "ENUMERATION"} -> "int64"
    [] type = "FLOAT"   -> "double"
    [] type = "BOOLEAN" -> "bool"
    [] type = "STRING"  -> "string"
    [] OTHER            -> "none"

HoldsNumber(type, x) == Storage(type) = "int64" => x % 2 = 0

-----------------------------------------------------------------------------
\* The SDK: BFGTLNodeRead and BFGTLNodeWrite on a handle.  The text of an
\* enumeration's entry is read as BFGTL_NODE_VALUE_STR.

NodeRead(attr, cType) ==
  IF /\ feature.handle = "open" /\ node.access \in {"RO", "RW"}
     /\ cType = Storage(node.type) \/ (cType = "text" /\ node.type = "ENUMERATION")
  THEN node.at[attr]
  ELSE Garbage

NodeWrite(x, cType) ==
  IF /\ feature.handle = "open" /\ node.access \in {"WO", "RW"}
     /\ cType = Storage(node.type)
  THEN node' = [node EXCEPT !.at["VALUE"] = x]
  ELSE UNCHANGED node

-----------------------------------------------------------------------------
\* The methods.  as: the type of the variable that is passed to the SDK, and the
\* conversion that goes with it; reads: the attributes they read; writes: does the
\* write method call the SDK?

\* readInteger, readIntegerMin, readIntegerMax and readIncrement; writeInteger.
IntegerMethods == [as |-> "int64", reads |-> Attributes, writes |-> TRUE]

\* readBoolean and writeBoolean.
BooleanMethods == [as |-> "bool", reads |-> {"VALUE"}, writes |-> TRUE]

\* readDouble, readDoubleMin, readDoubleMax and writeDouble: "These double methods
\* need to handle integers".
DoubleMethods(type) ==
  [as    |-> IF type = "INTEGER" THEN "int64" ELSE "double",
   reads |-> {"VALUE", "MIN"}, writes |-> TRUE]

\* readEnumIndex and writeEnumIndex.
EnumMethods == [as |-> "int64", reads |-> {"VALUE"}, writes |-> TRUE]

\* readEnumString; the body of writeEnumString is empty.
EnumStringMethods == [as |-> "text", reads |-> {"VALUE"}, writes |-> FALSE]

\* readString and writeString.
StringMethods == [as |-> "string", reads |-> {"VALUE"}, writes |-> TRUE]

\* What ADGenICam calls for a parameter of a type, which need not be the node's.
Methods(wanted) ==
  CASE wanted = "INTEGER"     -> IntegerMethods
    [] wanted = "BOOLEAN"     -> BooleanMethods
    [] wanted = "FLOAT"       -> DoubleMethods(feature.type)
    [] wanted = "ENUMERATION" -> EnumMethods
    [] wanted = "ENUMSTRING"  -> EnumStringMethods
    [] wanted = "STRING"      -> StringMethods

\* Faulty variant: floor(value), which goes wrong below zero only.
Converted_Floor(wanted, x) ==
  IF wanted = "FLOAT" /\ Methods(wanted).as = "int64" THEN 2 * (x \div 2) ELSE x

\* (epicsInt64)value, when a double is written to an integer: without its fraction.
Converted(wanted, x) ==
  IF wanted = "FLOAT" /\ Methods(wanted).as = "int64"
  THEN IF x >= 0 THEN 2 * (x \div 2) ELSE -(2 * ((-x) \div 2))
  ELSE x

\* isReadable and isWritable, the accesses for which they answer true.
MayRead == {"RO", "RW"}
MayWrite == {"WO", "RW"}

\* Faulty variant: without the test of mIsImplemented.
Asked_Always(allowed, calm) ==
  \E a \in allowed : (calm <=> a = node.access)
    /\ (a # node.access => SdkFails \/ feature.handle = "wild")

\* isAvailable, isReadable, isWritable answer true: the node is implemented and the
\* access read, or left over when the reading failed (then not calm), allows it.
Asked(allowed, calm) ==
  feature.implemented /\
  \E a \in allowed : (calm <=> a = node.access)
    /\ (a # node.access => SdkFails \/ feature.handle = "wild")

NoCall == [phase |-> "none", kind |-> "none", wanted |-> "none", attr |-> "VALUE",
           arg |-> 0, result |-> 0, expect |-> 0, calm |-> TRUE]

Nodes == {n \in [exists : BOOLEAN, type : NodeTypes, access : Accesses,
                 at : [Attributes -> Numbers], choices : {0, 1}] :
            /\ \A a \in Attributes : HoldsNumber(n.type, n.at[a])
            /\ n.type # "ENUMERATION" => n.choices = 0}

NoNode == [exists |-> FALSE, type |-> "COMMAND", access |-> "NA",
           at |-> [a \in Attributes |-> 0], choices |-> 0]

NoFeature == [made |-> FALSE, device |-> FALSE, implemented |-> FALSE,
              handle |-> "wild", type |-> "wild"]

FeatureInit == node = NoNode /\ feature = NoFeature /\ call = NoCall

\* The constructor, for any node; device: BFGTLDevOpen was called and succeeded.
\* mNode and mNodeType keep what was in memory when the node does not exist, and
\* when BFGTLNodeOpen or the reading of the type fails.
Construct ==
  /\ ~feature.made
  /\ node' \in Nodes
  /\ \E device \in BOOLEAN :
       LET there == device /\ node'.exists
           made == [NoFeature EXCEPT !.made = TRUE, !.device = device, !.implemented = there]
       IN  \/ feature' = [made EXCEPT !.handle = IF there THEN "open" ELSE "wild",
                                      !.type = IF there THEN node'.type ELSE "wild"]
           \/ /\ there /\ SdkFails
              /\ \E h \in {"open", "wild"} : feature' = [made EXCEPT !.handle = h]
  /\ UNCHANGED call

\* The camera changes a node's access on its own, when it starts to acquire, say.
CameraChanges ==
  /\ feature.made
  /\ \E a \in Accesses \ {node.access} : node' = [node EXCEPT !.access = a]
  /\ call' = [call EXCEPT !.calm = FALSE]
  /\ UNCHANGED feature

\* ADGenICam asks whether it may read or write, and is told that it may.
Check ==
  /\ feature.made /\ call.phase # "checked"
  /\ \E wanted \in Wanted, calm \in BOOLEAN :
       LET asked == [NoCall EXCEPT !.phase = "checked", !.wanted = wanted, !.calm = calm]
       IN  \/ /\ Asked(MayRead, calm)
              /\ \E attr \in Methods(wanted).reads :
                   call' = [asked EXCEPT !.kind = "read", !.attr = attr]
           \/ /\ Asked(MayWrite, calm)
              /\ \E x \in {n \in Numbers : HoldsNumber(wanted, n)} :
                   call' = [asked EXCEPT !.kind = "write", !.arg = x]
  /\ UNCHANGED <<node, feature>>

\* A read method: the value, or what the variable held.
Read ==
  /\ call.phase = "checked" /\ call.kind = "read"
  /\ LET cType == Methods(call.wanted).as
         done == [call EXCEPT !.phase = "done", !.expect = node.at[call.attr]]
     IN  \/ call' = [done EXCEPT !.result = NodeRead(call.attr, cType)]
         \/ SdkFails /\ call' = [done EXCEPT !.result = Garbage, !.calm = FALSE]
  /\ UNCHANGED <<node, feature>>

\* A write method: whether the write succeeded is not told.
Write ==
  /\ call.phase = "checked" /\ call.kind = "write"
  /\ LET method == Methods(call.wanted)
         done == [call EXCEPT !.phase = "done"]
     IN  IF method.writes
         THEN \/ NodeWrite(Converted(call.wanted, call.arg), method.as) /\ call' = done
              \/ SdkFails /\ UNCHANGED node /\ call' = [done EXCEPT !.calm = FALSE]
         ELSE UNCHANGED node /\ call' = done
  /\ UNCHANGED feature

\* readEnumChoices: the entries that are readable at this moment.  When the size of
\* the table cannot be read, the loop reads an offset out of an empty vector.
ReadEnumChoices ==
  /\ feature.implemented /\ call.phase # "checked"
  /\ \/ call' = [NoCall EXCEPT !.phase = "done", !.kind = "choices",
                !.wanted = "ENUMERATION", !.expect = node.choices,
                !.result = IF feature.handle = "open" /\ node.type = "ENUMERATION"
                           THEN node.choices ELSE Garbage]
     \/ SdkFails /\ call' = [NoCall EXCEPT !.phase = "done", !.kind = "choices",
                !.wanted = "ENUMERATION", !.result = Garbage, !.calm = FALSE]
  /\ UNCHANGED <<node, feature>>

\* startCapture and stopCapture call writeCommand and ask nothing first.
WriteCommand ==
  /\ feature.made /\ call.phase # "checked"
  /\ call' = [NoCall EXCEPT !.phase = "done", !.kind = "command"]
  /\ UNCHANGED <<node, feature>>

FeatureNext ==
  Construct \/ CameraChanges \/ Check \/ Read \/ Write \/ ReadEnumChoices \/ WriteCommand

-----------------------------------------------------------------------------
\* The parameter's type is the node's, or the parameter is a float and the node an
\* integer, as with the cameras the comment names, or an enumeration is read or
\* written as text; and the constructor succeeded.
Compatible ==
  /\ feature.handle = "open" /\ feature.type = node.type
  /\ \/ call.wanted = node.type
     \/ call.wanted = "FLOAT" /\ node.type = "INTEGER"
     \/ call.wanted = "ENUMSTRING" /\ node.type = "ENUMERATION"

\* What a client may expect to find in the node after it has written x: x itself, or,
\* of a float in an integer node, the nearest whole number that is not further from
\* zero.
Arrived(x) ==
  LET v == node.at["VALUE"]
  IN  IF call.wanted # "FLOAT" \/ node.type = "FLOAT" THEN v = x
      ELSE /\ v % 2 = 0
           /\ \/ 0 <= v /\ v <= x /\ x < v + 2
              \/ v <= 0 /\ x <= v /\ v - 2 < x

\* A checked read returns the node's value and a checked write arrives, whatever the
\* type of the node, except that an enumeration's text can be read and not written
\* (writeEnumString does nothing and reports nothing); and except that the SDK fails
\* or the camera changes the access between the check and the call, which nothing
\* tells ADGenICam either: then the call is not calm.
CheckedCallsWork ==
  call.phase = "done" /\ call.calm /\ Compatible =>
    /\ call.kind \in {"read", "choices"} => call.result = call.expect
    /\ call.kind = "write" /\ call.wanted # "ENUMSTRING" => Arrived(call.arg)

\* Asking first keeps ADGenICam from using a node that the camera does not have.
CheckedCallsHaveANode ==
  call.phase = "done" /\ call.kind \in {"read", "write"} => feature.device /\ node.exists
=============================================================================
