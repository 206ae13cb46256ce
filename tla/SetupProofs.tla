----------------------------- MODULE SetupProofs -----------------------------
(***************************************************************************)
(* Proofs about BFStartup: however many drivers are configured, with       *)
(* however many threads, no thread uses what its driver's constructor has  *)
(* not made yet; and about BFFeature: what a call that ADGenICam has asked *)
(* about does to a node of any type, with any values, as long as the SDK   *)
(* does not fail and the camera does not intervene.                        *)
(* Neither depends on the other; the module that checks them together lets *)
(* one of them move.                                                       *)
(***************************************************************************)
EXTENDS BFStartup, BFFeature, TLAPS, FiniteSetTheorems

-----------------------------------------------------------------------------
\* The start of the drivers

StartupSpec == StartupInit /\ [][StartupNext]_startupVars

\* What the constructor has made when it comes to a stage.
Made == [s \in Stages |->
  CASE s = "params" -> {"board"}
    [] s = "queue" -> {"board", "params"}
    [] s = "event" -> {"board", "params", "queue"}
    [] s \in {"wait", "process", "done"} -> {"board", "params", "queue", "event"}
    [] OTHER -> {}]

\* The variables are functions on the drivers.  How many threads run is said by
\* ThreadsInv.
StartupShape ==
  /\ build \in Builds
  /\ asked \in [Ports -> Boards]
  /\ opened \in [Ports -> Boards \cup {NoBoard}]
  /\ ctor \in [Ports -> Stages]
  /\ objects \in [Ports -> SUBSET Objects]
  /\ DOMAIN threads = Ports
  /\ used \in [Ports -> SUBSET Objects]

\* The threads are launched in the order of their numbers, the wait thread first.
ThreadsInv ==
  /\ threads \in [Ports -> SUBSET (0 .. ThreadCount)]
  /\ \A c \in Ports :
       /\ threads[c] # {} => ctor[c] \in {"process", "done"}
       /\ ctor[c] = "process" =>
            \E n \in 0 .. ThreadCount - 1 : threads[c] \ {0} = 1 .. n

\* A stage is reached with everything made that the stages before it make.
MadeInv ==
  \A c \in Ports : Made[ctor[c]] \subseteq objects[c]

StartupInv ==
  /\ StartupShape
  /\ ThreadsInv
  /\ MadeInv
  /\ UsedExists

LEMMA ThreadCountPositive == ThreadCount \in Nat /\ ThreadCount > 0
BY StartupAssumption DEF ThreadCount

LEMMA StartupInvInit == StartupInit => StartupInv
<1> SUFFICES ASSUME StartupInit PROVE StartupInv
  OBVIOUS
<1> USE DEF StartupInit
<1>1. StartupShape
  BY DEF StartupShape, Stages
<1>2. ThreadsInv
  BY ThreadCountPositive DEF ThreadsInv
<1>3. MadeInv /\ UsedExists
  BY DEF MadeInv, Made, Stages, UsedExists
<1> QED BY <1>1, <1>2, <1>3 DEF StartupInv

\* A stage of the constructor that launches nothing and opens nothing.
LEMMA StageStep ==
  ASSUME StartupInv, NEW c \in Ports, NEW from \in Stages, NEW to \in Stages,
         NEW new \in SUBSET Objects,
         Goes(c, from, to), Makes(c, new) \/ (new = {} /\ UNCHANGED objects),
         from \notin {"process", "done", "failed"}, to # "process",
         Made[to] \subseteq Made[from] \cup new,
         UNCHANGED <<build, asked, opened, threads, used>>
  PROVE  StartupInv'
<1> USE DEF StartupInv
<1>1. /\ objects' \in [Ports -> SUBSET Objects]
      /\ objects'[c] = objects[c] \cup new
      /\ \A d \in Ports \ {c} : objects'[d] = objects[d]
  BY DEF Makes, StartupShape
<1>2. /\ ctor' \in [Ports -> Stages] /\ ctor[c] = from /\ ctor'[c] = to
      /\ \A d \in Ports \ {c} : ctor'[d] = ctor[d]
  BY DEF Goes, StartupShape
<1>3. StartupShape'
  BY <1>1, <1>2 DEF StartupShape
<1>4. threads[c] = {}
  BY <1>2 DEF ThreadsInv
<1>5. ThreadsInv'
  BY <1>2, <1>4 DEF ThreadsInv
<1>6. MadeInv'
  BY <1>1, <1>2 DEF MadeInv
<1>7. UsedExists'
  BY <1>1, <1>2 DEF UsedExists
<1> QED BY <1>3, <1>5, <1>6, <1>7

LEMMA ConnectStep == ASSUME StartupInv, NEW c \in Ports, Connect(c) PROVE StartupInv'
<1> USE DEF StartupInv
<1>1. /\ objects' \in [Ports -> SUBSET Objects]
      /\ objects[c] \subseteq objects'[c] /\ "board" \in objects'[c]
      /\ \A d \in Ports \ {c} : objects'[d] = objects[d]
  BY DEF Connect, Makes, StartupShape, Objects
<1>2. /\ ctor' \in [Ports -> Stages] /\ ctor[c] = "connect" /\ ctor'[c] = "params"
      /\ \A d \in Ports \ {c} : ctor'[d] = ctor[d]
  BY DEF Connect, Goes, StartupShape, Stages
<1>3. opened' \in [Ports -> Boards \cup {NoBoard}]
  BY StartupAssumption DEF Connect, BoardToOpen, StartupShape
<1>4. StartupShape'
  BY <1>1, <1>2, <1>3 DEF Connect, StartupShape
<1>5. ThreadsInv'
  BY <1>2 DEF Connect, ThreadsInv
<1>6. MadeInv'
  BY <1>1, <1>2 DEF MadeInv, Made, Stages
<1>7. UsedExists'
  BY <1>1, <1>2 DEF Connect, UsedExists
<1> QED BY <1>4, <1>5, <1>6, <1>7

LEMMA LaunchStep ==
  ASSUME StartupInv, NEW c \in Ports, LaunchWaitThread(c) \/ LaunchProcessThread(c)
  PROVE  StartupInv'
<1> USE DEF StartupInv
<1>0. UNCHANGED <<build, asked, opened, objects, used>>
  BY DEF LaunchWaitThread, LaunchProcessThread
<1>1. /\ ctor' \in [Ports -> Stages] /\ ctor[c] \in {"wait", "process"}
      /\ ctor'[c] \in {"process", "done"}
      /\ \A d \in Ports \ {c} : ctor'[d] = ctor[d]
  BY DEF LaunchWaitThread, LaunchProcessThread, Goes, StartupShape, Stages
<1>2. StartupShape'
  <2>1. DOMAIN threads' = Ports
    BY DEF LaunchWaitThread, LaunchProcessThread, StartupShape
  <2> QED BY <1>0, <1>1, <2>1 DEF StartupShape
<1>3. MadeInv'
  BY <1>0, <1>1 DEF MadeInv, Made, Stages
<1>4. UsedExists'
  BY <1>0, <1>1 DEF UsedExists
<1>5. ThreadsInv'
  <2>1. CASE LaunchWaitThread(c)
    <3>1. threads[c] = {} /\ ctor'[c] = "process"
      BY <2>1 DEF LaunchWaitThread, Goes, ThreadsInv, StartupShape
    <3>2. /\ threads' \in [Ports -> SUBSET (0 .. ThreadCount)]
          /\ threads'[c] = {0} /\ \A d \in Ports \ {c} : threads'[d] = threads[d]
      BY <2>1, <3>1, ThreadCountPositive DEF LaunchWaitThread, ThreadsInv
    <3>3. 0 \in 0 .. ThreadCount - 1 /\ threads'[c] \ {0} = 1 .. 0
      BY <3>2, ThreadCountPositive
    <3> QED BY <1>1, <3>1, <3>2, <3>3 DEF ThreadsInv
  <2>2. CASE LaunchProcessThread(c)
    <3>1. ctor[c] = "process"
      BY <2>2 DEF LaunchProcessThread
    <3>2. PICK k \in 0 .. ThreadCount - 1 : threads[c] \ {0} = 1 .. k
      BY <3>1 DEF ThreadsInv
    <3>3. k \in Nat /\ k + 1 \in 0 .. ThreadCount /\ k + 1 # 0
      BY ThreadCountPositive
    <3>4. Cardinality(threads[c] \ {0}) = k
      <4>1. Cardinality(1 .. k) = k
        BY <3>3, FS_Interval
      <4> QED BY <3>2, <4>1
    <3>5. threads' = [threads EXCEPT ![c] = @ \cup {k + 1}]
      BY <2>2, <3>4 DEF LaunchProcessThread
    <3>6. /\ threads' \in [Ports -> SUBSET (0 .. ThreadCount)]
          /\ threads'[c] = threads[c] \cup {k + 1}
          /\ \A d \in Ports \ {c} : threads'[d] = threads[d]
      BY <3>3, <3>5 DEF ThreadsInv
    <3>7. threads'[c] \ {0} = 1 .. k + 1
      <4>1. 1 .. k + 1 = (1 .. k) \cup {k + 1}
        BY <3>3
      <4> QED BY <3>2, <3>3, <3>6, <4>1
    <3>8. ctor'[c] = "process" => k + 1 \in 0 .. ThreadCount - 1
      BY <2>2, <3>3, <3>4, ThreadCountPositive DEF LaunchProcessThread, StartupShape
    <3> QED BY <1>1, <3>6, <3>7, <3>8 DEF ThreadsInv
  <2> QED BY <2>1, <2>2
<1> QED BY <1>2, <1>3, <1>4, <1>5

LEMMA UseStep ==
  ASSUME StartupInv, NEW c \in Ports, RunThread(c) \/ WriteAcquire(c)
  PROVE  StartupInv'
<1> USE DEF StartupInv
<1>0. UNCHANGED <<build, asked, opened, ctor, objects, threads>>
  BY DEF RunThread, WriteAcquire
<1>1. PICK new \in SUBSET Objects :
        /\ used' = [used EXCEPT ![c] = @ \cup new]
        /\ ctor[c] # "failed" => new \subseteq objects[c]
  <2>1. ctor[c] \in {"process", "done"} =>
          {"board", "params", "queue", "event"} \subseteq objects[c]
    BY DEF MadeInv, Made, Stages
  <2>2. CASE RunThread(c)
    <3>1. ctor[c] \in {"process", "done"}
      BY <2>2 DEF RunThread, ThreadsInv
    <3> QED BY <2>1, <2>2, <3>1 DEF RunThread, Objects
  <2>3. CASE WriteAcquire(c)
    BY <2>1, <2>3 DEF WriteAcquire, Objects
  <2> QED BY <2>2, <2>3
<1>2. /\ used' \in [Ports -> SUBSET Objects] /\ used'[c] = used[c] \cup new
      /\ \A d \in Ports \ {c} : used'[d] = used[d]
  BY <1>1 DEF StartupShape
<1>3. UsedExists'
  BY <1>0, <1>1, <1>2 DEF UsedExists
<1> QED BY <1>0, <1>2, <1>3 DEF StartupShape, ThreadsInv, MadeInv

LEMMA StartupStep == StartupInv /\ [StartupNext]_startupVars => StartupInv'
<1> SUFFICES ASSUME StartupInv, [StartupNext]_startupVars PROVE StartupInv'
  OBVIOUS
<1>1. ASSUME NEW c \in Ports, Configure(c) PROVE StartupInv'
  <2>1. /\ "configured" \in Stages /\ "connect" \in Stages
        /\ Made["connect"] = {}
    BY DEF Made, Stages
  <2> QED BY <1>1, <2>1, StageStep DEF Configure
<1>2. ASSUME NEW c \in Ports, Connect(c) PROVE StartupInv'
  BY <1>2, ConnectStep
<1>3. ASSUME NEW c \in Ports, ConnectFails(c) PROVE StartupInv'
  <2>1. /\ {"connect", "failed", "thrown"} \subseteq Stages
        /\ Made["failed"] = {} /\ Made["thrown"] = {}
    BY DEF Made, Stages
  <2>2. \/ Goes(c, "connect", "failed")
        \/ Goes(c, "connect", "thrown")
    BY <1>3 DEF ConnectFails
  <2> QED BY <1>3, <2>1, <2>2, StageStep DEF ConnectFails
<1>4. ASSUME NEW c \in Ports, CreateParams(c) PROVE StartupInv'
  <2>1. /\ {"params", "queue"} \subseteq Stages /\ {"params"} \in SUBSET Objects
        /\ Made["queue"] \subseteq Made["params"] \cup {"params"}
    BY DEF Made, Stages, Objects
  <2> QED BY <1>4, <2>1, StageStep DEF CreateParams
<1>5. ASSUME NEW c \in Ports, CreateQueue(c) PROVE StartupInv'
  <2>1. /\ {"queue", "event"} \subseteq Stages /\ {"queue"} \in SUBSET Objects
        /\ Made["event"] \subseteq Made["queue"] \cup {"queue"}
    BY DEF Made, Stages, Objects
  <2> QED BY <1>5, <2>1, StageStep DEF CreateQueue
<1>6. ASSUME NEW c \in Ports, CreateEvent(c) PROVE StartupInv'
  <2>1. /\ {"event", "wait"} \subseteq Stages /\ {"event"} \in SUBSET Objects
        /\ Made["wait"] \subseteq Made["event"] \cup {"event"}
    BY DEF Made, Stages, Objects
  <2> QED BY <1>6, <2>1, StageStep DEF CreateEvent
<1>7. ASSUME NEW c \in Ports, LaunchWaitThread(c) \/ LaunchProcessThread(c) PROVE StartupInv'
  BY <1>7, LaunchStep
<1>8. ASSUME NEW c \in Ports, RunThread(c) \/ WriteAcquire(c) PROVE StartupInv'
  BY <1>8, UseStep
<1>9. CASE UNCHANGED startupVars
  BY <1>9 DEF startupVars, StartupInv, StartupShape, ThreadsInv, MadeInv, UsedExists
<1> QED BY <1>1, <1>2, <1>3, <1>4, <1>5, <1>6, <1>7, <1>8, <1>9 DEF StartupNext

LEMMA StartupInvHolds == StartupSpec => []StartupInv
BY StartupInvInit, StartupStep, PTL DEF StartupSpec

\* The variables have their types; in particular a driver never launches more
\* threads than it was asked for.
THEOREM StartupTypeCorrect == StartupSpec => []StartupTypeOK
<1>1. StartupInv => StartupTypeOK
  BY DEF StartupInv, StartupShape, ThreadsInv, StartupTypeOK
<1> QED BY <1>1, StartupInvHolds, PTL

\* Whatever a thread or a client uses of a driver whose camera connected exists,
\* for any number of drivers and threads.
THEOREM NothingUsedTooEarly == StartupSpec => []UsedExists
<1>1. StartupInv => UsedExists
  BY DEF StartupInv
<1> QED BY <1>1, StartupInvHolds, PTL

-----------------------------------------------------------------------------
\* The access to a camera node

FeatureSpec == FeatureInit /\ [][FeatureNext]_featureVars

FeatureShape ==
  /\ node \in [exists : BOOLEAN, type : NodeTypes, access : Accesses,
               at : [Attributes -> Int], choices : {0, 1}]
  /\ feature \in [made : BOOLEAN, device : BOOLEAN, implemented : BOOLEAN,
                  handle : {"open", "wild"}, type : NodeTypes \cup {"wild"}]
  /\ DOMAIN call = {"phase", "kind", "wanted", "attr", "arg", "result", "expect", "calm"}
  /\ call.phase \in {"none", "checked", "done"}
  /\ call.attr \in Attributes /\ call.arg \in Int

\* An implemented node is there, and a call that was asked about is a call of one.
NodeInv ==
  /\ feature.implemented => feature.made /\ feature.device /\ node.exists
  /\ call.phase # "none" => feature.made
  /\ call.phase # "none" /\ call.kind \in {"read", "write"} => feature.implemented

\* Between the check and the call nothing has changed, if it is calm.
CheckedInv ==
  call.phase = "checked" =>
    /\ call.kind \in {"read", "write"}
    /\ call.wanted \in Wanted
    /\ call.calm /\ call.kind = "read" => node.access \in MayRead
    /\ call.calm /\ call.kind = "write" => node.access \in MayWrite

FeatureInv == FeatureShape /\ NodeInv /\ CheckedInv /\ CheckedCallsWork

\* The method for a compatible type passes a variable of the node's kind, and all but
\* writeEnumString call the SDK.
LEMMA MethodsMatch ==
  ASSUME Compatible, node.type \in NodeTypes, call.wanted \in Wanted
  PROVE  /\ \/ Methods(call.wanted).as = Storage(node.type)
            \/ Methods(call.wanted).as = "text" /\ node.type = "ENUMERATION"
         /\ call.wanted # "ENUMSTRING" =>
              /\ Methods(call.wanted).as = Storage(node.type)
              /\ Methods(call.wanted).writes
<1>1. CASE call.wanted = "ENUMSTRING"
  BY <1>1 DEF Compatible, NodeTypes, Methods, EnumStringMethods
<1>2. CASE call.wanted \in NodeTypes \ {"COMMAND"}
  <2>1. /\ call.wanted # "ENUMSTRING" /\ feature.type = node.type
        /\ call.wanted = node.type \/ (call.wanted = "FLOAT" /\ node.type = "INTEGER")
    BY <1>2 DEF Compatible, NodeTypes
  <2> QED BY <1>2, <2>1 DEF NodeTypes, Methods, Storage, IntegerMethods, BooleanMethods,
             DoubleMethods, EnumMethods, StringMethods
<1> QED BY <1>1, <1>2 DEF Wanted

\* A double that is written to an integer node loses its fraction and nothing else.
LEMMA ConversionArrives ==
  ASSUME Compatible, call.arg \in Int
  PROVE  LET v == Converted(call.wanted, call.arg)
             x == call.arg
         IN  IF call.wanted # "FLOAT" \/ node.type = "FLOAT" THEN v = x
             ELSE /\ v % 2 = 0
                  /\ \/ 0 <= v /\ v <= x /\ x < v + 2
                     \/ v <= 0 /\ x <= v /\ v - 2 < x
<1> DEFINE v == Converted(call.wanted, call.arg)
           x == call.arg
<1>1. CASE call.wanted = "FLOAT" /\ node.type = "INTEGER"
  <2>1. Methods(call.wanted).as = "int64"
    BY <1>1 DEF Compatible, Methods, DoubleMethods
  <2>2. CASE x >= 0
    <3>1. v = 2 * (x \div 2)
      BY <1>1, <2>1, <2>2 DEF Converted
    <3>2. v % 2 = 0 /\ 0 <= v /\ v <= x /\ x < v + 2
      BY <2>2, <3>1
    <3> QED BY <1>1, <3>2
  <2>3. CASE x < 0
    <3>1. v = -(2 * ((-x) \div 2))
      BY <1>1, <2>1, <2>3 DEF Converted
    <3>2. v % 2 = 0 /\ v <= 0 /\ x <= v /\ v - 2 < x
      BY <2>3, <3>1
    <3> QED BY <1>1, <3>2
  <2> QED BY <2>2, <2>3
<1>2. CASE call.wanted # "FLOAT" \/ node.type = "FLOAT"
  <2>1. ~(call.wanted = "FLOAT" /\ Methods(call.wanted).as = "int64")
    BY <1>2 DEF Compatible, Methods, DoubleMethods
  <2> QED BY <1>2, <2>1 DEF Converted
<1> QED BY <1>1, <1>2 DEF Compatible

LEMMA FeatureInvInit == FeatureInit => FeatureInv
BY DEF FeatureInit, NoNode, NoFeature, NoCall, FeatureInv, FeatureShape, NodeInv, CheckedInv,
       CheckedCallsWork, NodeTypes, Accesses, Attributes

LEMMA ConstructStep == FeatureInv /\ Construct => FeatureInv'
<1> SUFFICES ASSUME FeatureInv, Construct PROVE FeatureInv'
  OBVIOUS
<1>1. node' \in [exists : BOOLEAN, type : NodeTypes, access : Accesses,
                 at : [Attributes -> Int], choices : {0, 1}]
  <2>1. node' \in [exists : BOOLEAN, type : NodeTypes, access : Accesses,
                   at : [Attributes -> Numbers], choices : {0, 1}]
    BY DEF Construct, Nodes
  <2>2. Numbers \subseteq Int
    BY FeatureAssumption
  <2> QED BY <2>1, <2>2
<1>2. /\ feature' \in [made : BOOLEAN, device : BOOLEAN, implemented : BOOLEAN,
                       handle : {"open", "wild"}, type : NodeTypes \cup {"wild"}]
      /\ feature'.implemented => feature'.made /\ feature'.device /\ node'.exists
      /\ feature'.made
  BY <1>1 DEF Construct, NoFeature
<1>3. call.phase = "none" /\ UNCHANGED call
  BY DEF Construct, FeatureInv, NodeInv, FeatureShape
<1> QED BY <1>1, <1>2, <1>3 DEF FeatureInv, FeatureShape, NodeInv, CheckedInv, CheckedCallsWork

LEMMA CameraChangesStep == FeatureInv /\ CameraChanges => FeatureInv'
<1> SUFFICES ASSUME FeatureInv, CameraChanges PROVE FeatureInv'
  OBVIOUS
<1> USE DEF FeatureInv, FeatureShape
<1>1. PICK a \in Accesses : node' = [node EXCEPT !.access = a]
  BY DEF CameraChanges
<1>2. call' = [call EXCEPT !.calm = FALSE] /\ UNCHANGED feature
  BY DEF CameraChanges
<1>3. FeatureShape'
  BY <1>1, <1>2
<1> QED BY <1>1, <1>2, <1>3 DEF NodeInv, CheckedInv, CheckedCallsWork

LEMMA CheckStep == FeatureInv /\ Check => FeatureInv'
<1> SUFFICES ASSUME FeatureInv, Check PROVE FeatureInv'
  OBVIOUS
<1> USE DEF FeatureInv, FeatureShape
<1>1. PICK wanted \in Wanted, calm \in BOOLEAN :
        LET begun == [NoCall EXCEPT !.phase = "checked", !.wanted = wanted, !.calm = calm]
        IN  \/ /\ Asked(MayRead, calm)
               /\ \E attr \in Methods(wanted).reads :
                    call' = [begun EXCEPT !.kind = "read", !.attr = attr]
            \/ /\ Asked(MayWrite, calm)
               /\ \E x \in {n \in Numbers : HoldsNumber(wanted, n)} :
                    call' = [begun EXCEPT !.kind = "write", !.arg = x]
  BY DEF Check
<1>2. UNCHANGED <<node, feature>> /\ feature.made
  BY DEF Check
<1>3. Methods(wanted).reads \subseteq Attributes
  BY DEF Wanted, NodeTypes, Methods, IntegerMethods, BooleanMethods, DoubleMethods,
         EnumMethods, EnumStringMethods, StringMethods, Attributes
<1> DEFINE Told(kind, allowed) ==
       /\ DOMAIN call' = {"phase", "kind", "wanted", "attr", "arg", "result", "expect", "calm"}
       /\ call'.phase = "checked" /\ call'.kind = kind /\ call'.wanted = wanted
       /\ call'.attr \in Attributes /\ call'.arg \in Int
       /\ feature.implemented
       /\ call'.calm => node.access \in allowed
<1>4. Told("read", MayRead) \/ Told("write", MayWrite)
  <2>1. CASE /\ Asked(MayRead, calm)
             /\ \E attr \in Methods(wanted).reads :
                  call' = [[NoCall EXCEPT !.phase = "checked", !.wanted = wanted, !.calm = calm]
                             EXCEPT !.kind = "read", !.attr = attr]
    <3>1. feature.implemented /\ (calm => node.access \in MayRead)
      BY <2>1 DEF Asked
    <3>2. PICK attr \in Attributes :
            call' = [[NoCall EXCEPT !.phase = "checked", !.wanted = wanted, !.calm = calm]
                       EXCEPT !.kind = "read", !.attr = attr]
      BY <1>3, <2>1
    <3> QED BY <3>1, <3>2 DEF NoCall
  <2>2. CASE /\ Asked(MayWrite, calm)
             /\ \E x \in {n \in Numbers : HoldsNumber(wanted, n)} :
                  call' = [[NoCall EXCEPT !.phase = "checked", !.wanted = wanted, !.calm = calm]
                             EXCEPT !.kind = "write", !.arg = x]
    <3>1. feature.implemented /\ (calm => node.access \in MayWrite)
      BY <2>2 DEF Asked
    <3>2. PICK x \in {n \in Numbers : HoldsNumber(wanted, n)} :
            call' = [[NoCall EXCEPT !.phase = "checked", !.wanted = wanted, !.calm = calm]
                       EXCEPT !.kind = "write", !.arg = x]
      BY <2>2
    <3>3. x \in Int
      BY FeatureAssumption
    <3> QED BY <3>1, <3>2, <3>3 DEF NoCall, Attributes
  <2> QED BY <1>1, <2>1, <2>2
<1>5. FeatureShape'
  BY <1>2, <1>4
<1> QED BY <1>2, <1>4, <1>5 DEF NodeInv, CheckedInv, CheckedCallsWork

LEMMA ReadStep == FeatureInv /\ Read => FeatureInv'
<1> SUFFICES ASSUME FeatureInv, Read PROVE FeatureInv'
  OBVIOUS
<1> USE DEF FeatureInv, FeatureShape
<1> DEFINE value == NodeRead(call.attr, Methods(call.wanted).as)
<1>1. UNCHANGED <<node, feature>> /\ call.phase = "checked" /\ call.kind = "read"
  BY DEF Read
<1>2. /\ DOMAIN call' = DOMAIN call
      /\ call'.phase = "done" /\ call'.kind = "read"
      /\ call'.attr = call.attr /\ call'.arg = call.arg /\ call'.wanted = call.wanted
      /\ call'.expect = node.at[call.attr]
      /\ call'.calm => call.calm /\ call'.result = value
  BY <1>1 DEF Read
<1>3. FeatureShape'
  BY <1>1, <1>2
<1>4. call'.calm /\ Compatible' => call'.result = call'.expect
  <2> SUFFICES ASSUME call'.calm, Compatible' PROVE call'.result = call'.expect
    OBVIOUS
  <2>1. Compatible
    BY <1>1, <1>2 DEF Compatible
  <2>2. /\ \/ Methods(call.wanted).as = Storage(node.type)
           \/ Methods(call.wanted).as = "text" /\ node.type = "ENUMERATION"
        /\ node.access \in MayRead
    BY <1>1, <1>2, <2>1, MethodsMatch DEF CheckedInv
  <2>3. value = node.at[call.attr]
    BY <2>1, <2>2 DEF NodeRead, MayRead, Compatible
  <2> QED BY <1>2, <2>3
<1> QED BY <1>1, <1>2, <1>3, <1>4 DEF NodeInv, CheckedInv, CheckedCallsWork

LEMMA WriteStep == FeatureInv /\ Write => FeatureInv'
<1> SUFFICES ASSUME FeatureInv, Write PROVE FeatureInv'
  OBVIOUS
<1> USE DEF FeatureInv, FeatureShape
<1> DEFINE x == Converted(call.wanted, call.arg)
           method == Methods(call.wanted)
<1>1. UNCHANGED feature /\ call.phase = "checked" /\ call.kind = "write"
  BY DEF Write
<1>2. /\ DOMAIN call' = DOMAIN call
      /\ call'.phase = "done" /\ call'.kind = "write"
      /\ call'.attr = call.attr /\ call'.arg = call.arg /\ call'.wanted = call.wanted
      /\ call'.calm /\ method.writes => call.calm /\ NodeWrite(x, method.as)
  BY <1>1 DEF Write
<1>3. x \in Int
  BY DEF Converted
<1>4. node' = node \/ node' = [node EXCEPT !.at["VALUE"] = x]
  BY DEF Write, NodeWrite
<1>5. /\ node'.type = node.type /\ node'.exists = node.exists
      /\ node' \in [exists : BOOLEAN, type : NodeTypes, access : Accesses,
                    at : [Attributes -> Int], choices : {0, 1}]
  BY <1>3, <1>4
<1>6. FeatureShape'
  BY <1>1, <1>2, <1>5
<1>7. call'.calm /\ Compatible' /\ call'.wanted # "ENUMSTRING" => Arrived(call.arg)'
  <2> SUFFICES ASSUME call'.calm, Compatible', call'.wanted # "ENUMSTRING"
               PROVE  Arrived(call.arg)'
    OBVIOUS
  <2>1. Compatible /\ call.wanted \in Wanted
    BY <1>1, <1>2, <1>5 DEF Compatible, CheckedInv
  <2>2. method.writes /\ method.as = Storage(node.type)
    BY <1>2, <2>1, MethodsMatch
  <2>3. call.calm /\ NodeWrite(x, method.as) /\ node.access \in MayWrite
    BY <1>1, <1>2, <2>2 DEF CheckedInv
  <2>4. node' = [node EXCEPT !.at["VALUE"] = x]
    BY <2>1, <2>2, <2>3 DEF NodeWrite, MayWrite, Compatible
  <2>5. node'.at["VALUE"] = Converted(call.wanted, call.arg)
    BY <2>4 DEF Attributes
  <2> QED BY <1>2, <1>5, <2>1, <2>5, ConversionArrives DEF Arrived
<1> QED BY <1>1, <1>2, <1>5, <1>6, <1>7 DEF NodeInv, CheckedInv, CheckedCallsWork

\* readEnumChoices and writeCommand, for which nothing was asked.
LEMMA UnaskedStep == FeatureInv /\ (ReadEnumChoices \/ WriteCommand) => FeatureInv'
<1> SUFFICES ASSUME FeatureInv, ReadEnumChoices \/ WriteCommand PROVE FeatureInv'
  OBVIOUS
<1> USE DEF FeatureInv, FeatureShape
<1>1. UNCHANGED <<node, feature>>
  BY DEF ReadEnumChoices, WriteCommand
<1>2. feature.made
  BY DEF NodeInv, ReadEnumChoices, WriteCommand
<1>3. /\ DOMAIN call' = DOMAIN call
      /\ call'.phase = "done" /\ call'.kind \in {"choices", "command"}
      /\ call'.attr \in Attributes /\ call'.arg \in Int
  <2>1. CASE ReadEnumChoices
    <3> DEFINE table == IF feature.handle = "open" /\ node.type = "ENUMERATION"
                        THEN node.choices ELSE Garbage
    <3>1. CASE call' = [NoCall EXCEPT !.phase = "done", !.kind = "choices",
                          !.wanted = "ENUMERATION", !.expect = node.choices, !.result = table]
      <4> HIDE DEF table
      <4> QED BY <3>1 DEF NoCall, Attributes
    <3>2. CASE call' = [NoCall EXCEPT !.phase = "done", !.kind = "choices",
                          !.wanted = "ENUMERATION", !.result = Garbage, !.calm = FALSE]
      BY <3>2 DEF NoCall, Attributes
    <3> QED BY <2>1, <3>1, <3>2 DEF ReadEnumChoices
  <2>2. CASE WriteCommand
    BY <2>2 DEF WriteCommand, NoCall, Attributes
  <2> QED BY <2>1, <2>2
<1>4. call'.kind = "choices" /\ call'.calm /\ Compatible' => call'.result = call'.expect
  BY <1>1 DEF ReadEnumChoices, WriteCommand, NoCall, Compatible
<1> QED BY <1>1, <1>2, <1>3, <1>4 DEF NodeInv, CheckedInv, CheckedCallsWork

LEMMA FeatureStep == FeatureInv /\ [FeatureNext]_featureVars => FeatureInv'
<1>1. FeatureInv /\ UNCHANGED featureVars => FeatureInv'
  BY DEF featureVars, FeatureInv, FeatureShape, NodeInv, CheckedInv, CheckedCallsWork,
         Compatible, Arrived
<1> QED BY <1>1, ConstructStep, CameraChangesStep, CheckStep, ReadStep, WriteStep, UnaskedStep
        DEF FeatureNext

LEMMA FeatureInvHolds == FeatureSpec => []FeatureInv
BY FeatureInvInit, FeatureStep, PTL DEF FeatureSpec

\* A read that was asked about returns the node's value and a write arrives, for every
\* type of node and every value, unless the SDK fails or the camera intervenes, or the
\* text of an enumeration is written.
THEOREM CheckedCallsDoWork == FeatureSpec => []CheckedCallsWork
<1>1. FeatureInv => CheckedCallsWork
  BY DEF FeatureInv
<1> QED BY <1>1, FeatureInvHolds, PTL

\* A call that was asked about never uses the handle of a node that does not exist,
\* which the constructor leaves uninitialised.
THEOREM CheckedCallsNeedANode == FeatureSpec => []CheckedCallsHaveANode
<1>1. FeatureInv => CheckedCallsHaveANode
  BY DEF FeatureInv, NodeInv, CheckedCallsHaveANode
<1> QED BY <1>1, FeatureInvHolds, PTL
=============================================================================
