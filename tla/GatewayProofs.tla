---------------------------- MODULE GatewayProofs ----------------------------
(***************************************************************************)
(* Theorems about Gateway, for any number of retries and messages: the     *)
(* types, that the callback thread finds everything it uses, and what may  *)
(* end the process while the loop runs.                                    *)
(***************************************************************************)
EXTENDS Gateway, TLAPS

SubP == INSTANCE SubscriberProofs

\* What main() has done at each of its places.
StageInv ==
    /\ client # "new" => mpc \in {"publisher", "loop"}
    /\ mpc # "initLogger" => logger
    /\ mpc \notin {"initLogger", "createDatabase", "services"} => cache
    /\ mpc \in {"transport", "signals", "subscribe", "publisher", "loop"} =>
           {"hasKeepAliveMessage", "hasNewNodeRegister"} \subseteq wired
    /\ mpc \in {"signals", "subscribe", "publisher", "loop"} =>
           handlers = Topic \ {"node/other"}
    /\ mpc \in {"subscribe", "publisher", "loop"} => "hasReplyMessage" \in wired

OwnTypes ==
    /\ db \in BOOLEAN /\ logger \in BOOLEAN /\ cache \in BOOLEAN
    /\ others \subseteq {"deleted", "locks"}
    /\ mpc \in {"initLogger", "createDatabase", "services", "controller", "transport",
                "signals", "subscribe", "publisher", "loop"}
    /\ handlers \subseteq Topic
    /\ wired \subseteq {"hasKeepAliveMessage", "hasNewNodeRegister", "hasReplyMessage",
                        "hasRequestMessage"}
    /\ ppc \in {"none", "idle", "handle", "emit"} /\ cur \in Message
    /\ arrived \in 0..MaxMessages /\ emitted \in Nat /\ published \in Nat
    /\ events \in Seq({"getAllNode", "publish"})
    /\ ended \in {"no", "exit(0)", "exit(1)", "terminated"}
    /\ ppc # "none" => mpc \in {"publisher", "loop"}

IInv == SubP!Inv /\ OwnTypes /\ StageInv

LEMMA Retry == SubP!RetriesAssumption
BY ConstantsAssumption DEF SubP!RetriesAssumption

-----------------------------------------------------------------------------
(* The subscriber inside the process: each of its steps is one of Subscriber. *)

LEMMA SubscriberStepInv ==
    ASSUME IInv, [SubP!Next]_(SubP!vars)
    PROVE  SubP!Inv'
BY Retry, SubP!NextInv DEF IInv

LEMMA ProcessIsSubscriber == [Next]_vars => [SubP!Next]_(SubP!vars)
<1> SUFFICES ASSUME [Next]_vars PROVE [SubP!Next]_(SubP!vars)  OBVIOUS
<1>1. ASSUME UNCHANGED subVars PROVE [SubP!Next]_(SubP!vars)
  BY <1>1 DEF subVars, SubP!vars
<1>2. CASE BrokerChanges
  BY <1>2 DEF BrokerChanges, Sub!BrokerGoes, Sub!BrokerReturns,
              SubP!Next, SubP!BrokerGoes, SubP!BrokerReturns
<1>3. CASE ConnectSubscriber
  BY <1>3 DEF ConnectSubscriber, Sub!Connect, SubP!Next, SubP!ClientStep, SubP!Connect
<1>4. CASE SubscriberStep
  <2>1. Sub!AttemptSucceeds => SubP!AttemptSucceeds
    BY DEF Sub!AttemptSucceeds, SubP!AttemptSucceeds
  <2>2. Sub!AttemptFails => SubP!AttemptFails
    BY DEF Sub!AttemptFails, SubP!AttemptFails
  <2>3. Sub!Reconnect => SubP!Reconnect
    BY DEF Sub!Reconnect, SubP!Reconnect
  <2>4. Sub!Subscribe => SubP!Subscribe
    BY DEF Sub!Subscribe, SubP!Subscribe, Sub!Broken, SubP!Broken
  <2>5. Sub!SubscribeAnswered => SubP!SubscribeAnswered
    BY DEF Sub!SubscribeAnswered, SubP!SubscribeAnswered
  <2>6. Sub!ConnectionLost => SubP!ConnectionLost
    BY DEF Sub!ConnectionLost, SubP!ConnectionLost, Sub!Broken, SubP!Broken
  <2> QED
    BY <1>4, <2>1, <2>2, <2>3, <2>4, <2>5, <2>6 DEF SubscriberStep, SubP!Next, SubP!ClientStep
<1>5. CASE StartUp /\ ~ConnectSubscriber
  <2>1. UNCHANGED subVars
    BY <1>5 DEF StartUp, InitLogger, CreateDatabase, MakeServices, MakeController,
                BuildTransport, ConnectSignals, ConnectPublisher
  <2> QED  BY <2>1, <1>1
<1>6. CASE DatabaseChanges \/ OthersWrite \/ TakeEvent \/ CheckWrites \/ SyncWrites
  BY <1>1, <1>6 DEF DatabaseChanges, OthersWrite, TakeEvent, CheckWrites, SyncWrites
<1>7. CASE \E m \in Message : MessageArrives(m)
  <2>1. UNCHANGED subVars  BY <1>7 DEF MessageArrives, Handling
  <2> QED  BY <2>1, <1>1
<1>8. CASE CallbackStep
  <2>1. UNCHANGED subVars
    BY <1>8 DEF CallbackStep, HandleNothing, HandleIllTyped, HandleRegister, EmitReply,
                HandleKeepAliveReply, Handling
  <2> QED  BY <2>1, <1>1
<1>9. CASE UNCHANGED vars  BY <1>1, <1>9 DEF vars
<1> QED  BY <1>2, <1>3, <1>4, <1>5, <1>6, <1>7, <1>8, <1>9 DEF Next

-----------------------------------------------------------------------------
LEMMA InitInv == Init => IInv
<1> SUFFICES ASSUME Init PROVE IInv  OBVIOUS
<1>1. SubP!Inv
  <2>1. SubP!Init  BY DEF Init, Sub!Init, SubP!Init
  <2> QED  BY <2>1, Retry, SubP!InitInv
<1>2. OwnTypes
  <2>1. NoMessage \in Message  BY DEF NoMessage, Message, Topic, Body
  <2>2. events \in Seq({"getAllNode", "publish"})  BY DEF Init
  <2>3. arrived \in 0..MaxMessages /\ emitted \in Nat /\ published \in Nat
    BY ConstantsAssumption DEF Init
  <2>4. db \in BOOLEAN /\ logger \in BOOLEAN /\ cache \in BOOLEAN
    BY Zenon DEF Init
  <2>6. others \subseteq {"deleted", "locks"}  BY DEF Init
  <2>5. mpc = "initLogger" /\ ppc = "none" /\ ended = "no" /\ handlers = {} /\ wired = {}
        /\ cur = NoMessage
    BY DEF Init
  <2> QED  BY <2>1, <2>2, <2>3, <2>4, <2>5, <2>6 DEF OwnTypes
<1>3. StageInv  BY DEF Init, Sub!Init, StageInv
<1> QED  BY <1>1, <1>2, <1>3 DEF IInv

LEMMA NextInv == IInv /\ [Next]_vars => IInv'
<1> SUFFICES ASSUME IInv, [Next]_vars PROVE IInv'  OBVIOUS
<1>1. SubP!Inv'  BY SubscriberStepInv, ProcessIsSubscriber
<1>2. OwnTypes'
  <2> USE DEF IInv, OwnTypes
  <2>1. CASE DatabaseChanges \/ OthersWrite \/ BrokerChanges
    BY <2>1 DEF DatabaseChanges, OthersWrite, BrokerChanges, dbVars, mainVars, pahoVars
  <2>2. CASE SubscriberStep
    BY <2>2 DEF SubscriberStep, ExitOf, dbVars, mainVars, pahoVars
  <2>3. CASE StartUp /\ ~ConnectSubscriber
    <3>1. CASE InitLogger \/ CreateDatabase \/ MakeServices
      BY <3>1 DEF InitLogger, CreateDatabase, MakeServices, Unstarted, Terminates, dbVars, pahoVars
    <3>2. CASE MakeController \/ ConnectSignals
      BY <3>2 DEF MakeController, ConnectSignals, Unstarted, dbVars, pahoVars
    <3>3. CASE BuildTransport
      BY <3>3 DEF BuildTransport, Unstarted, dbVars, pahoVars
    <3>4. CASE ConnectPublisher
      BY <3>4 DEF ConnectPublisher, Unstarted, dbVars, pahoVars
    <3> QED  BY <2>3, <3>1, <3>2, <3>3, <3>4 DEF StartUp
  <2>9. CASE ConnectSubscriber
    <3>1. ppc' \in {"none", "idle"} /\ mpc' = "publisher"  BY <2>9 DEF ConnectSubscriber
    <3> QED  BY <2>9, <3>1 DEF ConnectSubscriber, dbVars
  <2>4. CASE TakeEvent
    BY <2>4 DEF TakeEvent, Terminates, mainVars, pahoVars
  <2>5. CASE CheckWrites \/ SyncWrites
    BY <2>5 DEF CheckWrites, SyncWrites, Terminates, dbVars, mainVars, pahoVars
  <2>6. ASSUME NEW m \in Message, MessageArrives(m)
        PROVE  OwnTypes'
    BY <2>6, ConstantsAssumption DEF MessageArrives, Handling, dbVars, mainVars
  <2>7. CASE CallbackStep
    <3>1. CASE HandleNothing \/ HandleIllTyped \/ HandleKeepAliveReply
      BY <3>1 DEF HandleNothing, HandleIllTyped, HandleKeepAliveReply, Handling, Terminates,
                  dbVars, mainVars
    <3>2. CASE HandleRegister  BY <3>2 DEF HandleRegister, Handling, dbVars, mainVars
    <3>3. CASE EmitReply  BY <3>3 DEF EmitReply, Handling, dbVars, mainVars
    <3> QED  BY <2>7, <3>1, <3>2, <3>3 DEF CallbackStep
  <2>8. CASE UNCHANGED vars  BY <2>8 DEF vars, dbVars, mainVars, pahoVars
  <2> QED  BY <2>1, <2>2, <2>3, <2>4, <2>5, <2>6, <2>7, <2>8, <2>9 DEF Next
<1>3. StageInv'
  <2> USE DEF IInv, StageInv
  <2>1. ASSUME UNCHANGED mainVars, client = "new" => client' = "new"
        PROVE  StageInv'
    BY <2>1 DEF mainVars
  <2>2. CASE StartUp
    BY <2>2 DEF OwnTypes, StartUp, InitLogger, CreateDatabase, MakeServices, MakeController,
                BuildTransport, ConnectSignals, ConnectSubscriber, ConnectPublisher,
                Terminates, subVars, Topic
  <2>3. CASE SubscriberStep \/ BrokerChanges
    BY <2>1, <2>3 DEF SubscriberStep, BrokerChanges, Sub!AttemptSucceeds, Sub!AttemptFails,
                Sub!Reconnect, Sub!Subscribe, Sub!SubscribeAnswered, Sub!ConnectionLost,
                Sub!BrokerGoes, Sub!BrokerReturns
  <2>4. CASE UNCHANGED <<mainVars, subVars>>  BY <2>1, <2>4 DEF subVars
  <2> QED
    BY <2>2, <2>3, <2>4
       DEF Next, DatabaseChanges, OthersWrite, TakeEvent, CheckWrites, SyncWrites,
           MessageArrives, CallbackStep,
           HandleNothing, HandleIllTyped, HandleRegister, EmitReply, HandleKeepAliveReply,
           Handling, vars
<1> QED  BY <1>1, <1>2, <1>3 DEF IInv

LEMMA Invariance == Spec => []IInv
<1> QED  BY InitInv, NextInv, PTL DEF Spec

\* Every variable keeps its type, those of the subscriber included.
THEOREM TypeCorrect == Spec => []TypeOK
<1>1. IInv => TypeOK
  <2>1. SubP!TypeOK => Sub!TypeOK  BY DEF SubP!TypeOK, Sub!TypeOK
  <2> QED  BY <2>1 DEF IInv, SubP!Inv, OwnTypes, TypeOK
<1> QED  BY <1>1, Invariance, PTL

\* Whenever the callback thread can run, the logger, the cache, the handlers
\* and the signals are there.
THEOREM AlwaysReady == Spec => []ReadyForMessages
<1>1. IInv => ReadyForMessages
  BY DEF IInv, StageInv, ReadyForMessages
<1> QED  BY <1>1, Invariance, PTL

\* An exception ends the process only for an ill-typed message, while the database
\* does not answer, when the log file cannot be opened, for what other programs do
\* to the rows, or when the connection is gone again before it is subscribed.
THEOREM EndsOnlyForCause == Spec => EndsForCause
<1>1. IInv /\ [Next]_vars => [ended' = "terminated" => Cause]_vars
  <2> SUFFICES ASSUME IInv, Next, ended' = "terminated", ~Cause
               PROVE  FALSE
    BY DEF vars
  <2>1. ended = "no"  BY DEF Next, Running
  <2>2. ~StartUp
    BY <2>1 DEF StartUp, InitLogger, CreateDatabase, MakeServices, MakeController,
           BuildTransport, ConnectSignals, ConnectSubscriber, ConnectPublisher, Cause
  <2>3. ~SubscriberStep
    BY <2>1 DEF SubscriberStep, ExitOf, Cause, Sub!Subscribe, Sub!AttemptSucceeds,
           Sub!AttemptFails, Sub!Reconnect, Sub!SubscribeAnswered, Sub!ConnectionLost
  <2>4. ~CheckWrites /\ ~SyncWrites
    BY DEF CheckWrites, SyncWrites, UpdateThrows, Cause
  <2> QED
    BY <2>1, <2>2, <2>3, <2>4
       DEF Next, DatabaseChanges, OthersWrite, BrokerChanges, TakeEvent, MessageArrives,
           CallbackStep, HandleNothing, HandleIllTyped, HandleRegister, EmitReply,
           HandleKeepAliveReply, UpdateThrows, Handling, Cause
<1> QED  BY <1>1, Invariance, PTL DEF Spec, EndsForCause

=============================================================================
