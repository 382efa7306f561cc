------------------------------ MODULE MCParts -------------------------------
(***************************************************************************)
(* Model-checking instance of the modules that are complete in themselves: *)
(* DateTime, LocalTime and NodeId (what becomes of the fields of a node),  *)
(* Transport, Logger and HttpEndpoint (the libraries in core/).  They      *)
(* share no state, so a behaviour picks one of them and stays in it.       *)
(***************************************************************************)
EXTENDS DateTime, TLC

CONSTANTS
    Thread, Minute, Hour, MaxSecond,     \* of LocalTime; Thread also of Logger
    Mac, Half, Wide, MaxId,              \* of NodeId
    Client, NoClient, Setting, Unset, Settable,   \* of Transport
    NoThread, MaxCalls,                  \* of Logger
    Path, Names, Texts                   \* of HttpEndpoint

VARIABLES
    part,                                                   \* the module
    clock, buffer, tpc, sample, unread, fields, from, to,   \* of LocalTime
    row, nextId, cache, saved, reload, posted, sent, about, \* of NodeId
    builder, client, asked, session, believes, wills, lost, \* of Transport
    mutex, mInstance, made, mine, dirs, writable, mAppLogger, registry, calls, logger,
    lpc,                                                    \* of Logger
    hpc, method, param, endpoint, rest                      \* of HttpEndpoint

localVars == <<clock, buffer, tpc, sample, unread, fields, from, to>>
idVars == <<row, nextId, cache, saved, reload, posted, sent, about>>
mqttVars == <<builder, client, asked, session, believes, wills, lost>>
logVars == <<mutex, mInstance, made, mine, dirs, writable, mAppLogger, registry, calls,
             logger, lpc>>
httpVars == <<hpc, method, param, endpoint, rest>>

Local == INSTANCE LocalTime WITH wall <- clock, pc <- tpc, MaxWall <- MaxSecond
Ids == INSTANCE NodeId
Mqtt == INSTANCE Transport
Log == INSTANCE Logger WITH pc <- lpc
Http == INSTANCE HttpEndpoint WITH pc <- hpc

ASSUME PartsAssumption ==
    Local!ConstantsOK /\ Ids!ConstantsOK /\ Mqtt!ConstantsOK /\ Log!ConstantsOK /\ Http!ConstantsOK

\* The clocks are put back, put forward or left alone; 2000 comes in between.
MCShifts == {-3, 0, 3}

\* The options that tell clients apart, and without which build() throws.
MCSettable == {"host", "port", "clientId"}

\* The keys of the unit test; a value may be empty, of several pieces, or hold
\* one of the separators.
MCPath == <<"/", "v1">>
MCNames == <<"day", "month", "year">>
MCTexts == {<<>>, <<"19">>, <<"20", "25">>, <<"a", "=", "b">>, <<"1", "&", "day">>}

\* The clients are interchangeable; no liveness is checked.
Symmetry == Permutations(Client)

-----------------------------------------------------------------------------
\* One initial state of each module is enough while another one runs.
PartsInit ==
    /\ Init /\ Local!Init /\ Ids!Init /\ Mqtt!Init /\ Log!Init /\ Http!Init
    /\ part \in {"DateTime", "LocalTime", "NodeId", "Transport", "Logger", "HttpEndpoint"}
    /\ part = "DateTime" \/ shift = 0
    /\ part = "Logger" \/ (dirs = {} /\ ~writable)

PartsNext ==
    /\ UNCHANGED part
    /\ IF part = "DateTime" THEN Next ELSE UNCHANGED vars
    /\ IF part = "LocalTime" THEN Local!Next ELSE UNCHANGED localVars
    /\ IF part = "NodeId" THEN Ids!Next ELSE UNCHANGED idVars
    /\ IF part = "Transport" THEN Mqtt!Next ELSE UNCHANGED mqttVars
    /\ IF part = "Logger" THEN Log!Next ELSE UNCHANGED logVars
    /\ IF part = "HttpEndpoint" THEN Http!Next ELSE UNCHANGED httpVars

PartsVars == <<part, vars, localVars, idVars, mqttVars, logVars, httpVars>>

PartsSpec == PartsInit /\ [][PartsNext]_PartsVars

-----------------------------------------------------------------------------
(* The properties, each of which its module explains.                       *)

\* LocalTime: how far a stamp of now() is off that mixes two times.
MixBounded == Local!MixBounded

\* NodeId: the id that a node was sent finds it, as long as ids fit an int.
FoundWhileIdsFit == Ids!FoundWhileIdsFit

\* NodeId: the id of an earlier registration finds nothing.
EarlierIdsNotFound == Ids!EarlierIdsNotFound

\* Transport: only a client that was to have the same id takes a session away.
StrangersCoexist == Mqtt!StrangersCoexist

\* Transport: no publisher leaves its will because the program ended it.
WillOnlyWhenLost == Mqtt!WillOnlyWhenLost

\* Logger: getInstance gives everybody the one Logger.
OneInstance == Log!OneInstance

\* Logger: getLogger() and the LOG_ macros use the same logger.
SameLogger == Log!SameLogger

\* HttpEndpoint: the server reads the parameters that a request was given.
ServerReadsParams == Http!ServerReadsParams

=============================================================================
