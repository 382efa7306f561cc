------------------------------- MODULE Logger -------------------------------
(***************************************************************************)
(* The logger: getInstance makes the one Logger under a mutex; initLogger  *)
(* makes the directories, the sinks and the spdlog logger, keeps it in     *)
(* mAppLogger and registers it under its name; the LOG_ macros ask the     *)
(* registry for that name.  initLogger itself takes no lock.               *)
(***************************************************************************)
EXTENDS Naturals

CONSTANTS
    Thread,      \* the threads that call
    NoThread,    \* the mutex is free
    MaxCalls     \* bound: calls of initLogger

\* What the constants have to satisfy.
ConstantsOK == NoThread \notin Thread /\ MaxCalls \in Nat

VARIABLES
    mutex,       \* the thread that holds mMutex
    mInstance,   \* the Logger, 0 for null
    made,        \* history: Loggers that were made
    mine,        \* of every thread: the Logger that getInstance returned
    dirs,        \* the directories that exist
    writable,    \* directories and files can be made
    mAppLogger,  \* the spdlog logger of this Logger, 0 for null
    registry,    \* the logger registered under APP_LOGGER_NAME, 0 for none
    calls,       \* history: calls of initLogger, which number the loggers
    logger,      \* of every thread: the logger that its call makes
    pc           \* of every thread: where it is

instVars == <<mutex, mInstance, made, mine>>
initVars == <<dirs, mAppLogger, registry, calls, logger>>
vars == <<instVars, initVars, writable, pc>>

Goes(t, from, to) == pc[t] = from /\ pc' = [pc EXCEPT ![t] = to]

-----------------------------------------------------------------------------
(* getInstance.                                                             *)

Call(t) ==
    /\ Goes(t, "idle", "lock")
    /\ UNCHANGED <<instVars, initVars, writable>>

\* Mutant: nobody waits for the mutex.
LockAnyway(t) ==
    /\ Goes(t, "lock", "test")
    /\ mutex' = t
    /\ UNCHANGED <<mInstance, made, mine, initVars, writable>>

Lock(t) ==
    /\ Goes(t, "lock", "test")
    /\ mutex = NoThread /\ mutex' = t
    /\ UNCHANGED <<mInstance, made, mine, initVars, writable>>

TestInstance(t) ==
    /\ Goes(t, "test", IF mInstance = 0 THEN "new" ELSE "unlock")
    /\ UNCHANGED <<instVars, initVars, writable>>

NewInstance(t) ==
    /\ Goes(t, "new", "unlock")
    /\ made' = made + 1
    /\ mInstance' = made'
    /\ UNCHANGED <<mutex, mine, initVars, writable>>

Return(t) ==
    /\ Goes(t, "unlock", "has")
    /\ mine' = [mine EXCEPT ![t] = mInstance]
    /\ mutex' = NoThread
    /\ UNCHANGED <<mInstance, made, initVars, writable>>

-----------------------------------------------------------------------------
(* initLogger, and the use of the logger.                                   *)

InitLogger(t) ==
    /\ calls < MaxCalls
    /\ Goes(t, "has", "logDir")
    /\ calls' = calls + 1
    /\ logger' = [logger EXCEPT ![t] = calls']
    /\ UNCHANGED <<instVars, dirs, mAppLogger, registry, writable>>

\* stat and mkdir of the directory; the result of mkdir is only printed.
MakeDir(t, from, to, dir, parents) ==
    /\ Goes(t, from, to)
    /\ dirs' = IF writable /\ parents \subseteq dirs THEN dirs \cup {dir} ELSE dirs
    /\ UNCHANGED <<instVars, mAppLogger, registry, calls, logger, writable>>

MakeLogDir(t) == MakeDir(t, "logDir", "stampDir", "log", {})
MakeStampDir(t) == MakeDir(t, "stampDir", "sinks", "stamp", {"log"})

\* The file sink opens its file, and throws if it cannot.
MakeSinks(t) ==
    /\ Goes(t, "sinks", "assign")
    /\ writable
    /\ dirs' = dirs \cup {"log", "stamp"}
    /\ UNCHANGED <<instVars, mAppLogger, registry, calls, logger, writable>>

\* Mutant: the logger is kept before its file is open.
SinksThrowAssigned(t) ==
    /\ Goes(t, "sinks", "has")
    /\ ~writable
    /\ mAppLogger' = logger[t]
    /\ logger' = [logger EXCEPT ![t] = 0]
    /\ UNCHANGED <<instVars, dirs, registry, calls, writable>>

SinksThrow(t) ==
    /\ Goes(t, "sinks", "has")
    /\ ~writable
    /\ logger' = [logger EXCEPT ![t] = 0]
    /\ UNCHANGED <<instVars, dirs, mAppLogger, registry, calls, writable>>

Assign(t) ==
    /\ Goes(t, "assign", "register")
    /\ mAppLogger' = logger[t]
    /\ UNCHANGED <<instVars, dirs, registry, calls, logger, writable>>

\* register_logger throws when the name is taken.
Register(t) ==
    /\ Goes(t, "register", "has")
    /\ registry' = IF registry = 0 THEN mAppLogger ELSE registry
    /\ logger' = [logger EXCEPT ![t] = 0]
    /\ UNCHANGED <<instVars, dirs, mAppLogger, calls, writable>>

\* The thread goes on; it asks for the instance again before it uses it.
Leave(t) ==
    /\ Goes(t, "has", "idle")
    /\ UNCHANGED <<instVars, initVars, writable>>

DiskChanges ==
    /\ writable' = ~writable
    /\ UNCHANGED <<instVars, initVars, pc>>

-----------------------------------------------------------------------------
Init ==
    /\ mutex = NoThread /\ mInstance = 0 /\ made = 0
    /\ mine = [t \in Thread |-> 0]
    /\ dirs \in {{}, {"log"}} /\ writable \in BOOLEAN
    /\ mAppLogger = 0 /\ registry = 0 /\ calls = 0
    /\ logger = [t \in Thread |-> 0]
    /\ pc = [t \in Thread |-> "idle"]

getInstance(t) == Lock(t) \/ TestInstance(t) \/ NewInstance(t) \/ Return(t)

initLogger(t) ==
    \/ MakeLogDir(t) \/ MakeStampDir(t) \/ MakeSinks(t) \/ SinksThrow(t)
    \/ Assign(t) \/ Register(t)

Next ==
    \/ DiskChanges
    \/ \E t \in Thread : Call(t) \/ getInstance(t) \/ InitLogger(t) \/ initLogger(t) \/ Leave(t)

Spec == Init /\ [][Next]_vars

-----------------------------------------------------------------------------
(* Properties.                                                              *)

\* There is one Logger, whoever asks first and at once: nobody is given a null
\* pointer or another one.
OneInstance ==
    /\ made <= 1
    /\ \A t \in Thread : pc[t] \notin {"idle", "lock", "test", "new", "unlock"} => mine[t] = 1

\* Between the calls, getLogger() returns the logger that the macros use. Only
\* where initLogger was called again after a success do the two differ: that
\* call throws, and mAppLogger is already the new one. A call that fails for
\* the disk leaves nothing behind.
SameLogger ==
    (\A t \in Thread : logger[t] = 0) =>
        mAppLogger = registry \/ (registry # 0 /\ calls > 1)

=============================================================================
