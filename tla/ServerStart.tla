---------------------------- MODULE ServerStart -----------------------------
(* The start of the server, from its command line on: main reads the        *)
(* settings, registers the three contexts and starts their threads; each    *)
(* thread runs its asyncStart and then its loop; meanwhile main has called  *)
(* acceptConnection, which asks the settings context for a snapshot, goes   *)
(* on in the main context and opens the acceptor, again after every error.  *)
(* The client shares the command line with it and goes on in module Client. *)
(* The store of contexts, its threads and Invoke belong to a library that   *)
(* is not in the repository.                                                *)
EXTENDS CommandLine, FiniteSets, Functions

CONSTANTS
    Configs,   \* what conf.json can hold
    Logins,    \* logins that clients try, as numbers in the order of strings
    MaxFaults  \* bound: how often the port is taken or an accept fails

ASSUME ServerStartAssumption ==
    /\ \A c \in Configs : /\ c.readable \in BOOLEAN
                          /\ c.key \in {"missing", "other", "private", "public"}
                          /\ c.port \in Nat /\ c.logins \in Seq(Nat)
    /\ Logins \subseteq Nat /\ MaxFaults \in Nat

Contexts == {"MainCtx", "SettingsCtx", "StatisticsCtx"}
Main == "main thread"
Threads == Contexts \union {Main}
NoThread == "no thread"

VARIABLES
    conf,        \* the file, once it was read
    mpc,         \* how far main is
    registered,  \* previousFuncs: the contexts that have registered
    snapshot,    \* current_snapshot of Settings
    ctx,         \* how far the thread of each context is
    ids,         \* mainThreadID, settingsThreadID, statsThreadID, by their threads
    tun,         \* setupTun has run
    accepting,   \* where the coroutine acceptConnection is
    settings,    \* its copy of the snapshot
    acceptor,    \* the port it listens on and the thread that opened it, or none
    answers,     \* the logins tried, with the answer
    faults,      \* how many faults there were
    fate         \* running, or how the process ended

given == <<vars, conf>>
mainVars == <<mpc, registered, snapshot>>
threadVars == <<ctx, ids, tun>>
acceptVars == <<accepting, settings, acceptor, answers, faults>>
serverVars == <<conf, mainVars, threadVars, acceptVars, fate>>
startVars == <<vars, serverVars>>

StartInit ==
    /\ Init
    /\ conf = <<>>
    /\ mpc = "read" /\ registered = <<>> /\ snapshot = <<>>
    /\ ctx = [c \in Contexts |-> "off"]
    /\ ids = [t \in Threads |-> IF t = Main THEN Main ELSE NoThread]
    /\ tun = FALSE
    /\ accepting = "no" /\ settings = <<>> /\ acceptor = <<>> /\ answers = {} /\ faults = 0
    /\ fate = "running"

Running == fate = "running"

\* cussert and cuabort end the process.
Cussert(x) == fate' = IF x THEN fate ELSE "assert"
CuAbort == fate' = "aborted"

\* __builtin_debugtrap: the end of the process, unless a debugger is attached
\* that lets it go on.
Breakpoint == fate' \in {fate, "trap"}

-----------------------------------------------------------------------------
(* The thread of main.                                                      *)

\* Mutant of SortedLogins: the logins stay as the file has them.
FileLogins(logins) == logins

\* std::sort of the logins.
SortedLogins(logins) ==
    LET places == DOMAIN logins
        order == CHOOSE p \in Surjection(places, places) :
                     \A i, j \in places : i < j => logins[p[i]] <= logins[p[j]]
    IN  [i \in places |-> logins[order[i]]]

\* RsaKey::from_pem_file: the file is there and holds a key of the type.
FromPemFile(key, type) == key = type

\* Settings::read; an exception leaves main.  json's get<uint16_t> keeps the
\* low 16 bits of a larger number.
ReadSettings ==
    /\ program = "server" /\ stage = "started"
    /\ Running /\ mpc = "read"
    /\ \E c \in Configs :
         /\ conf' = <<c>>
         /\ IF c.readable /\ FromPemFile(c.key, "private") /\ c.logins # <<>>
            THEN /\ snapshot' = <<[port |-> c.port % 65536,
                                   logins |-> SortedLogins(c.logins)]>>
                 /\ mpc' = "register"
                 /\ UNCHANGED fate
            ELSE fate' = "terminated" /\ UNCHANGED <<snapshot, mpc>>
    /\ UNCHANGED <<vars, registered, threadVars, acceptVars>>

\* The order of enum ContextTargets, and the order of the calls in main.
Index == [MainCtx |-> 0, SettingsCtx |-> 1, StatisticsCtx |-> 2]
CallOrder == <<"MainCtx", "SettingsCtx", "StatisticsCtx">>

\* registerContexts has an error: "cannot set contexts to run".
RegisterContextsFails ==
    /\ Running /\ mpc = "register" /\ registered = <<>>
    /\ fate' = "exit"
    /\ UNCHANGED <<given, mainVars, threadVars, acceptVars>>

\* "check that order is correct", in the onAsyncStart of context c.
OnAsyncStart(c) ==
    /\ Running /\ mpc = "register"
    /\ Len(registered) < Len(CallOrder) /\ CallOrder[Len(registered) + 1] = c
    /\ IF Index[c] = Len(registered)
       THEN registered' = Append(registered, c) /\ UNCHANGED fate
       ELSE fate' = "assert" /\ UNCHANGED registered
    /\ UNCHANGED <<given, mpc, snapshot, threadVars, acceptVars>>

SessionsControlRegisters == OnAsyncStart("MainCtx")
SettingsRegister == OnAsyncStart("SettingsCtx")
StatisticsRegister == OnAsyncStart("StatisticsCtx")

\* startContexts launches the threads, or fails and main calls _Exit.
StartContexts ==
    /\ Running /\ mpc = "register"
    /\ Len(registered) = Len(CallOrder)
    /\ \/ /\ ctx' = [c \in Contexts |-> "launched"]
          /\ mpc' = "accept"
          /\ UNCHANGED fate
       \/ fate' = "exit" /\ UNCHANGED <<ctx, mpc>>
    /\ UNCHANGED <<given, registered, snapshot, ids, tun, acceptVars>>

\* startAcceptingConnections: acceptConnection runs on the thread of main up to
\* its Invoke, past a breakpoint; after that main only waits.
StartAcceptingConnections ==
    /\ Running /\ mpc = "accept"
    /\ accepting' = "asked"
    /\ mpc' = "wait"
    /\ Breakpoint
    /\ UNCHANGED <<given, registered, snapshot, threadVars, settings, acceptor, answers,
                   faults>>

-----------------------------------------------------------------------------
(* asyncStart of the three contexts, before their loops.                    *)

\* checkThread: the id is set, or has to be the one of this thread.
CheckThread(c, id) ==
    /\ Running /\ ctx[c] = "launched"
    /\ ids' = IF ids[id] = NoThread THEN [ids EXCEPT ![id] = c] ELSE ids
    /\ Cussert(ids[id] \in {NoThread, c})
    /\ ctx' = [ctx EXCEPT ![c] = "checking"]
    /\ UNCHANGED <<given, mainVars, tun, acceptVars>>

\* Mutant of SettingsStart: the settings check the id of the statistics.
SettingsStartShared == CheckThread("SettingsCtx", "StatisticsCtx")

SettingsStart == CheckThread("SettingsCtx", "SettingsCtx")
StatisticsStart == CheckThread("StatisticsCtx", "StatisticsCtx")

\* checkAllThreadIDsCollision, while other threads may still set theirs.
CheckAllThreadIDsCollision(c) ==
    /\ Running
    /\ ctx[c] = "checking"
    /\ Cussert(\A t, u \in Threads : t # u /\ ids[t] # NoThread => ids[t] # ids[u])
    /\ ctx' = [ctx EXCEPT ![c] = "loop"]
    /\ UNCHANGED <<given, mainVars, ids, tun, acceptVars>>

\* Tun::Tun: /dev/net/tun, its flags and its non-blocking mode.
TunOpens == {"opened", "no device", "no flags", "blocking"}

CheckThreadIsNOT(id, c) == Cussert(ids[id] \notin {c, NoThread})

\* The main context: it must not be the thread of main; timer, tun device and
\* router.  Opening the device or a command of setupTun may fail: cuabort.
SetupTun ==
    /\ Running
    /\ ctx["MainCtx"] = "launched"
    /\ \E opened \in TunOpens, commandsDone \in BOOLEAN :
         IF opened = "opened" /\ commandsDone
         THEN /\ CheckThreadIsNOT(Main, "MainCtx")
              /\ tun' = TRUE
              /\ ctx' = [ctx EXCEPT !["MainCtx"] = "loop"]
         ELSE CuAbort /\ UNCHANGED <<ctx, tun>>
    /\ UNCHANGED <<given, mainVars, ids, acceptVars>>

-----------------------------------------------------------------------------
(* acceptConnection, from its Invoke on.                                    *)

\* get_settings in the loop of the settings context; the copy goes to the
\* context that the Invoke names first.
GetSettings ==
    /\ Running /\ ctx["SettingsCtx"] = "loop"
    /\ accepting = "asked"
    /\ settings' = snapshot
    /\ accepting' = "answered"
    /\ UNCHANGED <<given, mainVars, threadVars, acceptor, answers, faults, fate>>

\* Mutant of ResumesIn: the coroutine goes on where the promise is set.
WherePromiseIsSet == "SettingsCtx"

ResumesIn == "MainCtx"

\* Past the next breakpoint the acceptor is opened, in the main context.
OpenAcceptor ==
    /\ Running /\ ctx[ResumesIn] = "loop"
    /\ accepting = "answered"
    /\ acceptor' = <<[port |-> settings[1].port, by |-> ResumesIn]>>
    /\ accepting' = "listening"
    /\ Breakpoint
    /\ UNCHANGED <<given, mainVars, threadVars, settings, answers, faults>>

\* Mutant of AcceptorError: the error is logged and the loop not begun again.
AcceptorErrorEnds ==
    /\ Running /\ ctx[ResumesIn] = "loop"
    /\ accepting \in {"answered", "listening"}
    /\ faults < MaxFaults
    /\ faults' = faults + 1
    /\ acceptor' = <<>>
    /\ accepting' = "no"
    /\ UNCHANGED <<given, mainVars, threadVars, settings, answers, fate>>

\* The port is taken, or an accept fails: the acceptor goes and acceptConnection
\* is called again, which asks for the settings at once.  (The breakpoints on the
\* way are one.)
AcceptorError ==
    /\ Running /\ ctx[ResumesIn] = "loop"
    /\ accepting \in {"answered", "listening"}
    /\ faults < MaxFaults
    /\ faults' = faults + 1
    /\ acceptor' = <<>>
    /\ accepting' = "asked"
    /\ Breakpoint
    /\ UNCHANGED <<given, mainVars, threadVars, settings, answers>>

\* std::ranges::binary_search: the first place whose element is not smaller.
LowerBound(s, x) ==
    LET from[range \in {fn \in (1 .. Len(s) + 1) \X (0 .. Len(s)) :
                            fn[1] + fn[2] <= Len(s) + 1}] ==
            LET first == range[1]
                half == range[2] \div 2
            IN IF range[2] = 0 THEN first
               ELSE IF s[first + half] < x
                    THEN from[<<first + half + 1, range[2] - half - 1>>]
               ELSE from[<<first, half>>]
    IN from[<<1, Len(s)>>]

BinarySearch(s, x) ==
    LET i == LowerBound(s, x) IN i <= Len(s) /\ s[i] = x

\* A client connects and sends its login; the session has a copy of its own of
\* the snapshot (authenticateUser).
AuthenticateUser ==
    /\ Running /\ accepting = "listening"
    /\ \E login \in Logins :
         answers' = answers \union
             {[login |-> login, allowed |-> BinarySearch(snapshot[1].logins, login)]}
    /\ Breakpoint
    /\ UNCHANGED <<given, mainVars, threadVars, accepting, settings, acceptor, faults>>

ServerStep ==
    \/ ReadSettings \/ RegisterContextsFails
    \/ SessionsControlRegisters \/ SettingsRegister \/ StatisticsRegister
    \/ StartContexts \/ StartAcceptingConnections
    \/ SetupTun \/ SettingsStart \/ StatisticsStart
    \/ \E c \in Contexts : CheckAllThreadIDsCollision(c)
    \/ GetSettings \/ OpenAcceptor \/ AcceptorError \/ AuthenticateUser

StartNext == (Next /\ UNCHANGED serverVars) \/ ServerStep

StartSpec == StartInit /\ [][StartNext]_startVars

\* Every thread that was launched runs; nothing is assumed of the faults but
\* that they end (MaxFaults).
FairStart ==
    /\ StartSpec
    /\ WF_startVars(Next /\ UNCHANGED serverVars)
    /\ WF_startVars(ReadSettings)
    /\ WF_startVars(SessionsControlRegisters) /\ WF_startVars(SettingsRegister)
    /\ WF_startVars(StatisticsRegister)
    /\ WF_startVars(StartContexts) /\ WF_startVars(StartAcceptingConnections)
    /\ WF_startVars(SetupTun) /\ WF_startVars(SettingsStart) /\ WF_startVars(StatisticsStart)
    /\ \A c \in Contexts : WF_startVars(CheckAllThreadIDsCollision(c))
    /\ WF_startVars(GetSettings) /\ WF_startVars(OpenAcceptor)

-----------------------------------------------------------------------------
StartTypeOK ==
    /\ conf = <<>> \/ \E c \in Configs : conf = <<c>>
    /\ mpc \in {"read", "register", "accept", "wait"}
    /\ registered \in Seq(Contexts)
    /\ Len(snapshot) <= 1 /\ Len(settings) <= 1 /\ Len(acceptor) <= 1
    /\ ctx \in [Contexts -> {"off", "launched", "checking", "loop"}]
    /\ ids \in [Threads -> Threads \union {NoThread}]
    /\ tun \in BOOLEAN
    /\ accepting \in {"no", "asked", "answered", "listening"}
    /\ \A a \in answers : a.login \in Logins /\ a.allowed \in BOOLEAN
    /\ faults \in 0 .. MaxFaults
    /\ fate \in {"running", "terminated", "assert", "exit", "aborted", "trap"}

\* "here because i want settings context to be valid and running": although main
\* asks for the acceptor before any thread need have run, it is opened when the
\* main context has its tun device and router, on the thread of that context,
\* and on the port of the file (of which 16 bits are looked at).
AcceptsWhenSetUp ==
    acceptor # <<>> =>
        /\ tun /\ ctx["MainCtx"] = "loop" /\ acceptor[1].by = "MainCtx"
        /\ ctx["SettingsCtx"] = "loop" /\ acceptor[1].port = conf[1].port % 65536

\* No assertion of the start fires: neither the order of the contexts nor the
\* ids of the threads, in whatever order the threads come to set and compare them.
NoAssertFails == fate # "assert"

\* A client is let in exactly if conf.json names its login, in whatever order
\* and how often the file has it.
LoginsAsConfigured ==
    \A a \in answers : a.allowed <=> \E i \in DOMAIN conf[1].logins : conf[1].logins[i] = a.login

\* A server that is run comes to listen whatever its command line, also after
\* its port was taken or an accept has failed, unless the process ends, as it does
\* at the first breakpoint that no debugger takes.
Listens == program = "server" ~> acceptor # <<>> \/ ~Running
=============================================================================
