---------------------------- MODULE CommandLine ----------------------------
(* The command line of the two programs: how cli::parse reads it, one       *)
(* option at a time, and what the two main functions do with the result.    *)
(* An argument is a record: an option with two dashes, with the value that  *)
(* follows a delimiter in the same argument or without one, an option with  *)
(* one dash, or a word.                                                     *)
EXTENDS Integers, Sequences

CONSTANTS
    Words,    \* the texts of words and values
    Number,   \* the number a text spells, -1 where it is not only digits
    Spoken,   \* the arguments that command lines are made of
    MaxArgs   \* bound: arguments on a command line of each program

NoValue == "no value"
Word(w) == [form |-> "word", name |-> "", value |-> w]

ClientOptions == {"logdir", "server_ip", "port", "login", "key_path", "restore"}
ServerOptions == {"logdir"}
Flags == {"restore"}
Programs == {"client", "server"}
Names == ClientOptions \union {"", "unknown"}

Arguments ==
    [form : {"long"}, name : Names, value : Words \union {NoValue}]
    \union [form : {"short"}, name : {""}, value : Words \union {NoValue}]
    \union [form : {"word"}, name : {""}, value : Words]

ASSUME CommandLineAssumption ==
    /\ NoValue \notin Words /\ {"0", "none"} \subseteq Words
    /\ Number \in [Words -> Int]
    /\ Spoken \subseteq Arguments
    /\ MaxArgs \in [Programs -> Nat]

VARIABLES
    program,  \* which of the two runs
    argv,     \* its arguments
    pos,      \* token_iterator::args_i
    seen,     \* options whose parsing_count is 1, their maximum
    args,     \* the variables that are bound to the options
    result,   \* what cli::parse returned
    stage     \* how far main is

vars == <<program, argv, pos, seen, args, result, stage>>

\* The initial values of logdir, restore and cvk::args.
Default == [logdir |-> Word("none"), server_ip |-> Word("0"), port |-> 0,
            login |-> Word("0"), key_path |-> Word("0"), restore |-> FALSE]

\* A result of the parser: its kind, and whether it has a value.
Result(isOk, hasValue) == [ok |-> isOk, value |-> hasValue]

\* The parsing is not over; an error keeps a parse_state as well.
Pending == Result(FALSE, FALSE)
Ok == Result(TRUE, TRUE)
Error == Result(FALSE, TRUE)

Init ==
    /\ program \in Programs
    /\ argv \in UNION {[1 .. n -> Spoken] : n \in 0 .. MaxArgs[program]}
    /\ pos = 1
    /\ seen = {}
    /\ args = Default
    /\ result = Pending
    /\ stage = "parse"

-----------------------------------------------------------------------------
(* The options, and how often each may be parsed.                           *)

Options == IF program = "client" THEN ClientOptions ELSE ServerOptions

\* The names an option was given: one, with two dashes.
OptNames(o) == {o}

\* No option is bound to a container.
ParserCardinality(o) == [minimum |-> 0, maximum |-> 1]
IsUnbounded(c) == c.maximum = 0

ParsingCount(o) == IF o \in seen THEN 1 ELSE 0

MayParse(o) ==
    LET c == ParserCardinality(o)
    IN o \in Options /\ (IsUnbounded(c) \/ ParsingCount(o) < c.maximum)

\* The check at the end of the loop.
CountsFit ==
    \A o \in Options :
        LET c == ParserCardinality(o)
        IN /\ ParsingCount(o) >= c.minimum
           /\ IsUnbounded(c) \/ ParsingCount(o) <= c.maximum

-----------------------------------------------------------------------------
(* The token iterator and the conversion of values.                         *)

HasTokens == pos <= Len(argv)

\* The argument begins with exactly so many dashes.
IsPrefixed(size, a) == [long |-> 2, short |-> 1, word |-> 0][a.form] = size

HasShortOptionPrefix(i) == i <= Len(argv) /\ IsPrefixed(1, argv[i])
HasLongOptionPrefix(i) == i <= Len(argv) /\ IsPrefixed(2, argv[i])
HasOptionPrefix(i) == HasLongOptionPrefix(i) \/ HasShortOptionPrefix(i)

Token(type, name) == [type |-> type, name |-> name]

\* The option at i: its name ends at a delimiter.  The one letter of a short
\* option is no name of an option here.
OptionToken(i) ==
    IF HasOptionPrefix(i) THEN Token("option", argv[i].name) ELSE Token("unknown", "")

IsMatch(name, o) == name \in OptNames(o)

\* The value is in the argument itself.
HasDelimiter(a) == a.value # NoValue

\* The value of the option at i: what follows the delimiter, or the next
\* argument whatever it looks like.
HasValue(i) == HasDelimiter(argv[i]) \/ i < Len(argv)
Value(i) == IF HasDelimiter(argv[i]) THEN Word(argv[i].value) ELSE argv[i + 1]

\* Mutant of After: an option and its value are popped as one argument.
AfterOne(i) == i + 1

\* Where the iterator is after pop: a value in an argument of its own counts.
After(i) ==
    IF argv[i].name \in Flags \/ HasDelimiter(argv[i]) THEN i + 1 ELSE i + 2

SetFlag(o) == args' = [args EXCEPT ![o] = TRUE]

\* from_string: a uint16_t takes digits that fit 16 bits, a string anything.
Converts(o, v) == o = "port" => v.form = "word" /\ Number[v.value] \in 0 .. 65535
Converted(o, v) == IF o = "port" THEN Number[v.value] ELSE v
SetValue(o, v) == args' = [args EXCEPT ![o] = Converted(o, v)]

-----------------------------------------------------------------------------
(* One round of the loop of arguments::parse_any, and the ends of it.       *)

InLoop == stage = "parse" /\ result = Pending

\* opt::parse does not take the next argument.
NoMatch(o) == ~HasOptionPrefix(pos) \/ ~IsMatch(OptionToken(pos).name, o)

\* Mutant of Matches: the maximum of an option's cardinality is not looked at.
MatchesAgain(o) == InLoop /\ HasTokens /\ o \in Options /\ ~NoMatch(o)

\* Option o takes the next argument.
Matches(o) == InLoop /\ HasTokens /\ MayParse(o) /\ ~NoMatch(o)

\* The error of an option ends the parsing, at once or when the options after
\* it had no match.
Refuse ==
    /\ result' = Error
    /\ UNCHANGED <<program, argv, pos, seen, args, stage>>

Pop(o) ==
    /\ pos' = After(pos)
    /\ seen' = seen \union {o}

ParseFlag(o) ==
    /\ Matches(o) /\ o \in Flags
    /\ ~HasDelimiter(argv[pos])
    /\ Pop(o)
    /\ SetFlag(o)
    /\ UNCHANGED <<program, argv, result, stage>>

\* "Flag option ... contains value": an error that ends the parsing.
FlagWithValue(o) ==
    /\ Matches(o) /\ o \in Flags
    /\ HasDelimiter(argv[pos])
    /\ Refuse

ParseValue(o) ==
    /\ Matches(o) /\ o \notin Flags
    /\ HasValue(pos)
    /\ Converts(o, Value(pos))
    /\ Pop(o)
    /\ SetValue(o, Value(pos))
    /\ UNCHANGED <<program, argv, result, stage>>

\* No argument is left for the value, or it does not convert: "Expected
\* argument following", "Unable to convert".
RefuseValue(o) ==
    /\ Matches(o) /\ o \notin Flags
    /\ HasValue(pos) => ~Converts(o, Value(pos))
    /\ Refuse

\* No option takes the argument: the loop ends and cli::parse finds it left.
UnrecognizedToken ==
    /\ InLoop /\ HasTokens
    /\ \A o \in Options : MayParse(o) => NoMatch(o)
    /\ Refuse

AllTokensParsed ==
    /\ InLoop /\ ~HasTokens
    /\ result' = IF CountsFit THEN Ok ELSE Error
    /\ UNCHANGED <<program, argv, pos, seen, args, stage>>

-----------------------------------------------------------------------------
(* The two main functions.                                                  *)

Parsed(p) == stage = "parse" /\ program = p /\ result # Pending

\* The directory and the file next to the executable.
NextToExe(o, default) == IF args[o] = Word(default) THEN Word("next to exe") ELSE args[o]

Incomplete ==
    args.port = 0 \/ args.server_ip = Word("0") \/ args.login = Word("0")

\* restore_network: tun_ip.raw may be missing and a command may fail.
NetworkRestored == {"restored", "aborted"}

\* --restore: restore_network and exit, whatever else was given.
RestoreNetwork ==
    /\ Parsed("client") /\ result.value
    /\ args.restore
    /\ stage' \in NetworkRestored
    /\ UNCHANGED <<program, argv, pos, seen, args, result>>

\* A message and 1: the result has no value, or something is not given.
ExitWithMessage ==
    /\ Parsed("client")
    /\ result.value => ~args.restore /\ Incomplete
    /\ stage' = "exit 1"
    /\ UNCHANGED <<program, argv, pos, seen, args, result>>

\* Mutant of StartClient: the client starts unless the network is restored.
StartIncomplete ==
    /\ Parsed("client") /\ result.value
    /\ ~args.restore
    /\ args' = [args EXCEPT !.logdir = NextToExe("logdir", "none"),
                            !.key_path = NextToExe("key_path", "0")]
    /\ stage' = "started"
    /\ UNCHANGED <<program, argv, pos, seen, result>>

StartClient ==
    /\ Parsed("client") /\ result.value
    /\ ~args.restore /\ ~Incomplete
    /\ args' = [args EXCEPT !.logdir = NextToExe("logdir", "none"),
                            !.key_path = NextToExe("key_path", "0")]
    /\ stage' = "started"
    /\ UNCHANGED <<program, argv, pos, seen, result>>

\* The server does not look at the result.
StartServer ==
    /\ Parsed("server")
    /\ args' = [args EXCEPT !.logdir = NextToExe("logdir", "none")]
    /\ stage' = "started"
    /\ UNCHANGED <<program, argv, pos, seen, result>>

ParseStep ==
    \/ \E o \in ClientOptions :
         ParseFlag(o) \/ FlagWithValue(o) \/ ParseValue(o) \/ RefuseValue(o)
    \/ UnrecognizedToken
    \/ AllTokensParsed

MainStep == RestoreNetwork \/ ExitWithMessage \/ StartClient \/ StartServer

Next == ParseStep \/ MainStep

Spec == Init /\ [][Next]_vars

-----------------------------------------------------------------------------
(* What a command line says, without reading it from left to right: S are   *)
(* the places where an option stands, the others hold the values that the   *)
(* option before them takes.                                                *)

TakesNext(i) ==
    /\ argv[i].form = "long" /\ argv[i].name \in Options \ Flags
    /\ ~HasDelimiter(argv[i])

\* The argument at a place names option o.
Names_(a, o) == a.form = "long" /\ a.name = o

Grouping(S) ==
    \A i \in 1 .. Len(argv) :
        i \in S <=> (i > 1 /\ i - 1 \in S => ~TakesNext(i - 1))

\* Option o stands at i and has the value it should have.
Says(i, o) ==
    /\ Names_(argv[i], o)
    /\ IF o \in Flags THEN ~HasDelimiter(argv[i])
       ELSE HasValue(i) /\ Converts(o, Value(i))

Meant(i, o) == IF o \in Flags THEN TRUE ELSE Converted(o, Value(i))

\* Every place says something, and no two of them the same option.
Legal(S) ==
    /\ \A i \in S : \E o \in Options : Says(i, o)
    /\ \A i, j \in S : argv[i].name = argv[j].name => i = j

Places ==
    /\ argv \in Seq(Arguments)
    /\ pos \in 1 .. Len(argv) + 1
    /\ seen \subseteq ClientOptions

Phases ==
    /\ program \in Programs
    /\ result \in {Pending, Ok, Error}
    /\ stage \in {"parse", "restored", "aborted", "exit 1", "started"}

TypeOK == Places /\ Phases /\ DOMAIN args = ClientOptions

\* A command line is accepted exactly if it can be divided into options, each
\* known, given once and with a value that converts, and flags without one:
\* whatever the order, and although the value of an option may look like an
\* option itself.
AcceptedIffLegal ==
    result # Pending =>
        \A S \in SUBSET (1 .. Len(argv)) : Grouping(S) => (result.ok <=> Legal(S))

\* The variables hold what the options before the iterator say, the others
\* their defaults; also when a later argument is refused.
ArgsAsGiven ==
    stage = "parse" =>
        \A S \in SUBSET (1 .. Len(argv)), o \in ClientOptions :
            Grouping(S) =>
                \/ \E i \in S : i < pos /\ Says(i, o) /\ args[o] = Meant(i, o)
                \/ args[o] = Default[o] /\ \A i \in S : i < pos => ~Names_(argv[i], o)

\* The client restores the network only if --restore stands on the command line
\* as an option, and starts only if the server, the port and the login do.
ActsAsAsked ==
    \A S \in SUBSET (1 .. Len(argv)) :
        Grouping(S) /\ program = "client" =>
            /\ stage \in NetworkRestored => \E i \in S : Says(i, "restore")
            /\ stage = "started" =>
                 \A o \in {"server_ip", "port", "login"} :
                     \E i \in S : Says(i, o) /\ Meant(i, o) # Default[o]
=============================================================================
