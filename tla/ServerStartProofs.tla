-------------------------- MODULE ServerStartProofs --------------------------
(* The command line, for lines of any length and of any words, and the start *)
(* of the server, for any file, any logins and any number of faults.         *)
EXTENDS ServerStart, WellFoundedInduction, TLAPS

-----------------------------------------------------------------------------
(* The command line.                                                        *)

\* The places before the iterator that are options are the ones read so far:
\* each says something, none twice, and the bound variables hold what they say.
Reading(S) ==
    /\ pos <= Len(argv) => pos \in S
    /\ \A i \in S : i < pos => \E o \in Options : Says(i, o)
    /\ \A i, j \in S : i < pos /\ j < pos /\ argv[i].name = argv[j].name => i = j
    /\ \A o \in ClientOptions :
         o \in seen <=> \E i \in S : i < pos /\ Names_(argv[i], o)
    /\ \A o \in ClientOptions :
         stage # "started" \/ o \notin {"logdir", "key_path"} =>
            \/ \E i \in S : i < pos /\ Says(i, o) /\ args[o] = Meant(i, o)
            \/ args[o] = Default[o] /\ \A i \in S : i < pos => ~Names_(argv[i], o)
    /\ result = Error => ~Legal(S)

IsFunction == args = [o \in ClientOptions |-> args[o]]

Decided ==
    /\ result = Ok => pos = Len(argv) + 1
    /\ stage # "parse" => result # Pending
    /\ stage \in NetworkRestored => args.restore
    /\ stage = "started" /\ program = "client" => ~Incomplete

Inv ==
    /\ Places
    /\ Phases
    /\ IsFunction
    /\ Decided
    /\ \A S \in SUBSET (1 .. Len(argv)) : Grouping(S) => Reading(S)

-----------------------------------------------------------------------------
(* What the places say does not change: the command line and the program do  *)
(* not.                                                                      *)

LEMMA Unmoved ==
    ASSUME UNCHANGED <<program, argv>>
    PROVE  /\ Options' = Options
           /\ \A i : HasValue(i)' <=> HasValue(i)
           /\ \A i : Value(i)' = Value(i)
           /\ \A i : TakesNext(i)' <=> TakesNext(i)
<1>1. Options' = Options
  BY DEF Options
<1> QED
  BY <1>1 DEF HasValue, Value, TakesNext

LEMMA UnmovedSays ==
    ASSUME UNCHANGED <<program, argv>>
    PROVE  /\ \A i, o : Says(i, o)' <=> Says(i, o)
           /\ \A i, o : Meant(i, o)' = Meant(i, o)
<1>1. \A i : (HasValue(i)' <=> HasValue(i)) /\ Value(i)' = Value(i)
  BY Unmoved
<1>2. \A i, o : Says(i, o)' <=> Says(i, o)
  <2> SUFFICES ASSUME NEW i, NEW o PROVE Says(i, o)' <=> Says(i, o)
    OBVIOUS
  <2>1. Converts(o, Value(i))' <=> Converts(o, Value(i))
    BY DEF Converts, Value, HasDelimiter
  <2> QED
    BY <1>1, <2>1 DEF Says, Names_, HasDelimiter
<1>3. \A i, o : Meant(i, o)' = Meant(i, o)
  BY <1>1 DEF Meant, Converted
<1> QED
  BY <1>2, <1>3

LEMMA UnmovedSets ==
    ASSUME UNCHANGED <<program, argv>>
    PROVE  /\ \A S : Grouping(S)' <=> Grouping(S)
           /\ \A S : Legal(S)' <=> Legal(S)
<1>1. \A S : Grouping(S)' <=> Grouping(S)
  BY Unmoved DEF Grouping
<1>2. \A S : Legal(S)' <=> Legal(S)
  BY Unmoved, UnmovedSays DEF Legal
<1> QED
  BY <1>1, <1>2

\* A place that says an option says no other.
LEMMA SaysOne ==
    ASSUME NEW i, NEW o, NEW q, Names_(argv[i], o), Says(i, q)
    PROVE  q = o
BY DEF Says, Names_

-----------------------------------------------------------------------------
(* What the token iterator and the counts amount to.                         *)

\* An argument has two dashes and the name of an option, one or none: only the
\* first matches the option.
LEMMA MatchIsName ==
    ASSUME Places, HasTokens, NEW o \in Options
    PROVE  NoMatch(o) <=> ~Names_(argv[pos], o)
<1>1. argv[pos] \in Arguments /\ pos \in Nat
  BY DEF Places, HasTokens
<1>2. o # ""
  BY DEF Options, ClientOptions, ServerOptions
<1>3. CASE argv[pos].form = "long"
  <2>1. HasOptionPrefix(pos)
    BY <1>3 DEF HasTokens, HasOptionPrefix, HasLongOptionPrefix, IsPrefixed
  <2>2. OptionToken(pos).name = argv[pos].name
    BY <2>1 DEF OptionToken, Token
  <2> QED
    BY <1>3, <2>1, <2>2 DEF NoMatch, IsMatch, OptNames, Names_
<1>4. CASE argv[pos].form # "long"
  <2>1. argv[pos].name = ""
    BY <1>1, <1>4 DEF Arguments
  <2>2. OptionToken(pos).name = ""
    BY <2>1 DEF OptionToken, Token
  <2> QED
    BY <1>2, <1>4, <2>2 DEF NoMatch, IsMatch, OptNames, Names_
<1> QED
  BY <1>3, <1>4

\* An option may be parsed until it was.
LEMMA ParsedOnce ==
    /\ \A o : MayParse(o) <=> o \in Options \ seen
    /\ CountsFit
<1>1. \A o : ParsingCount(o) = IF o \in seen THEN 1 ELSE 0
  BY DEF ParsingCount
<1>2. \A o : ParserCardinality(o).minimum = 0 /\ ParserCardinality(o).maximum = 1
  BY DEF ParserCardinality
<1> QED
  BY <1>1, <1>2 DEF MayParse, CountsFit, IsUnbounded

\* An option that matches is an option of the program, at its first place.
LEMMA MatchesFirst ==
    ASSUME Places, NEW o, Matches(o)
    PROVE  /\ stage = "parse" /\ result = Pending
           /\ pos <= Len(argv)
           /\ o \in Options /\ o \notin seen /\ Names_(argv[pos], o)
BY MatchIsName, ParsedOnce DEF Matches, InLoop, HasTokens

-----------------------------------------------------------------------------
(* The option at the iterator is read: the step that ParseFlag and           *)
(* ParseValue have in common.                                                *)

LEMMA PopReads ==
    ASSUME Inv, NEW o \in Options, Matches(o), Says(pos, o), Pop(o),
           args' = [args EXCEPT ![o] = Meant(pos, o)],
           UNCHANGED <<program, argv, result, stage>>
    PROVE  Inv'
<1>0. /\ Places /\ Phases /\ IsFunction /\ Decided
      /\ \A S \in SUBSET (1 .. Len(argv)) : Grouping(S) => Reading(S)
  BY DEF Inv
<1>1. o \in ClientOptions /\ Options \subseteq ClientOptions
  BY DEF Options, ClientOptions, ServerOptions
<1>2. pos \in 1 .. Len(argv) /\ Len(argv) \in Nat /\ argv[pos] \in Arguments
  BY <1>0, MatchesFirst DEF Places
<1>3. argv[pos].form = "long" /\ argv[pos].name = o
  BY <1>0, MatchesFirst DEF Names_
<1>4. stage = "parse" /\ result = Pending /\ o \notin seen
  BY <1>0, MatchesFirst
<1>5. pos' = IF TakesNext(pos) THEN pos + 2 ELSE pos + 1
  BY <1>3 DEF Pop, After, TakesNext
<1>6. TakesNext(pos) => pos < Len(argv)
  BY <1>2, <1>3 DEF TakesNext, Says, HasValue
<1>7. pos' \in 1 .. Len(argv) + 1 /\ pos < pos'
  BY <1>2, <1>5, <1>6
<1>8. Places' /\ Phases'
  BY <1>0, <1>1, <1>7 DEF Places, Phases, Pop
<1>9. IsFunction'
  BY <1>0, <1>1 DEF IsFunction
<1>10. Decided'
  BY <1>4 DEF Decided, NetworkRestored, Pending, Ok, Result
<1>11. ASSUME NEW S \in SUBSET (1 .. Len(argv)), Grouping(S)
       PROVE  Reading(S)'
  <2>1. Reading(S)
    BY <1>0, <1>11
  <2>2. pos \in S
    BY <1>2, <2>1 DEF Reading
  <2>3. \A i \in S : i < pos' <=> i < pos \/ i = pos
    <3> SUFFICES ASSUME NEW i \in S PROVE i < pos' <=> i < pos \/ i = pos
      OBVIOUS
    <3>1. i \in Int
      BY <1>2
    <3>2. TakesNext(pos) => i # pos + 1
      <4>1. TakesNext(pos) => pos + 1 \in 1 .. Len(argv) /\ pos + 1 > 1 /\ pos + 1 - 1 = pos
        BY <1>2, <1>6
      <4> QED
        BY <1>11, <2>2, <4>1 DEF Grouping
    <3> QED
      BY <1>2, <1>5, <3>1, <3>2
  <2>4. pos' <= Len(argv) => pos' \in S
    <3>1. CASE ~TakesNext(pos)
      <4>1. pos' = pos + 1 /\ pos' > 1 /\ pos' - 1 = pos
        BY <1>2, <1>5, <3>1
      <4> QED
        BY <1>7, <1>11, <3>1, <4>1, <2>2 DEF Grouping
    <3>2. CASE TakesNext(pos)
      <4>1. pos' = pos + 2 /\ pos' > 1 /\ pos' - 1 = pos + 1
        BY <1>2, <1>5, <3>2
      <4>2. pos + 1 \in 1 .. Len(argv) /\ pos + 1 > 1 /\ pos + 1 - 1 = pos
        BY <1>2, <1>6, <3>2
      <4>3. pos + 1 \notin S
        BY <1>11, <3>2, <4>2, <2>2 DEF Grouping
      <4> QED
        BY <1>7, <1>11, <4>1, <4>3 DEF Grouping
    <3> QED
      BY <3>1, <3>2
  <2>5. \A i \in S : i < pos' => \E q \in Options' : Says(i, q)'
    BY <2>1, <2>3, Unmoved, UnmovedSays DEF Reading
  <2>6. \A i \in S : i < pos => argv[i].name # o
    <3> SUFFICES ASSUME NEW i \in S, i < pos, argv[i].name = o PROVE FALSE
      OBVIOUS
    <3>1. PICK q \in Options : Says(i, q)
      BY <2>1 DEF Reading
    <3>2. Names_(argv[i], o)
      BY <3>1 DEF Says, Names_
    <3> QED
      BY <1>1, <1>4, <2>1, <3>2 DEF Reading
  <2>7. \A i, j \in S : i < pos' /\ j < pos' /\ argv[i].name = argv[j].name => i = j
    BY <1>3, <2>1, <2>3, <2>6 DEF Reading
  <2>8. \A q \in ClientOptions :
          q \in seen' <=> \E i \in S : i < pos' /\ Names_(argv[i], q)
    BY <1>3, <2>1, <2>2, <2>3 DEF Reading, Pop, Names_
  <2>9. ASSUME NEW q \in ClientOptions
        PROVE  \/ \E i \in S : i < pos' /\ Says(i, q) /\ args'[q] = Meant(i, q)
               \/ args'[q] = Default[q] /\ \A i \in S : i < pos' => ~Names_(argv[i], q)
    <3>1. CASE q = o
      <4>1. args'[q] = Meant(pos, q)
        BY <1>0, <1>1, <3>1 DEF IsFunction
      <4> QED
        BY <2>2, <2>3, <3>1, <4>1
    <3>2. CASE q # o
      <4>1. args'[q] = args[q]
        BY <1>0, <1>1, <3>2 DEF IsFunction
      <4>2. ~Names_(argv[pos], q)
        BY <1>3, <3>2 DEF Names_
      <4>3. \/ \E i \in S : i < pos /\ Says(i, q) /\ args[q] = Meant(i, q)
            \/ args[q] = Default[q] /\ \A i \in S : i < pos => ~Names_(argv[i], q)
        BY <1>4, <2>1 DEF Reading
      <4> QED
        BY <2>3, <4>1, <4>2, <4>3
    <3> QED
      BY <3>1, <3>2
  <2>10. (result = Error => ~Legal(S))'
    BY <1>4 DEF Pending, Error, Result
  <2> QED
    BY <2>4, <2>5, <2>7, <2>8, <2>9, <2>10, UnmovedSays DEF Reading
<1> QED
  BY <1>8, <1>9, <1>10, <1>11, UnmovedSets DEF Inv

\* The parsing ends, with Ok when nothing is left or with Error at an argument
\* that cannot be part of a legal command line.
LEMMA EndKeeps ==
    ASSUME Inv, stage = "parse", result = Pending,
           result' \in {Ok, Error},
           result' = Ok => pos = Len(argv) + 1,
           result' = Error => \A S \in SUBSET (1 .. Len(argv)) : Grouping(S) => ~Legal(S),
           UNCHANGED <<program, argv, pos, seen, args, stage>>
    PROVE  Inv'
<1>0. /\ Places /\ Phases /\ IsFunction /\ Decided
      /\ \A S \in SUBSET (1 .. Len(argv)) : Grouping(S) => Reading(S)
  BY DEF Inv
<1>1. Places' /\ Phases'
  BY <1>0 DEF Places, Phases
<1>2. IsFunction'
  BY <1>0 DEF IsFunction
<1>3. Decided'
  BY DEF Decided, NetworkRestored, Pending, Ok, Error, Result
<1>4. ASSUME NEW S \in SUBSET (1 .. Len(argv)), Grouping(S)
      PROVE  Reading(S)'
  <2>1. Reading(S)
    BY <1>0, <1>4
  <2> QED
    BY <1>4, <2>1, Unmoved, UnmovedSays, UnmovedSets DEF Reading
<1> QED
  BY <1>1, <1>2, <1>3, <1>4, UnmovedSets DEF Inv

\* A step of main after the parsing.
LEMMA MainKeeps ==
    ASSUME Inv, stage = "parse", result # Pending,
           stage' \in NetworkRestored \union {"exit 1", "started"},
           stage' \in NetworkRestored => args.restore,
           stage' = "started" /\ program = "client" => ~Incomplete,
           args' = [o \in ClientOptions |-> args'[o]],
           \A o \in ClientOptions :
              stage' # "started" \/ o \notin {"logdir", "key_path"} => args'[o] = args[o],
           UNCHANGED <<program, argv, pos, seen, result>>
    PROVE  Inv'
<1>9. /\ Places /\ Phases /\ IsFunction /\ Decided
      /\ \A S \in SUBSET (1 .. Len(argv)) : Grouping(S) => Reading(S)
  BY DEF Inv
<1>0. {"port", "restore", "server_ip", "login"} \subseteq ClientOptions
  BY DEF ClientOptions
<1>1. /\ args'.port = args.port /\ args'.restore = args.restore
      /\ args'.server_ip = args.server_ip /\ args'.login = args.login
  BY <1>0
<1>2. Places' /\ Phases'
  BY <1>9 DEF Places, Phases, NetworkRestored
<1>3. IsFunction'
  BY DEF IsFunction
<1>4. Decided'
  BY <1>1, <1>9 DEF Decided, Incomplete
<1>5. ASSUME NEW S \in SUBSET (1 .. Len(argv)), Grouping(S)
      PROVE  Reading(S)'
  <2>1. Reading(S)
    BY <1>5, <1>9
  <2>2. ASSUME NEW o \in ClientOptions,
               stage' # "started" \/ o \notin {"logdir", "key_path"}
        PROVE  \/ \E i \in S : i < pos /\ Says(i, o) /\ args'[o] = Meant(i, o)
               \/ args'[o] = Default[o] /\ \A i \in S : i < pos => ~Names_(argv[i], o)
    BY <2>1, <2>2 DEF Reading
  <2>3. (pos <= Len(argv) => pos \in S)'
    BY <2>1 DEF Reading
  <2>4. \A i \in S : i < pos => \E o \in Options' : Says(i, o)'
    BY <2>1, Unmoved, UnmovedSays DEF Reading
  <2>5. (\A i, j \in S : i < pos /\ j < pos /\ argv[i].name = argv[j].name => i = j)'
    BY <2>1 DEF Reading
  <2>6. (\A o \in ClientOptions : o \in seen <=> \E i \in S : i < pos /\ Names_(argv[i], o))'
    BY <2>1 DEF Reading, Names_
  <2>7. (result = Error => ~Legal(S))'
    BY <2>1, UnmovedSets DEF Reading
  <2>8. \A o \in ClientOptions :
          stage' # "started" \/ o \notin {"logdir", "key_path"} =>
            \/ \E i \in S : i < pos /\ Says(i, o)' /\ args'[o] = Meant(i, o)'
            \/ args'[o] = Default[o] /\ \A i \in S : i < pos => ~Names_(argv[i], o)
    BY <2>2, UnmovedSays
  <2> QED
    BY <2>3, <2>4, <2>5, <2>6, <2>7, <2>8 DEF Reading, Names_
<1> QED
  BY <1>2, <1>3, <1>4, <1>5, UnmovedSets DEF Inv

-----------------------------------------------------------------------------
LEMMA InitInv == Init => Inv
<1> SUFFICES ASSUME Init PROVE Inv
  OBVIOUS
<1>1. PICK n \in 0 .. MaxArgs[program] : argv \in [1 .. n -> Spoken]
  BY DEF Init
<1>2. argv \in Seq(Arguments) /\ Len(argv) = n
  BY <1>1, CommandLineAssumption
<1>3. Places /\ Phases
  BY <1>1, <1>2 DEF Init, Places, Phases, Pending, Result
<1>4. IsFunction
  BY DEF Init, IsFunction, Default, ClientOptions
<1>5. Decided
  BY DEF Init, Decided, NetworkRestored, Pending, Ok, Result
<1>6. ASSUME NEW S \in SUBSET (1 .. Len(argv)), Grouping(S)
      PROVE  Reading(S)
  <2>1. 1 <= Len(argv) => 1 \in S
    BY <1>2, <1>6 DEF Grouping
  <2>2. \A i \in S : ~(i < 1)
    BY <1>2, <1>6
  <2> QED
    BY <2>1, <2>2 DEF Init, Reading, Pending, Error, Result
<1> QED
  BY <1>3, <1>4, <1>5, <1>6 DEF Inv

LEMMA StepInv == Inv /\ [Next]_vars => Inv'
<1> SUFFICES ASSUME Inv, [Next]_vars PROVE Inv'
  OBVIOUS
<1>0. Options \subseteq ClientOptions /\ Places /\ Phases /\ Len(argv) \in Nat
  BY DEF Options, ClientOptions, ServerOptions, Inv, Places
<1>1. ASSUME NEW o \in ClientOptions, ParseFlag(o) PROVE Inv'
  <2>1. o \in Options /\ Says(pos, o) /\ Meant(pos, o) = TRUE
    BY <1>0, <1>1, MatchesFirst DEF ParseFlag, Says, Meant
  <2> QED
    BY <1>1, <2>1, PopReads DEF ParseFlag, SetFlag
<1>2. ASSUME NEW o \in ClientOptions, ParseValue(o) PROVE Inv'
  <2>1. o \in Options /\ Says(pos, o) /\ Meant(pos, o) = Converted(o, Value(pos))
    BY <1>0, <1>2, MatchesFirst DEF ParseValue, Says, Meant
  <2> QED
    BY <1>2, <2>1, PopReads DEF ParseValue, SetValue
<1>3. ASSUME NEW o \in ClientOptions, FlagWithValue(o) \/ RefuseValue(o) PROVE Inv'
  <2>1. /\ o \in Options /\ Names_(argv[pos], o) /\ pos <= Len(argv)
        /\ stage = "parse" /\ result = Pending
    BY <1>0, <1>3, MatchesFirst DEF FlagWithValue, RefuseValue
  <2>2. ~Says(pos, o)
    BY <1>3 DEF FlagWithValue, RefuseValue, Says
  <2>3. \A q \in Options : ~Says(pos, q)
    BY <2>1, <2>2, SaysOne
  <2>4. \A S \in SUBSET (1 .. Len(argv)) : Grouping(S) => ~Legal(S)
    BY <2>1, <2>3 DEF Inv, Reading, Legal
  <2> QED
    BY <1>3, <2>1, <2>4, EndKeeps DEF FlagWithValue, RefuseValue, Refuse, Ok, Error, Result
<1>4. CASE UnrecognizedToken
  <2>1. ASSUME NEW S \in SUBSET (1 .. Len(argv)), Grouping(S), Legal(S)
        PROVE  FALSE
    <3>1. Reading(S) /\ pos \in S
      BY <1>4, <2>1 DEF Inv, Reading, UnrecognizedToken, HasTokens
    <3>2. PICK o \in Options : Says(pos, o)
      BY <2>1, <3>1 DEF Legal
    <3>3. Names_(argv[pos], o)
      BY <3>2 DEF Says
    <3>4. o \in seen
      BY <1>0, <1>4, <3>3, MatchIsName, ParsedOnce DEF UnrecognizedToken
    <3>5. PICK i \in S : i < pos /\ Names_(argv[i], o)
      BY <1>0, <3>1, <3>4 DEF Reading
    <3>6. i = pos
      BY <2>1, <3>1, <3>3, <3>5 DEF Legal, Names_
    <3> QED
      BY <1>0, <3>5, <3>6 DEF Places
  <2> QED
    BY <1>4, <2>1, EndKeeps DEF UnrecognizedToken, Refuse, InLoop, Ok, Error, Result
<1>5. CASE AllTokensParsed
  <2>1. pos = Len(argv) + 1
    BY <1>0, <1>5 DEF AllTokensParsed, HasTokens, Places
  <2>2. result' = Ok
    BY <1>5, ParsedOnce DEF AllTokensParsed
  <2> QED
    BY <1>5, <2>1, <2>2, EndKeeps DEF AllTokensParsed, InLoop, Ok, Error, Result
<1>6. args = [o \in ClientOptions |-> args[o]]
  BY DEF Inv, IsFunction
<1>7. CASE RestoreNetwork
  BY <1>6, <1>7, MainKeeps DEF RestoreNetwork, Parsed, NetworkRestored
<1>8. CASE ExitWithMessage
  BY <1>6, <1>8, MainKeeps DEF ExitWithMessage, Parsed, NetworkRestored
<1>9. CASE StartClient
  <2>1. \A o \in ClientOptions : o \notin {"logdir", "key_path"} => args'[o] = args[o]
    BY <1>6, <1>9 DEF StartClient
  <2>2. args' = [o \in ClientOptions |-> args'[o]]
    BY <1>6, <1>9 DEF StartClient
  <2> QED
    BY <1>9, <2>1, <2>2, MainKeeps DEF StartClient, Parsed, NetworkRestored
<1>10. CASE StartServer
  <2>1. \A o \in ClientOptions : o \notin {"logdir", "key_path"} => args'[o] = args[o]
    BY <1>6, <1>10 DEF StartServer
  <2>2. args' = [o \in ClientOptions |-> args'[o]]
    BY <1>6, <1>10 DEF StartServer
  <2> QED
    BY <1>10, <2>1, <2>2, MainKeeps DEF StartServer, Parsed, NetworkRestored
<1>11. CASE UNCHANGED vars
  <2> USE <1>11 DEF vars
  <2>1. Places' /\ Phases' /\ IsFunction' /\ Decided'
    BY DEF Inv, Places, Phases, IsFunction, Decided, Incomplete
  <2>2. \A S \in SUBSET (1 .. Len(argv)) : Reading(S) => Reading(S)'
    BY Unmoved, UnmovedSays, UnmovedSets DEF Reading
  <2> QED
    BY <2>1, <2>2, UnmovedSets DEF Inv
<1> QED
  BY <1>1, <1>2, <1>3, <1>4, <1>5, <1>7, <1>8, <1>9, <1>10, <1>11
     DEF Next, ParseStep, MainStep

LEMMA Invariance == Spec => []Inv
<1> QED
  BY InitInv, StepInv, PTL DEF Spec

\* The type invariant.
THEOREM TypeCorrect == Spec => []TypeOK
<1>1. Inv => TypeOK
  BY DEF Inv, TypeOK, IsFunction
<1> QED
  BY <1>1, Invariance, PTL

\* Every command line, however long, is accepted exactly if it is legal
\* (cli::parse and arguments::parse_any).
THEOREM ReadsAllLines == Spec => []AcceptedIffLegal
<1>1. Inv => AcceptedIffLegal
  <2> SUFFICES ASSUME Inv, result # Pending, NEW S \in SUBSET (1 .. Len(argv)), Grouping(S)
               PROVE  result.ok <=> Legal(S)
    BY DEF AcceptedIffLegal
  <2>1. Reading(S) /\ Places /\ Phases /\ Decided /\ Len(argv) \in Nat
    BY DEF Inv, Places
  <2>2. CASE result = Ok
    <3>1. \A i \in S : i < pos
      BY <2>1, <2>2 DEF Decided
    <3> QED
      BY <2>1, <2>2, <3>1 DEF Reading, Legal, Ok, Result
  <2>3. CASE result = Error
    BY <2>1, <2>3 DEF Reading, Error, Result
  <2> QED
    BY <2>1, <2>2, <2>3 DEF Phases
<1> QED
  BY <1>1, Invariance, PTL

\* The variables hold what the options read so far say.
THEOREM HoldsWhatIsSaid == Spec => []ArgsAsGiven
<1>1. Inv => ArgsAsGiven
  BY DEF Inv, ArgsAsGiven, Reading
<1> QED
  BY <1>1, Invariance, PTL

\* The client acts only on options that stand on its command line.
THEOREM ActsOnOptions == Spec => []ActsAsAsked
<1>1. Inv => ActsAsAsked
  <2> SUFFICES ASSUME Inv, program = "client",
                      NEW S \in SUBSET (1 .. Len(argv)), Grouping(S)
               PROVE  /\ stage \in NetworkRestored => \E i \in S : Says(i, "restore")
                      /\ stage = "started" =>
                           \A o \in {"server_ip", "port", "login"} :
                               \E i \in S : Says(i, o) /\ Meant(i, o) # Default[o]
    BY DEF ActsAsAsked
  <2>1. Reading(S) /\ Decided
    BY DEF Inv
  <2>2. ASSUME stage \in NetworkRestored PROVE \E i \in S : Says(i, "restore")
    <3>1. args["restore"] # Default["restore"]
      BY <2>1, <2>2 DEF Decided, Default
    <3> QED
      BY <2>1, <2>2, <3>1 DEF Reading, ClientOptions
  <2>3. ASSUME stage = "started", NEW o \in {"server_ip", "port", "login"}
        PROVE  \E i \in S : Says(i, o) /\ Meant(i, o) # Default[o]
    <3>1. args[o] # Default[o]
      BY <2>1, <2>3 DEF Decided, Incomplete, Default
    <3>2. o \in ClientOptions /\ o \notin {"logdir", "key_path"}
      BY <2>3 DEF ClientOptions
    <3>3. \/ \E i \in S : i < pos /\ Says(i, o) /\ args[o] = Meant(i, o)
          \/ args[o] = Default[o]
      BY ONLY <2>1, <3>2, Zenon DEF Reading
    <3> QED
      BY ONLY <3>1, <3>3
  <2> QED
    BY <2>2, <2>3
<1> QED
  BY <1>1, Invariance, PTL


-----------------------------------------------------------------------------
(* Induction over the numbers, with a set in the place of a predicate.      *)

\* There is no endless descent in the numbers.
LEMMA NatWF == IsWellFoundedOn({ss \in Nat \X Nat : ss[1] < ss[2]}, Nat)
  BY NatLessThanWellFounded DEF OpToRel

\* A set of numbers has a least one.
LEMMA SetMin ==
    ASSUME NEW T, T \subseteq Nat, T # {}
    PROVE  \E x \in T : \A y \in T : x <= y
<1> DEFINE R == {ss \in Nat \X Nat : ss[1] < ss[2]}
<1>1. IsWellFoundedOn(R, Nat)
  BY NatWF
<1>2. \E x \in T : \A y \in T : ~ (<<y, x>> \in R)
  <2> HIDE DEF R
  <2> QED BY <1>1, WFMin
<1>3. PICK x \in T : \A y \in T : ~ (<<y, x>> \in R)
  BY <1>2
<1>4. ASSUME NEW y \in T PROVE x <= y
  <2>1. x \in Nat /\ y \in Nat
    OBVIOUS
  <2>2. <<y, x>> \in Nat \X Nat /\ <<y, x>>[1] = y /\ <<y, x>>[2] = x /\ <<y, x>> \notin R
    BY <1>3, <2>1
  <2>3. ~(y < x)
    <3> DEFINE p == <<y, x>>
    <3> HIDE DEF p
    <3>1. p \in Nat \X Nat /\ p[1] = y /\ p[2] = x /\ p \notin R
      BY <2>2 DEF p
    <3> QED BY <3>1
  <2> QED BY <2>1, <2>3
<1> QED BY <1>4

\* A set that has 0 and with a number the next one has all.
LEMMA SetInduction ==
    ASSUME NEW S, 0 \in S, \A n \in Nat : n \in S => n + 1 \in S
    PROVE  Nat \subseteq S
<1> SUFFICES ASSUME Nat \ S # {} PROVE FALSE
  OBVIOUS
<1>1. PICK x \in Nat \ S : \A y \in Nat \ S : x <= y
  BY SetMin
<1>2. x # 0 /\ x - 1 \in Nat
  OBVIOUS
<1>3. x - 1 \in S
  BY <1>1, <1>2
<1> QED BY <1>2, <1>3

-----------------------------------------------------------------------------
(* The logins: std::sort and std::ranges::binary_search.                    *)

\* The places of s up to n can be put in order.
InOrderUpTo(s, p, n) ==
    /\ p \in [1 .. n -> 1 .. n]
    /\ \A v \in 1 .. n : \E k \in 1 .. n : p[k] = v
    /\ \A i, j \in 1 .. n : i < j => s[p[i]] <= s[p[j]]

\* One place more: it comes before the first one whose element is larger.
LEMMA OnePlaceMore ==
    ASSUME NEW s \in Seq(Nat), NEW n \in Nat, n + 1 <= Len(s), NEW q, InOrderUpTo(s, q, n)
    PROVE  \E p : InOrderUpTo(s, p, n + 1)
<1> DEFINE e == s[n + 1]
           T == {k \in 1 .. n + 1 : k <= n => s[q[k]] > e}
<1>1. /\ q \in [1 .. n -> 1 .. n]
      /\ \A v \in 1 .. n : \E k \in 1 .. n : q[k] = v
      /\ \A i, j \in 1 .. n : i < j => s[q[i]] <= s[q[j]]
  BY DEF InOrderUpTo
<1>2. e \in Nat /\ \A k \in 1 .. n : s[q[k]] \in Nat
  <2>1. n + 1 \in 1 .. Len(s) /\ \A k \in 1 .. n : q[k] \in 1 .. Len(s)
    BY <1>1
  <2> QED BY <2>1
<1>3. PICK i \in T : \A k \in T : i <= k
  <2>1. T \subseteq Nat /\ n + 1 \in T
    OBVIOUS
  <2> HIDE DEF T
  <2> QED BY <2>1, SetMin
<1>4. i \in 1 .. n + 1 /\ (i <= n => s[q[i]] > e)
  OBVIOUS
<1>5. \A k \in 1 .. n : k < i => s[q[k]] <= e
  <2> SUFFICES ASSUME NEW k \in 1 .. n, k < i PROVE s[q[k]] <= e
    OBVIOUS
  <2>1. k \notin T
    BY <1>3, <1>4
  <2> QED BY <1>2, <2>1
<1>6. \A k \in 1 .. n : k >= i => s[q[k]] >= e
  <2> SUFFICES ASSUME NEW k \in 1 .. n, k >= i PROVE s[q[k]] >= e
    OBVIOUS
  <2>1. i \in 1 .. n /\ (i = k \/ i < k)
    BY <1>4
  <2>2. s[q[i]] <= s[q[k]]
    <3>1. s[q[k]] \in Nat /\ (i = k => s[q[i]] = s[q[k]])
      BY <1>2
    <3>2. i < k => s[q[i]] <= s[q[k]]
      BY <1>1, <2>1
    <3> QED BY <2>1, <3>1, <3>2
  <2>3. s[q[i]] \in Nat /\ s[q[k]] \in Nat /\ e \in Nat /\ s[q[i]] > e
    BY <1>2, <1>4, <2>1
  <2> HIDE DEF e, T
  <2> QED BY <2>2, <2>3
<1> HIDE DEF e, T
<1> DEFINE p == [k \in 1 .. n + 1 |-> IF k < i THEN q[k] ELSE IF k = i THEN n + 1 ELSE q[k - 1]]
<1>7. ASSUME NEW k \in 1 .. n + 1
      PROVE  \/ k < i /\ k \in 1 .. n /\ p[k] = q[k]
             \/ k = i /\ p[k] = n + 1
             \/ k > i /\ k - 1 \in 1 .. n /\ k - 1 >= i /\ p[k] = q[k - 1]
  <2>1. CASE k < i
    BY <1>4, <2>1
  <2>2. CASE k = i
    BY <1>4, <2>2
  <2>3. CASE k > i
    BY <1>4, <2>3
  <2> QED BY <1>4, <2>1, <2>2, <2>3
<1>8. p \in [1 .. n + 1 -> 1 .. n + 1]
  <2>1. ASSUME NEW k \in 1 .. n + 1 PROVE p[k] \in 1 .. n + 1
    <3> HIDE DEF p
    <3>1. \A m \in 1 .. n : q[m] \in 1 .. n + 1
      BY <1>1
    <3>2. n + 1 \in 1 .. n + 1
      OBVIOUS
    <3> QED BY <1>7, <3>1, <3>2
  <2>2. p = [k \in 1 .. n + 1 |-> p[k]]
    OBVIOUS
  <2> HIDE DEF p
  <2> QED BY <2>1, <2>2
<1> HIDE DEF p
<1>9. ASSUME NEW v \in 1 .. n + 1 PROVE \E k \in 1 .. n + 1 : p[k] = v
  <2>1. CASE v = n + 1
    <3>1. i \in 1 .. n + 1 /\ ~(i < i) /\ ~(i > i)
      BY <1>4
    <3>2. p[i] = n + 1
      BY <1>7, <3>1
    <3> QED BY <2>1, <3>1, <3>2
  <2>2. CASE v # n + 1
    <3>1. v \in 1 .. n
      BY <2>2
    <3>2. PICK k \in 1 .. n : q[k] = v
      BY <1>1, <3>1
    <3>3. CASE k < i
      <4>1. k \in 1 .. n + 1 /\ ~(k = i) /\ ~(k > i)
        BY <1>4, <3>3
      <4>2. p[k] = q[k]
        BY <1>7, <4>1
      <4> QED BY <3>2, <4>1, <4>2
    <3>4. CASE k >= i
      <4>1. k + 1 \in 1 .. n + 1 /\ ~(k + 1 = i) /\ ~(k + 1 < i) /\ k + 1 - 1 = k
        BY <1>4, <3>4
      <4>2. p[k + 1] = q[k]
        BY <1>7, <4>1
      <4> QED BY <3>2, <4>1, <4>2
    <3> QED BY <1>4, <3>3, <3>4
  <2> QED BY <2>1, <2>2
<1>10. ASSUME NEW a \in 1 .. n + 1, NEW b \in 1 .. n + 1, a < b
       PROVE  s[p[a]] <= s[p[b]]
  <2>1. CASE b < i
    <3>1. a < i /\ ~(a = i) /\ ~(a > i) /\ ~(b = i) /\ ~(b > i)
      BY <1>4, <1>10, <2>1
    <3>2. a \in 1 .. n /\ b \in 1 .. n /\ p[a] = q[a] /\ p[b] = q[b]
      BY <1>7, <3>1
    <3> QED BY <1>1, <1>10, <3>2
  <2>2. CASE b = i
    <3>1. a < i /\ ~(a = i) /\ ~(a > i) /\ ~(b < i) /\ ~(b > i)
      BY <1>4, <1>10, <2>2
    <3>2. a \in 1 .. n /\ p[a] = q[a] /\ p[b] = n + 1
      BY <1>7, <3>1
    <3>3. s[q[a]] <= e
      BY <1>5, <3>1, <3>2
    <3> QED BY <3>2, <3>3 DEF e
  <2>3. CASE b > i
    <3>1. ~(b = i) /\ ~(b < i)
      BY <1>4, <2>3
    <3>2. b - 1 \in 1 .. n /\ b - 1 >= i /\ p[b] = q[b - 1]
      BY <1>7, <3>1
    <3>3. CASE a < i
      <4>1. ~(a = i) /\ ~(a > i)
        BY <1>4, <3>3
      <4>2. a \in 1 .. n /\ p[a] = q[a] /\ a < b - 1
        <5>1. a \in 1 .. n /\ p[a] = q[a]
          BY <1>7, <4>1
        <5>2. a < b - 1
          BY <1>4, <3>2, <3>3
        <5> QED BY <5>1, <5>2
      <4> QED BY <1>1, <3>2, <4>2
    <3>4. CASE a = i
      <4>1. ~(a < i) /\ ~(a > i)
        BY <1>4, <3>4
      <4>2. p[a] = n + 1
        BY <1>7, <4>1
      <4>3. s[q[b - 1]] >= e /\ s[q[b - 1]] \in Nat
        BY <1>2, <1>6, <3>2
      <4>4. s[p[a]] = e
        BY <4>2 DEF e
      <4> QED BY <1>2, <3>2, <4>3, <4>4
    <3>5. CASE a > i
      <4>1. ~(a < i) /\ ~(a = i)
        BY <1>4, <3>5
      <4>2. a - 1 \in 1 .. n /\ p[a] = q[a - 1]
        BY <1>7, <4>1
      <4>3. a - 1 < b - 1
        BY <1>10
      <4> QED BY <1>1, <3>2, <4>2, <4>3
    <3> QED BY <1>4, <3>3, <3>4, <3>5
  <2> QED BY <1>4, <2>1, <2>2, <2>3
<1>11. InOrderUpTo(s, p, n + 1)
  BY <1>8, <1>9, <1>10 DEF InOrderUpTo
<1> QED BY <1>11

\* std::sort puts the same logins in order.
LEMMA SortedLoginsSorts ==
    ASSUME NEW s \in Seq(Nat)
    PROVE  LET r == SortedLogins(s)
           IN  /\ r \in Seq(Nat) /\ Len(r) = Len(s)
               /\ \A i, j \in 1 .. Len(s) : i < j => r[i] <= r[j]
               /\ {r[i] : i \in 1 .. Len(s)} = {s[i] : i \in 1 .. Len(s)}
<1> DEFINE N == 1 .. Len(s)
           S == {n \in Nat : n <= Len(s) => \E p : InOrderUpTo(s, p, n)}
           Sorts(p) == \A i, j \in N : i < j => s[p[i]] <= s[p[j]]
<1>1. 0 \in S
  <2>1. InOrderUpTo(s, [k \in 1 .. 0 |-> k], 0)
    BY DEF InOrderUpTo
  <2> QED BY <2>1
<1>2. ASSUME NEW n \in Nat, n \in S PROVE n + 1 \in S
  <2> SUFFICES ASSUME n + 1 <= Len(s) PROVE \E p : InOrderUpTo(s, p, n + 1)
    OBVIOUS
  <2>1. n <= Len(s)
    OBVIOUS
  <2>2. PICK q : InOrderUpTo(s, q, n)
    BY <1>2, <2>1
  <2> QED BY <2>2, OnePlaceMore
<1>3. Nat \subseteq S
  <2> HIDE DEF S
  <2> QED BY <1>1, <1>2, SetInduction
<1>4. PICK p : InOrderUpTo(s, p, Len(s))
  <2>1. Len(s) \in Nat /\ Len(s) <= Len(s)
    OBVIOUS
  <2> QED BY <1>3, <2>1
<1>5. p \in Surjection(N, N) /\ Sorts(p)
  BY <1>4 DEF InOrderUpTo, Surjection
<1> DEFINE order == CHOOSE o \in Surjection(N, N) : Sorts(o)
<1>6. order \in Surjection(N, N) /\ Sorts(order)
  <2> HIDE DEF Sorts, N
  <2> QED BY <1>5
<1>7. DOMAIN s = N /\ Len(s) \in Nat
  OBVIOUS
<1> DEFINE r == [i \in N |-> s[order[i]]]
<1>8. SortedLogins(s) = r
  BY <1>7 DEF SortedLogins
<1> HIDE DEF order
<1>9. order \in [N -> N] /\ \A v \in N : \E k \in N : order[k] = v
  BY <1>6 DEF Surjection
<1>10. r \in Seq(Nat) /\ Len(r) = Len(s) /\ \A i \in N : r[i] = s[order[i]]
  <2>1. \A i \in N : s[order[i]] \in Nat
    <3>1. \A k \in N : s[k] \in Nat
      OBVIOUS
    <3>2. \A i \in N : order[i] \in N
      BY <1>9
    <3> HIDE DEF N
    <3> QED BY <3>1, <3>2
  <2>2. r \in [1 .. Len(s) -> Nat]
    BY <2>1
  <2>3. \A i \in N : r[i] = s[order[i]]
    OBVIOUS
  <2> HIDE DEF r
  <2> QED BY <1>7, <2>2, <2>3
<1> HIDE DEF r
<1>11. \A i, j \in N : i < j => r[i] <= r[j]
  BY <1>6, <1>10
<1>12. {r[i] : i \in N} = {s[i] : i \in N}
  <2>1. \A i \in N : order[i] \in N /\ r[i] = s[order[i]]
    BY <1>9, <1>10
  <2>2. ASSUME NEW v \in N PROVE \E k \in N : r[k] = s[v]
    <3>1. PICK k \in N : order[k] = v
      BY <1>9
    <3>2. r[k] = s[order[k]]
      BY <1>10
    <3> QED BY <3>1, <3>2
  <2>3. {r[i] : i \in N} \subseteq {s[i] : i \in N}
    <3> HIDE DEF N
    <3> QED BY <2>1
  <2>4. {s[i] : i \in N} \subseteq {r[i] : i \in N}
    <3> HIDE DEF N
    <3> QED BY <2>2
  <2> QED BY <2>3, <2>4
<1> QED BY <1>8, <1>10, <1>11, <1>12

\* v is the place of x among the n elements of s from first on.
IsBound(s, x, first, n, v) ==
    /\ v \in first .. first + n
    /\ \A i \in first .. v - 1 : s[i] < x
    /\ \A i \in v .. first + n - 1 : s[i] >= x

SomeBound(s, x, first, n) == CHOOSE v \in first .. first + n : IsBound(s, x, first, n, v)

SearchRanges(s) ==
    {fn \in (1 .. Len(s) + 1) \X (0 .. Len(s)) : fn[1] + fn[2] <= Len(s) + 1}

\* A turn of the loop of the search, which goes on with from.
Turn(s, x, range, from) ==
    LET first == range[1]
        half == range[2] \div 2
    IN IF range[2] = 0 THEN first
       ELSE IF s[first + half] < x THEN from[<<first + half + 1, range[2] - half - 1>>]
       ELSE from[<<first, half>>]

InOrderSeq(s) == s \in Seq(Nat) /\ \A i, j \in 1 .. Len(s) : i < j => s[i] <= s[j]

\* There is a place for x, and only one.
LEMMA BoundIsUnique ==
    ASSUME NEW s, InOrderSeq(s), NEW x \in Nat,
           NEW first \in Nat \ {0}, NEW n \in Nat, first + n <= Len(s) + 1,
           NEW v, IsBound(s, x, first, n, v), NEW w, IsBound(s, x, first, n, w)
    PROVE  v = w
<1>1. v \in first .. first + n /\ w \in first .. first + n /\ Len(s) \in Nat
  BY DEF IsBound, InOrderSeq
<1>2. \A i \in first .. first + n - 1 : s[i] \in Nat
  <2>1. \A i \in first .. first + n - 1 : i \in 1 .. Len(s)
    BY <1>1
  <2> QED BY <2>1 DEF InOrderSeq
<1>3. ~(v < w)
  <2> SUFFICES ASSUME v < w PROVE FALSE
    OBVIOUS
  <2>1. v \in first .. w - 1 /\ v \in v .. first + n - 1 /\ v \in first .. first + n - 1
    BY <1>1
  <2>2. s[v] < x /\ s[v] >= x
    BY <2>1 DEF IsBound
  <2> QED BY <1>2, <2>1, <2>2
<1>4. ~(w < v)
  <2> SUFFICES ASSUME w < v PROVE FALSE
    OBVIOUS
  <2>1. w \in first .. v - 1 /\ w \in w .. first + n - 1 /\ w \in first .. first + n - 1
    BY <1>1
  <2>2. s[w] < x /\ s[w] >= x
    BY <2>1 DEF IsBound
  <2> QED BY <1>2, <2>1, <2>2
<1> QED BY <1>1, <1>3, <1>4

LEMMA BoundExists ==
    ASSUME NEW s, InOrderSeq(s), NEW x \in Nat,
           NEW first \in Nat \ {0}, NEW n \in Nat, first + n <= Len(s) + 1
    PROVE  IsBound(s, x, first, n, SomeBound(s, x, first, n))
<1> DEFINE T == {v \in first .. first + n : v < first + n => s[v] >= x}
<1>1. T \subseteq Nat /\ first + n \in T /\ Len(s) \in Nat
  BY DEF InOrderSeq
<1>2. PICK v \in T : \A w \in T : v <= w
  <2> HIDE DEF T
  <2> QED BY <1>1, SetMin
<1>3. v \in first .. first + n /\ (v < first + n => s[v] >= x)
  OBVIOUS
<1>4. \A i \in first .. first + n - 1 : i \in 1 .. Len(s) /\ s[i] \in Nat
  <2>1. \A i \in first .. first + n - 1 : i \in 1 .. Len(s)
    BY <1>1
  <2> QED BY <2>1 DEF InOrderSeq
<1>5. ASSUME NEW i \in first .. v - 1 PROVE s[i] < x
  <2>1. i \notin T /\ i \in first .. first + n - 1
    BY <1>2, <1>3
  <2>2. ~(s[i] >= x)
    BY <2>1
  <2> QED BY <1>4, <2>1, <2>2
<1>6. ASSUME NEW i \in v .. first + n - 1 PROVE s[i] >= x
  <2>1. v \in first .. first + n - 1 /\ i \in first .. first + n - 1 /\ (i = v \/ v < i)
    BY <1>3
  <2>2. v < first + n
    BY <1>3, <2>1
  <2>3. s[v] >= x
    BY <1>3, <2>2
  <2>4. i = v \/ s[v] <= s[i]
    BY <1>4, <2>1 DEF InOrderSeq
  <2> QED BY <1>4, <2>1, <2>3, <2>4
<1>7. IsBound(s, x, first, n, v)
  BY <1>3, <1>5, <1>6 DEF IsBound
<1> QED BY <1>3, <1>7, Zenon DEF SomeBound

\* A turn finds the place of x if the turns on the smaller ranges do.
LEMMA TurnFinds ==
    ASSUME NEW s, InOrderSeq(s), NEW x \in Nat, NEW range \in SearchRanges(s), NEW from,
           \A r \in SearchRanges(s) :
              r[2] < range[2] => IsBound(s, x, r[1], r[2], from[r])
    PROVE  IsBound(s, x, range[1], range[2], Turn(s, x, range, from))
<1> DEFINE first == range[1]
           n == range[2]
           half == n \div 2
<1>0. /\ first \in 1 .. Len(s) + 1 /\ n \in 0 .. Len(s) /\ first + n <= Len(s) + 1
      /\ Len(s) \in Nat
  BY DEF SearchRanges, InOrderSeq
<1>1. half \in Nat /\ (n > 0 => half < n)
  <2>1. \A k \in Nat : k \div 2 \in Nat /\ (k > 0 => k \div 2 < k)
    BY SMT
  <2> QED BY <1>0, <2>1
<1>2. Turn(s, x, range, from) =
        IF n = 0 THEN first
        ELSE IF s[first + half] < x THEN from[<<first + half + 1, n - half - 1>>]
        ELSE from[<<first, half>>]
  BY DEF Turn
<1> HIDE DEF half
<1>3. \A i \in first .. first + n - 1 : i \in 1 .. Len(s) /\ s[i] \in Nat
  <2>1. \A i \in first .. first + n - 1 : i \in 1 .. Len(s)
    BY <1>0
  <2> QED BY <2>1 DEF InOrderSeq
<1> HIDE DEF first, n
<1>4. CASE n = 0
  <2>1. Turn(s, x, range, from) = first
    BY <1>2, <1>4
  <2> QED BY <1>0, <1>4, <2>1 DEF IsBound, first, n
<1>5. CASE n > 0 /\ s[first + half] < x
  <2> DEFINE r == <<first + half + 1, n - half - 1>>
             v == from[r]
  <2>1. r \in SearchRanges(s) /\ r[1] = first + half + 1 /\ r[2] = n - half - 1 /\ r[2] < n
    BY <1>0, <1>1, <1>5 DEF SearchRanges
  <2> HIDE DEF r
  <2>2. IsBound(s, x, first + half + 1, n - half - 1, v)
    BY <2>1 DEF n
  <2>3. /\ v \in first + half + 1 .. first + n
        /\ \A i \in first + half + 1 .. v - 1 : s[i] < x
        /\ \A i \in v .. first + n - 1 : s[i] >= x
    BY <1>0, <1>1, <2>2 DEF IsBound
  <2>4. Turn(s, x, range, from) = v
    BY <1>0, <1>2, <1>5 DEF r
  <2> HIDE DEF v
  <2>5. ASSUME NEW i \in first .. v - 1 PROVE s[i] < x
    <3>1. CASE i > first + half
      BY <1>0, <1>1, <2>3, <3>1
    <3>2. CASE i <= first + half
      <4>1. i \in first .. first + n - 1 /\ first + half \in first .. first + n - 1
            /\ (i = first + half \/ i < first + half)
        BY <1>0, <1>1, <1>5, <2>3, <3>2
      <4>2. i = first + half \/ s[i] <= s[first + half]
        BY <1>3, <4>1 DEF InOrderSeq
      <4> QED BY <1>3, <1>5, <4>1, <4>2
    <3> QED BY <1>0, <1>1, <2>3, <3>1, <3>2
  <2>6. v \in first .. first + n
    BY <1>0, <1>1, <2>3
  <2>7. IsBound(s, x, first, n, v)
    BY <2>3, <2>5, <2>6 DEF IsBound
  <2> QED BY <2>4, <2>7 DEF first, n
<1>6. CASE n > 0 /\ ~(s[first + half] < x)
  <2> DEFINE r == <<first, half>>
             v == from[r]
  <2>1. r \in SearchRanges(s) /\ r[1] = first /\ r[2] = half /\ r[2] < n
    BY <1>0, <1>1, <1>6 DEF SearchRanges
  <2> HIDE DEF r
  <2>2. IsBound(s, x, first, half, v)
    BY <2>1 DEF n
  <2>3. /\ v \in first .. first + half
        /\ \A i \in first .. v - 1 : s[i] < x
        /\ \A i \in v .. first + half - 1 : s[i] >= x
    BY <2>2 DEF IsBound
  <2>4. Turn(s, x, range, from) = v
    BY <1>0, <1>2, <1>6 DEF r
  <2> HIDE DEF v
  <2>5. ASSUME NEW i \in v .. first + n - 1 PROVE s[i] >= x
    <3>1. CASE i < first + half
      BY <1>0, <1>1, <2>3, <3>1
    <3>2. CASE i >= first + half
      <4>1. i \in first .. first + n - 1 /\ first + half \in first .. first + n - 1
            /\ (i = first + half \/ first + half < i)
        BY <1>0, <1>1, <1>6, <2>3, <3>2
      <4>2. i = first + half \/ s[first + half] <= s[i]
        BY <1>3, <4>1 DEF InOrderSeq
      <4>3. s[first + half] >= x
        BY <1>3, <1>6, <4>1
      <4> QED BY <1>3, <4>1, <4>2, <4>3
    <3> QED BY <1>0, <1>1, <2>3, <3>1, <3>2
  <2>6. v \in first .. first + n
    BY <1>0, <1>1, <1>6, <2>3
  <2>7. IsBound(s, x, first, n, v)
    BY <2>3, <2>5, <2>6 DEF IsBound
  <2> QED BY <2>4, <2>7 DEF first, n
<1> QED BY <1>0, <1>4, <1>5, <1>6

\* All turns do, by induction over the length of the range.
LEMMA TurnsFind ==
    ASSUME NEW s, InOrderSeq(s), NEW x \in Nat, NEW from,
           \A r \in SearchRanges(s) : from[r] = Turn(s, x, r, from)
    PROVE  \A r \in SearchRanges(s) : IsBound(s, x, r[1], r[2], from[r])
<1> DEFINE S == {n \in Nat : \A r \in SearchRanges(s) :
                               r[2] <= n => IsBound(s, x, r[1], r[2], from[r])}
<1>1. ASSUME NEW n \in Nat, n = 0 \/ n - 1 \in S PROVE n \in S
  <2> SUFFICES ASSUME NEW r \in SearchRanges(s), r[2] <= n
               PROVE  IsBound(s, x, r[1], r[2], from[r])
    OBVIOUS
  <2>1. ASSUME NEW q \in SearchRanges(s), q[2] < r[2]
        PROVE  IsBound(s, x, q[1], q[2], from[q])
    <3>1. q[2] \in Nat /\ r[2] \in Nat
      BY DEF SearchRanges
    <3>2. n # 0 /\ q[2] <= n - 1
      BY <2>1, <3>1
    <3> QED BY <1>1, <3>2
  <2>2. IsBound(s, x, r[1], r[2], Turn(s, x, r, from))
    BY <2>1, TurnFinds
  <2> QED BY <2>2
<1>2. Nat \subseteq S
  <2>1. 0 \in S /\ \A n \in Nat : n \in S => n + 1 \in S
    <3>1. 0 \in S
      BY <1>1
    <3>2. ASSUME NEW n \in Nat, n \in S PROVE n + 1 \in S
      <4>1. n + 1 \in Nat /\ n + 1 - 1 = n
        OBVIOUS
      <4> HIDE DEF S
      <4> QED BY <1>1, <3>2, <4>1
    <3> QED BY <3>1, <3>2
  <2> HIDE DEF S
  <2> QED BY <2>1, SetInduction
<1>3. ASSUME NEW r \in SearchRanges(s) PROVE IsBound(s, x, r[1], r[2], from[r])
  <2>1. r[2] \in Nat /\ r[2] <= r[2]
    BY DEF SearchRanges
  <2> QED BY <1>2, <2>1
<1> QED BY <1>3

\* LowerBound is the place of x in all of s.
LEMMA LowerBoundFinds ==
    ASSUME NEW s, InOrderSeq(s), NEW x \in Nat
    PROVE  IsBound(s, x, 1, Len(s), LowerBound(s, x))
<1> DEFINE Open(f) == [r \in SearchRanges(s) |-> Turn(s, x, r, f)]
           F == [r \in SearchRanges(s) |-> SomeBound(s, x, r[1], r[2])]
<1>1. \A r \in SearchRanges(s) : /\ r[1] \in Nat \ {0} /\ r[2] \in Nat
                                 /\ r[1] + r[2] <= Len(s) + 1
  BY DEF SearchRanges
<1>2. \A r \in SearchRanges(s) : F[r] = Turn(s, x, r, F)
  <2>1. \A r \in SearchRanges(s) : IsBound(s, x, r[1], r[2], F[r])
    <3> SUFFICES ASSUME NEW r \in SearchRanges(s)
                 PROVE  IsBound(s, x, r[1], r[2], SomeBound(s, x, r[1], r[2]))
      OBVIOUS
    <3> QED BY <1>1, BoundExists
  <2> HIDE DEF F
  <2>2. ASSUME NEW r \in SearchRanges(s) PROVE F[r] = Turn(s, x, r, F)
    <3>1. IsBound(s, x, r[1], r[2], Turn(s, x, r, F))
      BY <2>1, TurnFinds
    <3> QED BY <1>1, <2>1, <3>1, BoundIsUnique
  <2> QED BY <2>2
<1>3. F = Open(F)
  BY <1>2, Zenon
<1> DEFINE f == CHOOSE h : h = Open(h)
<1>4. f = Open(f)
  <2> HIDE DEF Open, F
  <2> QED BY <1>3, Zenon
<1>5. LowerBound(s, x) = f[<<1, Len(s)>>]
  BY DEF LowerBound, Turn, SearchRanges
<1> HIDE DEF f, F
<1>6. \A r \in SearchRanges(s) : f[r] = Turn(s, x, r, f)
  BY <1>4, Zenon
<1>7. <<1, Len(s)>> \in SearchRanges(s)
  BY DEF SearchRanges, InOrderSeq
<1>8. \A r \in SearchRanges(s) : IsBound(s, x, r[1], r[2], f[r])
  BY <1>6, TurnsFind
<1>9. IsBound(s, x, 1, Len(s), f[<<1, Len(s)>>])
  <2> DEFINE r == <<1, Len(s)>>
  <2>1. r \in SearchRanges(s) /\ r[1] = 1 /\ r[2] = Len(s)
    BY <1>7
  <2> HIDE DEF r
  <2>2. IsBound(s, x, 1, Len(s), f[r])
    BY <1>8, <2>1
  <2> QED BY <2>2 DEF r
<1> QED BY <1>5, <1>9

\* Whatever the file lists, in any order and however often, the search among the
\* sorted logins finds them and no other.
LEMMA SearchInSorted ==
    ASSUME NEW s \in Seq(Nat), NEW x \in Nat
    PROVE  BinarySearch(SortedLogins(s), x) <=> \E i \in DOMAIN s : s[i] = x
<1> DEFINE r == SortedLogins(s)
           v == LowerBound(r, x)
<1>1. /\ r \in Seq(Nat) /\ Len(r) = Len(s)
      /\ \A i, j \in 1 .. Len(s) : i < j => r[i] <= r[j]
      /\ {r[i] : i \in 1 .. Len(s)} = {s[i] : i \in 1 .. Len(s)}
  BY SortedLoginsSorts
<1>2. DOMAIN s = 1 .. Len(s) /\ Len(s) \in Nat
  OBVIOUS
<1>3. (\E i \in DOMAIN s : s[i] = x) <=> \E i \in 1 .. Len(s) : r[i] = x
  BY <1>1, <1>2
<1> HIDE DEF r
<1>4. IsBound(r, x, 1, Len(r), v)
  BY <1>1, LowerBoundFinds DEF InOrderSeq
<1>5. /\ v \in 1 .. 1 + Len(s)
      /\ \A i \in 1 .. v - 1 : r[i] < x
      /\ \A i \in v .. 1 + Len(s) - 1 : r[i] >= x
  BY <1>1, <1>4 DEF IsBound
<1>6. BinarySearch(r, x) <=> v <= Len(r) /\ r[v] = x
  BY DEF BinarySearch
<1> HIDE DEF v
<1>7. \A i \in 1 .. Len(s) : r[i] \in Nat
  BY <1>1
<1>8. ASSUME NEW i \in 1 .. Len(s), r[i] = x PROVE v <= Len(s) /\ r[v] = x
  <2>1. ~(i \in 1 .. v - 1)
    BY <1>5, <1>7, <1>8
  <2>2. v <= i /\ v \in 1 .. Len(s) /\ v \in v .. 1 + Len(s) - 1 /\ (v = i \/ v < i)
    BY <1>2, <1>5, <2>1
  <2>3. r[v] >= x /\ r[v] \in Nat /\ (v = i \/ r[v] <= r[i])
    BY <1>1, <1>5, <1>7, <2>2
  <2> QED BY <1>2, <1>8, <2>2, <2>3
<1>9. ASSUME v <= Len(s), r[v] = x PROVE \E i \in 1 .. Len(s) : r[i] = x
  <2>1. v \in 1 .. Len(s)
    BY <1>2, <1>5, <1>9
  <2> QED BY <1>9, <2>1
<1>10. BinarySearch(r, x) <=> \E i \in 1 .. Len(s) : r[i] = x
  BY <1>1, <1>6, <1>8, <1>9
<1> QED BY <1>3, <1>10 DEF r

-----------------------------------------------------------------------------
(* The start.                                                               *)

\* The threads have their own ids or none, and main has its own.
IdsOwn ==
    /\ ids \in [Threads -> Threads \union {NoThread}]
    /\ \A t \in Threads : ids[t] \in {t, NoThread}
    /\ ids[Main] = Main

\* Once read, the snapshot has the port of the file, and its logins in order.
SnapshotRead ==
    mpc # "read" =>
        /\ conf[1] \in Configs
        /\ snapshot # <<>> /\ snapshot[1].port = conf[1].port % 65536
        /\ snapshot[1].logins = SortedLogins(conf[1].logins)

ContextsStarted ==
    /\ registered \in Seq(Contexts)
    /\ ctx \in [Contexts -> {"off", "launched", "checking", "loop"}]
    /\ ctx["MainCtx"] # "checking"
    /\ ctx["MainCtx"] = "loop" => tun

\* What the coroutine acceptConnection knows when it goes on.
Answered ==
    /\ accepting # "no" => mpc = "wait"
    /\ answers # {} => mpc = "wait"
    /\ accepting \in {"answered", "listening"} =>
          settings = snapshot /\ ctx["SettingsCtx"] = "loop"

Listening ==
    acceptor # <<>> =>
        /\ ctx["MainCtx"] = "loop" /\ ctx["SettingsCtx"] = "loop" /\ mpc = "wait"
        /\ acceptor[1].by = "MainCtx" /\ acceptor[1].port = conf[1].port % 65536

StartInv ==
    /\ IdsOwn
    /\ SnapshotRead
    /\ ContextsStarted
    /\ Answered
    /\ Listening
    /\ NoAssertFails
    /\ LoginsAsConfigured

LEMMA StartInitInv == StartInit => StartInv
<1> SUFFICES ASSUME StartInit PROVE StartInv
  OBVIOUS
<1>1. IdsOwn
  BY DEF StartInit, IdsOwn, Threads, NoThread, Main
<1>2. SnapshotRead /\ Answered /\ Listening /\ NoAssertFails
  BY DEF StartInit, SnapshotRead, Answered, Listening, NoAssertFails
<1>3. ContextsStarted
  BY DEF StartInit, ContextsStarted, Contexts
<1>4. LoginsAsConfigured
  BY DEF StartInit, LoginsAsConfigured
<1> QED
  BY <1>1, <1>2, <1>3, <1>4 DEF StartInv

\* The contexts register in the order of the enumeration.
LEMMA InOrder ==
    ASSUME NEW n \in {0, 1, 2}
    PROVE  CallOrder[n + 1] \in Contexts /\ Index[CallOrder[n + 1]] = n
<1>1. CASE n = 0
  BY <1>1 DEF CallOrder, Index, Contexts
<1>2. CASE n = 1
  BY <1>2 DEF CallOrder, Index, Contexts
<1>3. CASE n = 2
  BY <1>3 DEF CallOrder, Index, Contexts
<1> QED
  BY <1>1, <1>2, <1>3

LEMMA StartStepInv == StartInv /\ [StartNext]_startVars => StartInv'
<1> SUFFICES ASSUME StartInv, [StartNext]_startVars PROVE StartInv'
  OBVIOUS
<1>0. /\ IdsOwn /\ SnapshotRead /\ ContextsStarted /\ Answered /\ Listening /\ NoAssertFails
      /\ LoginsAsConfigured
  BY DEF StartInv
\* The answers stay right while nothing is read or answered.
<1>a. UNCHANGED <<answers, conf>> => LoginsAsConfigured'
  BY <1>0 DEF LoginsAsConfigured
<1> USE DEF given, mainVars, threadVars, acceptVars
<1>1. CASE ReadSettings
  <2>1. mpc = "read" /\ accepting = "no" /\ acceptor = <<>> /\ answers = {}
    BY <1>0, <1>1 DEF ReadSettings, Answered, Listening
  <2>2. SnapshotRead'
    <3>1. CASE mpc' = "read"
      BY <3>1 DEF SnapshotRead
    <3>2. CASE mpc' # "read"
      <4>1. PICK c \in Configs :
              /\ snapshot' = <<[port |-> c.port % 65536,
                                logins |-> SortedLogins(c.logins)]>>
              /\ conf' = <<c>> /\ c \in Configs
        BY <1>1, <2>1, <3>2 DEF ReadSettings
      <4> QED
        BY <4>1 DEF SnapshotRead
    <3> QED
      BY <3>1, <3>2
  <2>3. IdsOwn' /\ ContextsStarted'
    BY <1>0, <1>1 DEF ReadSettings, IdsOwn, ContextsStarted
  <2>4. Answered' /\ Listening'
    BY <1>1, <2>1 DEF ReadSettings, Answered, Listening
  <2>5. NoAssertFails'
    BY <1>0, <1>1 DEF ReadSettings, NoAssertFails
  <2>6. LoginsAsConfigured'
    BY <1>1, <2>1 DEF ReadSettings, LoginsAsConfigured
  <2> QED
    BY <2>2, <2>3, <2>4, <2>5, <2>6 DEF StartInv
<1>1a. CASE RegisterContextsFails
  BY <1>0, <1>a, <1>1a DEF RegisterContextsFails, StartInv, IdsOwn, SnapshotRead, ContextsStarted,
     Answered, Listening, NoAssertFails
<1>2. ASSUME NEW c \in Contexts, OnAsyncStart(c) PROVE StartInv'
  <2>1. Len(registered) \in {0, 1, 2}
    <3>1. Len(registered) \in Nat
      BY <1>0 DEF ContextsStarted
    <3>2. Len(CallOrder) = 3
      BY DEF CallOrder
    <3>3. Len(registered) < Len(CallOrder)
      BY <1>2 DEF OnAsyncStart
    <3>4. \A n \in Nat : n < 3 => n = 0 \/ n = 1 \/ n = 2
      OBVIOUS
    <3> QED
      BY <3>1, <3>2, <3>3, <3>4
  <2>2. registered' = Append(registered, c) /\ fate' = fate
    BY <1>2, <2>1, InOrder DEF OnAsyncStart
  <2>3. ContextsStarted'
    BY <1>0, <1>2, <2>2 DEF OnAsyncStart, ContextsStarted
  <2>4. NoAssertFails'
    BY <1>0, <2>2 DEF NoAssertFails
  <2>5. IdsOwn' /\ SnapshotRead' /\ Answered' /\ Listening'
    BY <1>0, <1>2 DEF OnAsyncStart, IdsOwn, SnapshotRead, Answered, Listening
  <2> QED
    BY <1>2, <1>a, <2>3, <2>4, <2>5 DEF OnAsyncStart, StartInv
<1>3. CASE StartContexts
  <2>1. accepting = "no" /\ acceptor = <<>> /\ answers = {}
    BY <1>0, <1>3 DEF StartContexts, Answered, Listening
  <2>2. ContextsStarted'
    BY <1>0, <1>3 DEF StartContexts, ContextsStarted, Contexts
  <2>3. IdsOwn' /\ SnapshotRead' /\ NoAssertFails'
    BY <1>0, <1>3 DEF StartContexts, IdsOwn, SnapshotRead, NoAssertFails
  <2>4. Answered' /\ Listening'
    BY <1>3, <2>1 DEF StartContexts, Answered, Listening
  <2> QED
    BY <1>3, <1>a, <2>2, <2>3, <2>4 DEF StartContexts, StartInv
<1>4. CASE StartAcceptingConnections
  BY <1>0, <1>a, <1>4 DEF StartAcceptingConnections, Breakpoint, StartInv, IdsOwn, SnapshotRead,
     ContextsStarted, Answered, Listening, NoAssertFails
<1>5. ASSUME NEW c \in Contexts \ {"MainCtx"}, CheckThread(c, c) PROVE StartInv'
  <2>1. c \in Threads /\ ids[c] \in {c, NoThread} /\ c # Main
    BY <1>0, <1>5 DEF IdsOwn, Threads, Contexts, Main
  <2>2. NoAssertFails'
    BY <1>0, <1>5, <2>1 DEF CheckThread, Cussert, NoAssertFails
  <2>3. IdsOwn'
    BY <1>0, <1>5, <2>1 DEF CheckThread, IdsOwn, Threads
  <2>4. ContextsStarted' /\ Answered' /\ Listening' /\ SnapshotRead'
    BY <1>0, <1>5 DEF CheckThread, ContextsStarted, Answered, Listening, SnapshotRead, Contexts
  <2> QED
    BY <1>5, <1>a, <2>2, <2>3, <2>4 DEF CheckThread, StartInv
<1>6. ASSUME NEW c \in Contexts, CheckAllThreadIDsCollision(c) PROVE StartInv'
  <2>1. NoAssertFails'
    <3>1. \A t, u \in Threads : t # u /\ ids[t] # NoThread => ids[t] # ids[u]
      BY <1>0 DEF IdsOwn
    <3> QED
      BY <1>0, <1>6, <3>1 DEF CheckAllThreadIDsCollision, Cussert, NoAssertFails
  <2>2. c # "MainCtx"
    BY <1>0, <1>6 DEF CheckAllThreadIDsCollision, ContextsStarted
  <2>3. ContextsStarted' /\ Answered' /\ Listening' /\ SnapshotRead' /\ IdsOwn'
    BY <1>0, <1>6, <2>2 DEF CheckAllThreadIDsCollision, ContextsStarted, Answered,
       Listening, SnapshotRead, IdsOwn, Contexts
  <2> QED
    BY <1>6, <1>a, <2>1, <2>3 DEF CheckAllThreadIDsCollision, StartInv
<1>7. CASE SetupTun
  <2>1. NoAssertFails'
    BY <1>0, <1>7 DEF SetupTun, CheckThreadIsNOT, Cussert, CuAbort, NoAssertFails, IdsOwn, Main,
       NoThread
  <2>2. ContextsStarted'
    BY <1>0, <1>7 DEF SetupTun, CheckThreadIsNOT, Cussert, CuAbort, ContextsStarted, Contexts
  <2>3. Answered' /\ Listening' /\ SnapshotRead' /\ IdsOwn'
    BY <1>0, <1>7 DEF SetupTun, CheckThreadIsNOT, Cussert, CuAbort, ContextsStarted, Answered,
       Listening, SnapshotRead, IdsOwn, Contexts
  <2> QED
    BY <1>7, <1>a, <2>1, <2>2, <2>3 DEF SetupTun, StartInv
<1>8. CASE GetSettings
  BY <1>0, <1>a, <1>8 DEF GetSettings, StartInv, IdsOwn, SnapshotRead,
     ContextsStarted, Answered, Listening, NoAssertFails
<1>9. CASE OpenAcceptor
  <2>1. /\ mpc = "wait" /\ settings = snapshot /\ ctx["SettingsCtx"] = "loop"
        /\ ctx["MainCtx"] = "loop" /\ snapshot[1].port = conf[1].port % 65536
    BY <1>0, <1>9 DEF OpenAcceptor, ResumesIn, Answered, SnapshotRead
  <2>2. acceptor' = <<[port |-> conf[1].port % 65536, by |-> "MainCtx"]>>
    BY <1>9, <2>1 DEF OpenAcceptor, ResumesIn
  <2>3. Listening'
    BY <1>9, <2>1, <2>2 DEF OpenAcceptor, Listening
  <2>4. Answered'
    BY <1>9, <2>1 DEF OpenAcceptor, Answered
  <2>5. IdsOwn' /\ SnapshotRead' /\ ContextsStarted' /\ NoAssertFails'
    BY <1>0, <1>9 DEF OpenAcceptor, Breakpoint, IdsOwn, SnapshotRead, ContextsStarted,
       NoAssertFails
  <2> QED
    BY <1>9, <1>a, <2>3, <2>4, <2>5 DEF OpenAcceptor, StartInv
<1>10. CASE AcceptorError
  BY <1>0, <1>a, <1>10 DEF AcceptorError, Breakpoint, StartInv, IdsOwn, SnapshotRead,
     ContextsStarted, Answered, Listening, NoAssertFails
<1>11. CASE AuthenticateUser
  <2>1. UNCHANGED <<given, mainVars, threadVars, accepting, settings, acceptor>>
    BY <1>11 DEF AuthenticateUser
  <2>2. mpc = "wait"
    BY <1>0, <1>11 DEF AuthenticateUser, Answered
  <2>3. LoginsAsConfigured'
    <3>1. PICK login \in Logins :
             answers' = answers \union
               {[login |-> login, allowed |-> BinarySearch(snapshot[1].logins, login)]}
      BY <1>11 DEF AuthenticateUser
    <3>2. /\ snapshot[1].logins = SortedLogins(conf[1].logins)
          /\ conf[1].logins \in Seq(Nat) /\ login \in Nat
      BY <1>0, <2>2, ServerStartAssumption DEF SnapshotRead
    <3>3. BinarySearch(snapshot[1].logins, login)
            <=> \E i \in DOMAIN conf[1].logins : conf[1].logins[i] = login
      BY <3>2, SearchInSorted
    <3>4. conf' = conf
      BY <2>1
    <3> QED
      BY <1>0, <3>1, <3>3, <3>4 DEF LoginsAsConfigured
  <2>4. IdsOwn' /\ SnapshotRead' /\ ContextsStarted' /\ Listening' /\ NoAssertFails'
    BY <1>0, <1>11, <2>1 DEF AuthenticateUser, Breakpoint, IdsOwn, SnapshotRead, ContextsStarted,
       Listening, NoAssertFails
  <2>5. Answered'
    BY <1>0, <2>1, <2>2 DEF Answered
  <2> QED
    BY <2>3, <2>4, <2>5 DEF StartInv
<1>12. CASE UNCHANGED serverVars
  BY <1>0, <1>a, <1>12 DEF serverVars, StartInv, IdsOwn, SnapshotRead, ContextsStarted, Answered,
     Listening, NoAssertFails
<1>13. CASE SessionsControlRegisters \/ SettingsRegister \/ StatisticsRegister
  BY <1>2, <1>13 DEF SessionsControlRegisters, SettingsRegister, StatisticsRegister, Contexts
<1>14. CASE SettingsStart \/ StatisticsStart
  BY <1>5, <1>14 DEF SettingsStart, StatisticsStart, Contexts
<1> QED
  BY <1>1, <1>1a, <1>3, <1>4, <1>6, <1>7, <1>8, <1>9, <1>10, <1>11, <1>12, <1>13, <1>14
     DEF StartNext, ServerStep, startVars

LEMMA StartInvariance == StartSpec => []StartInv
<1> QED
  BY StartInitInv, StartStepInv, PTL DEF StartSpec

\* The type invariant.
THEOREM StartTypeCorrect == StartSpec => []StartTypeOK
<1>1. ASSUME StartInit PROVE StartTypeOK
  <2>1. ids \in [Threads -> Threads \union {NoThread}]
    BY <1>1 DEF StartInit, Threads
  <2>2. ctx \in [Contexts -> {"off", "launched", "checking", "loop"}]
    BY <1>1 DEF StartInit
  <2>3. faults \in 0 .. MaxFaults
    BY <1>1, ServerStartAssumption DEF StartInit
  <2>4. /\ registered \in Seq(Contexts)
        /\ Len(snapshot) <= 1 /\ Len(settings) <= 1 /\ Len(acceptor) <= 1
    BY <1>1 DEF StartInit
  <2> QED
    BY <1>1, <2>1, <2>2, <2>3, <2>4 DEF StartInit, StartTypeOK
<1>2. StartTypeOK /\ [StartNext]_startVars => StartTypeOK'
  <2> SUFFICES ASSUME StartTypeOK, [StartNext]_startVars PROVE StartTypeOK'
    OBVIOUS
  <2> USE DEF given, mainVars, threadVars, acceptVars
  <2>1. CASE ReadSettings
    <3>1. Len(snapshot') <= 1
      <4>1. \A r : Len(<<r>>) <= 1
        OBVIOUS
      <4>2. snapshot' = snapshot \/ \E r : snapshot' = <<r>>
        BY <2>1 DEF ReadSettings
      <4> QED
        BY <4>1, <4>2 DEF StartTypeOK
    <3>2. mpc' \in {"read", "register"}
      BY <2>1 DEF ReadSettings
    <3>3. fate' \in {"running", "terminated"}
      BY <2>1 DEF ReadSettings, Running
    <3> QED
      BY <2>1, <3>1, <3>2, <3>3 DEF ReadSettings, StartTypeOK
  <2>1a. CASE RegisterContextsFails
    BY <2>1a DEF RegisterContextsFails, StartTypeOK
  <2>2. ASSUME NEW c \in Contexts, OnAsyncStart(c) PROVE StartTypeOK'
    <3>5. registered' = registered \/ registered' = Append(registered, c)
      BY <2>2 DEF OnAsyncStart
    <3>6. registered' \in Seq(Contexts)
      BY <2>2, <3>5 DEF StartTypeOK
    <3>7. fate' \in {"running", "assert"}
      BY <2>2 DEF OnAsyncStart, Running
    <3> QED
      BY <2>2, <3>6, <3>7 DEF OnAsyncStart, StartTypeOK
  <2>3. CASE StartContexts
    BY <2>3 DEF StartContexts, StartTypeOK
  <2>4. CASE StartAcceptingConnections
    BY <2>4 DEF StartAcceptingConnections, Breakpoint, StartTypeOK
  <2>5. ASSUME NEW c \in Contexts, CheckThread(c, c) PROVE StartTypeOK'
    BY <2>5 DEF CheckThread, Cussert, Threads, StartTypeOK
  <2>6. ASSUME NEW c \in Contexts, CheckAllThreadIDsCollision(c) PROVE StartTypeOK'
    BY <2>6 DEF CheckAllThreadIDsCollision, Cussert, StartTypeOK
  <2>7. CASE SetupTun
    BY <2>7 DEF SetupTun, CheckThreadIsNOT, Cussert, CuAbort, StartTypeOK
  <2>8. CASE GetSettings
    BY <2>8 DEF GetSettings, StartTypeOK
  <2>9. CASE OpenAcceptor
    BY <2>9 DEF OpenAcceptor, Breakpoint, StartTypeOK
  <2>10. CASE AcceptorError
    BY <2>10, ServerStartAssumption DEF AcceptorError, Breakpoint, StartTypeOK
  <2>11. CASE AuthenticateUser
    <3>1. \A a \in answers' : a.login \in Logins /\ a.allowed \in BOOLEAN
      <4>1. PICK login \in Logins :
               answers' = answers \union
                 {[login |-> login,
                   allowed |-> BinarySearch(snapshot[1].logins, login)]}
        BY <2>11 DEF AuthenticateUser
      <4>2. BinarySearch(snapshot[1].logins, login) \in BOOLEAN
        BY DEF BinarySearch
      <4> QED
        BY <4>1, <4>2 DEF StartTypeOK
    <3> QED
      BY <2>11, <3>1 DEF AuthenticateUser, Breakpoint, StartTypeOK
  <2>12. CASE UNCHANGED serverVars
    BY <2>12 DEF serverVars, StartTypeOK
  <2>13. CASE SessionsControlRegisters \/ SettingsRegister \/ StatisticsRegister
    BY <2>2, <2>13 DEF SessionsControlRegisters, SettingsRegister, StatisticsRegister, Contexts
  <2>14. CASE SettingsStart \/ StatisticsStart
    BY <2>5, <2>14 DEF SettingsStart, StatisticsStart, Contexts
  <2> QED
    BY <2>1, <2>1a, <2>3, <2>4, <2>6, <2>7, <2>8, <2>9, <2>10, <2>11, <2>12, <2>13, <2>14
       DEF StartNext, ServerStep, startVars
<1> QED
  BY <1>1, <1>2, PTL DEF StartSpec

\* Whatever the file says and however the threads interleave, the acceptor is
\* opened only in a main context that is set up, on the port of the file.
THEOREM ListensWhenSetUp == StartSpec => []AcceptsWhenSetUp
<1>1. StartInv => AcceptsWhenSetUp
  BY DEF StartInv, AcceptsWhenSetUp, Listening, ContextsStarted
<1> QED
  BY <1>1, StartInvariance, PTL

\* The contexts register in their order and the ids of the threads never
\* collide, also while other threads set theirs.
THEOREM StartAsserts == StartSpec => []NoAssertFails
<1>1. StartInv => NoAssertFails
  BY DEF StartInv
<1> QED
  BY <1>1, StartInvariance, PTL

\* A login is let in exactly if the file has it, whatever the file lists and
\* whoever asks.
THEOREM LoginsAreConfigured == StartSpec => []LoginsAsConfigured
<1>1. StartInv => LoginsAsConfigured
  BY DEF StartInv
<1> QED
  BY <1>1, StartInvariance, PTL

\* The start does not touch the command line: what is true of every command line
\* is true of the server's.
THEOREM StartReadsItsLine == StartSpec => Spec
<1>1. StartInit => Init
  BY DEF StartInit
<1>2. [StartNext]_startVars => [Next]_vars
  <2> SUFFICES ASSUME [StartNext]_startVars PROVE [Next]_vars
    OBVIOUS
  <2>1. ServerStep => UNCHANGED vars
    <3> USE DEF given
    <3>1. ReadSettings \/ RegisterContextsFails => UNCHANGED vars
      BY DEF ReadSettings, RegisterContextsFails
    <3>2. SessionsControlRegisters \/ SettingsRegister \/ StatisticsRegister => UNCHANGED vars
      BY DEF SessionsControlRegisters, SettingsRegister, StatisticsRegister, OnAsyncStart
    <3>3. StartContexts \/ StartAcceptingConnections => UNCHANGED vars
      BY DEF StartContexts, StartAcceptingConnections
    <3>4. SetupTun \/ SettingsStart \/ StatisticsStart => UNCHANGED vars
      BY DEF SetupTun, SettingsStart, StatisticsStart, CheckThread
    <3>5. ASSUME NEW c \in Contexts, CheckAllThreadIDsCollision(c) PROVE UNCHANGED vars
      BY <3>5 DEF CheckAllThreadIDsCollision
    <3>6. GetSettings \/ OpenAcceptor \/ AcceptorError \/ AuthenticateUser => UNCHANGED vars
      BY DEF GetSettings, OpenAcceptor, AcceptorError, AuthenticateUser
    <3> QED
      BY <3>1, <3>2, <3>3, <3>4, <3>5, <3>6 DEF ServerStep
  <2>2. UNCHANGED startVars => UNCHANGED vars
    BY DEF startVars
  <2> QED
    BY <2>1, <2>2 DEF StartNext
<1> QED
  BY <1>1, <1>2, PTL DEF StartSpec, Spec
==============================================================================
