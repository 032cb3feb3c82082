--------------------------- MODULE MCServerStart ---------------------------
(* Command lines of up to four of these arguments: enough for the three     *)
(* options that the client needs, one of them with a value of its own       *)
(* argument, and for one argument too many or too few.  The server has one  *)
(* option.  Files that are good, that cannot be read, whose key is bad,     *)
(* with no login, with unsorted and repeated ones, and a port of 17 bits.   *)
EXTENDS ServerStart

MCWords == {"0", "none", "80", "65536", "host"}
MCNumber ==
    [w \in MCWords |-> CASE w = "0" -> 0 [] w = "80" -> 80 [] w = "65536" -> 65536
                         [] OTHER -> -1]

Option(n) == [form |-> "long", name |-> n, value |-> NoValue]
With(n, w) == [form |-> "long", name |-> n, value |-> w]

MCSpoken ==
    {Option("server_ip"), With("server_ip", "host"), Option("port"), With("port", "80"),
     With("port", "65536"), With("login", "host"), Option("restore"),
     With("restore", "0"), Option("logdir"), Word("80"), Word("0")}
MCMaxArgs == [client |-> 4, server |-> 1]

File(port, logins) == [readable |-> TRUE, key |-> "private", port |-> port, logins |-> logins]

MCConfigs ==
    {File(443, <<>>), File(443, <<2>>), File(65536 + 443, <<3, 1>>),
     File(443, <<4, 3, 3, 1>>), File(443, <<2, 4, 1, 3, 2>>),
     [File(443, <<1>>) EXCEPT !.readable = FALSE], [File(443, <<1>>) EXCEPT !.key = "missing"],
     [File(443, <<1>>) EXCEPT !.key = "public"]}
MCLogins == 0 .. 5
=============================================================================
