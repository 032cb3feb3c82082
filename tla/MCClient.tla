------------------------------ MODULE MCClient ------------------------------
(* Clients that keep to the protocol, and clients that do not; the one of    *)
(* the code announces a key of 4 bytes, no length, and its login twice.      *)
EXTENDS Client

User == <<1, 2>>
Sends(key, field, copies, login) ==
    [key |-> key, field |-> field, copies |-> copies, login |-> login]

MCKeyLen == 2
CodeClient == {Sends(1, 0, 2, User)}
MCClients ==
    CodeClient \union
    {Sends(MCKeyLen, 2, 1, User), Sends(MCKeyLen, 2, 1, <<2, 1>>),
     Sends(MCKeyLen, 2, 2, User), Sends(MCKeyLen, 0, 1, User),
     Sends(MCKeyLen, 1, 1, User), Sends(MCKeyLen, 3, 1, <<1, 2, 2>>)}
MCAllowed == {User}
=============================================================================
