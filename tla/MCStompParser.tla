---------------------------- MODULE MCStompParser ---------------------------
(* All short sequences of tokens; all short heads and bodies after a       *)
(* command with a handler and one header; for each command, its frames     *)
(* with all its headers, without one of them and with one of them twice.   *)
EXTENDS StompParser

Separators == {LF, NUL, Colon, Blank}
MCLetters == {"x", "y", "0", "1"} \cup Errors
Short == BoundedSeq({"DISCONNECT", "ACK", "MESSAGE", "x"} \cup Separators, 4)
Heads == {<<"DISCONNECT", LF>> \o t : t \in BoundedSeq({"receipt-id", "x"} \cup Separators, 5)}
Complete ==
  {<<"DISCONNECT", LF, "receipt-id", Colon>> \o t : t \in BoundedSeq({"x"} \cup Separators, 5)}

Frame(c, names) ==
  <<c, LF>> \o HeaderLines([i \in DOMAIN names |-> <<names[i], <<"x">>>>]) \o <<LF, "y">>
Dispatched ==
  UNION {{Frame(c, Required[c])}
           \cup {Frame(c, RemoveAt(Required[c], i)) : i \in DOMAIN Required[c]}
           \cup {Frame(c, Append(Required[c], Required[c][i])) : i \in DOMAIN Required[c]}
         : c \in DOMAIN Required}
  \cup {Frame(c, <<"login">>) : c \in Commands}

MCRawFrames == Short \cup Heads \cup Complete \cup Dispatched
MCBodies == BoundedSeq({"x"} \cup Separators, 3)
MCValues == {<<"x">>, <<Blank>>, <<Blank, "x", Colon, "y", Blank>>, <<"x", Blank, "y">>,
             <<"x", NUL>>, <<"x", LF, "y", Colon, "x">>}
=============================================================================
