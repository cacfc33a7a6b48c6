----------------------------- MODULE StompParser ----------------------------
(***************************************************************************)
(* stomp_parser (stomp_protocol.cpp) and what on_data_rx, fetch_header and *)
(* proccess_message (stomp_server.cpp) do with its result, for one frame   *)
(* of one connection, from the client library that writes it to the one    *)
(* that reads what the server makes of it.                                 *)
(*                                                                         *)
(* A frame is a sequence of tokens.  The parser compares single characters *)
(* with the end of a line, NUL, the colon and the blank only: any other    *)
(* run of characters is one token, so that the name of a command or of a   *)
(* header is a token and a word of two tokens is no name.                  *)
(***************************************************************************)
EXTENDS Naturals, Sequences, SequencesExt

CONSTANTS
  Letters,    \* tokens that are neither a name nor a separator
  RawFrames,  \* frames a client written by hand sends
  Bodies,     \* bodies that the client libraries send
  Values      \* values that they give to the header content-type

LF == "\n"
NUL == "NUL"
Colon == ":"
Blank == " "

Commands == {"CONNECT", "CONNECTED", "DISCONNECT", "RECEIPT", "SEND", "MESSAGE", "SUBSCRIBE",
             "UNSUBSCRIBE", "BEGIN", "COMMIT", "ABORT", "ACK", "NACK", "ERROR"}
HeaderNames == {"accept-version", "error-desc", "login", "destination", "destination-type",
                "origin", "passcode", "secret-key", "session-id", "profile-code",
                "profile-desc", "connection-id", "transaction", "receipt-id",
                "content-length", "content-type"}
Tokens == Commands \cup HeaderNames \cup Letters \cup {LF, NUL, Colon, Blank}
Words == Seq(Tokens)

ASSUME FramesAssumption ==
  /\ Letters \cap (Commands \cup HeaderNames \cup {LF, NUL, Colon, Blank}) = {}
  /\ {"x", "0", "1"} \subseteq Letters   \* stand for values that do not matter
  /\ RawFrames \subseteq Words /\ Bodies \subseteq Words /\ Values \subseteq Words

Errors == {"OK", "INVALID_FORMAT_COMMAND", "UNKOWN_COMMAND", "UNKOWN_FORMAT_HEADER"}

VARIABLES
  client,    \* who wrote the frame: a hand, or one of the two libraries
  intent,    \* what the library was given: the body and the content type
  data,      \* the frame as on_data_rx receives it
  pos,       \* the parser's position
  stage,     \* where the frame has got to
  command, headers, payload, ec,  \* the message, and the parser's verdict
  answer     \* the frame the server writes for it

vars == <<client, intent, data, pos, stage, command, headers, payload, ec, answer>>

-----------------------------------------------------------------------------
(* Helpers                                                                 *)
FirstOf(S, s, from) ==       \* where s has the next token of S, past its end if nowhere
  LET i == SelectInSubSeq(s, from, Len(s), LAMBDA c : c \in S)
  IN IF i = 0 THEN Len(s) + 1 ELSE i

ltrim(w) == SubSeq(w, SelectInSeq(w, LAMBDA c : c # Blank), Len(w))
rtrim(w) == SubSeq(w, 1, SelectLastInSeq(w, LAMBDA c : c # Blank))
trim(w) == IF rtrim(w) = <<>> THEN <<>> ELSE ltrim(rtrim(w))

is_cmd_recognized(w) == w \in {<<c>> : c \in Commands \ {"RECEIPT", "MESSAGE"}}

(* The headers each handler asks for, in that order.                       *)
connect_headers == <<"secret-key", "login", "passcode">>
disconnect_headers == <<"receipt-id">>
send_headers == <<"session-id", "destination", "content-type", "content-length", "transaction">>
subscribe_headers == <<"session-id", "destination-type", "destination", "transaction">>
unsubscribe_headers == <<"session-id", "transaction">>

Required == [CONNECT |-> connect_headers, DISCONNECT |-> disconnect_headers,
             SEND |-> send_headers, SUBSCRIBE |-> subscribe_headers,
             UNSUBSCRIBE |-> unsubscribe_headers]

(* gen_stomp_message, of headers given as pairs.  The end of the frame is  *)
(* 0x00, an int, which a stream writes as the digit 0.                     *)
HeaderLines(pairs) ==
  FlattenSeq([i \in DOMAIN pairs |-> <<pairs[i][1], Colon>> \o pairs[i][2] \o <<LF>>])

GenUnended(c, pairs, body) ==    \* slip: the end of the frame is left out
  <<c, LF>> \o HeaderLines(pairs) \o <<LF>> \o body

gen_stomp_message(c, pairs, body) ==
  <<c, LF>> \o HeaderLines(pairs) \o <<LF>> \o body \o <<"0">>

-----------------------------------------------------------------------------
(* The client libraries.  Both build the frame of a SEND from their        *)
(* headers; JavaScript ends it with NUL, Python with nothing.  A browser   *)
(* speaks WebSocket, whose connection hands on_data_rx a C string: what    *)
(* follows a NUL is lost.  (JavaScript sends no origin, which no handler   *)
(* reads.)                                                                 *)
ClientHeaders(value) ==
  << <<"transaction", <<"1">>>>, <<"session-id", <<"x">>>>, <<"origin", <<"x">>>>,
     <<"destination", <<"x">>>>, <<"content-type", value>>, <<"content-length", <<Blank, "1">>>> >>

UpToNul(s) == SubSeq(s, 1, FirstOf({NUL}, s, 1) - 1)

buildSTOMPMessage(value, body) ==
  <<"SEND", LF>> \o HeaderLines(ClientHeaders(value)) \o <<LF>> \o body \o <<NUL>>
build_message(value, body) ==
  <<"SEND", LF>> \o HeaderLines(ClientHeaders(value)) \o <<LF>> \o body

Received(by, value, body) ==
  IF by = "js" THEN UpToNul(buildSTOMPMessage(value, body)) ELSE build_message(value, body)

(* _parseMessage and parse_message, of what the server writes: the body is *)
(* what follows the first empty line, without its last character.          *)
EmptyLine(s) == CHOOSE i \in 1..Len(s) : /\ s[i] = LF /\ s[i + 1] = LF
                                         /\ \A j \in 1..i-1 : ~(s[j] = LF /\ s[j + 1] = LF)
ParsedBody(s) == SubSeq(s, EmptyLine(s) + 2, Len(s) - 1)
ParsedValue(s, name) ==
  LET k == CHOOSE i \in 1..EmptyLine(s) : s[i] = name /\ s[i - 1] = LF
  IN trim(SubSeq(s, k + 2, FirstOf({LF}, s, k) - 1))

-----------------------------------------------------------------------------
(* parse_command, of a frame that is not empty                             *)
EmptyFrame ==                \* data.at(0) throws, on the io thread
  /\ stage = "command" /\ data = <<>>
  /\ stage' = "thrown"
  /\ UNCHANGED <<client, intent, data, pos, command, headers, payload, ec, answer>>

parse_command ==
  /\ stage = "command" /\ data # <<>>
  /\ \E end \in {FirstOf({LF, NUL, Blank}, data, 1)} :
       IF end <= Len(data) /\ data[end] # LF
       THEN ec' = "INVALID_FORMAT_COMMAND" /\ UNCHANGED <<command, pos>>
       ELSE /\ command' = trim(SubSeq(data, 1, end - 1)) /\ pos' = end + 1
            /\ ec' = IF is_cmd_recognized(command') THEN "OK" ELSE "UNKOWN_COMMAND"
  /\ stage' = IF ec' = "OK" THEN "headers" ELSE "parsed"
  /\ UNCHANGED <<client, intent, data, headers, payload, answer>>

(* parse_head, of one line: the first colon parts it, and the last header  *)
(* of a name wins.                                                         *)
SplitAtLastColon(line) ==    \* slip: the value may hold no colon
  SelectLastInSeq(line, LAMBDA c : c = Colon)
SplitAt(line) == FirstOf({Colon}, line, 1)

parse_head(line) ==
  LET colon == SplitAt(line)
      key == trim(SubSeq(line, 1, colon - 1))
      value == trim(SubSeq(line, colon + 1, Len(line)))
  IN IF colon >= Len(line) THEN headers
     ELSE [k \in DOMAIN headers \cup {key} |-> IF k = key THEN value ELSE headers[k]]

(* read_line: a NUL ends the line too, and spoils the message.             *)
SameLinePos(end) == pos      \* slip: read_line moves a copy of pos
LinePosPlus(end) == end + 1  \* slip: the end of the data is passed
NextLinePos(end) == IF end > Len(data) THEN end ELSE end + 1

ReadHeader ==
  /\ stage = "headers" /\ pos <= Len(data)
  /\ \E end \in {FirstOf({LF, NUL}, data, pos)} : \E line \in {SubSeq(data, pos, end - 1)} :
       /\ line # <<>>
       /\ headers' = parse_head(line)
       /\ pos' = NextLinePos(end)
       /\ ec' = IF (end <= Len(data) /\ data[end] = NUL) \/ SplitAt(line) >= Len(line)
                THEN "UNKOWN_FORMAT_HEADER" ELSE ec
  /\ stage' = IF ec' = "OK" THEN "headers" ELSE "parsed"
  /\ UNCHANGED <<client, intent, data, command, payload, answer>>

(* The empty line that ends the headers, and the payload: what follows it. *)
ReadPayload ==
  /\ stage = "headers" /\ pos <= Len(data)
  /\ data[pos] \in {LF, NUL}
  /\ pos' = NextLinePos(pos)
  /\ ec' = IF data[pos] = NUL THEN "UNKOWN_FORMAT_HEADER" ELSE ec
  /\ payload' = IF ec' = "OK" THEN SubSeq(data, pos', Len(data)) ELSE payload
  /\ stage' = "parsed"
  /\ UNCHANGED <<client, intent, data, command, headers, answer>>

EndOfData ==                 \* the frame ends within the headers
  /\ stage = "headers" /\ pos > Len(data)
  /\ stage' = "parsed"
  /\ UNCHANGED <<client, intent, data, pos, command, headers, payload, ec, answer>>

-----------------------------------------------------------------------------
(* on_data_rx: a message that is not understood is answered and ends the   *)
(* connection.                                                             *)
send_error_msg(reason) == gen_stomp_message("ERROR", << <<"error-desc", <<reason>>>> >>, <<>>)

RefuseMessage ==
  /\ stage = "parsed" /\ ec # "OK"
  /\ stage' = "refused"
  /\ answer' = send_error_msg(ec)
  /\ UNCHANGED <<client, intent, data, pos, command, headers, payload, ec>>

(* fetch_header: the first header that is missing is named in the answer.  *)
FirstOnly(c) ==              \* slip: the loop ends with the first header
  {i \in 1..1 : <<Required[c][i]>> \notin DOMAIN headers}
fetch_header(c) ==
  {i \in DOMAIN Required[c] : <<Required[c][i]>> \notin DOMAIN headers}

Dispatches(c) == stage = "parsed" /\ ec = "OK" /\ c \in DOMAIN Required /\ command = <<c>>

MissingHeader ==
  \E c \in DOMAIN Required :
    /\ Dispatches(c) /\ fetch_header(c) # {}
    /\ stage' = "refused"
    /\ answer' = send_error_msg(Required[c][Min(fetch_header(c))])
    /\ UNCHANGED <<client, intent, data, pos, command, headers, payload, ec>>

(* The command has its headers and goes on to its checks of the session,   *)
(* which Broker models; a SEND that passes them is sent on, see            *)
(* send_send_msg.  DISCONNECT looks at the session before its header:      *)
(* either way the connection gets an error and is closed.                  *)
send_send_msg ==
  gen_stomp_message("MESSAGE",
    << <<"transaction", headers[<<"transaction">>]>>, <<"session-id", <<"x">>>>,
       <<"origin", <<"x">>>>, <<"destination", <<"x">>>>,
       <<"content-type", headers[<<"content-type">>]>>,
       <<"content-length", headers[<<"content-length">>]>> >>, payload)

Handle ==
  \E c \in DOMAIN Required :
    /\ Dispatches(c) /\ fetch_header(c) = {}
    /\ stage' = "handled"
    /\ answer' = IF c = "SEND" THEN send_send_msg ELSE answer
    /\ UNCHANGED <<client, intent, data, pos, command, headers, payload, ec>>

Ignore ==                    \* a recognised command without a handler: no answer
  /\ stage = "parsed" /\ ec = "OK"
  /\ command \notin {<<c>> : c \in DOMAIN Required}
  /\ stage' = "ignored"
  /\ UNCHANGED <<client, intent, data, pos, command, headers, payload, ec, answer>>

-----------------------------------------------------------------------------
(* stomp_message is empty, and a position points at the first character.   *)
ParserInit ==
  /\ \/ client = "hand" /\ intent = <<>> /\ data \in RawFrames
     \/ \E by \in {"js", "python"}, v \in Values, b \in Bodies :
          client = by /\ intent = <<v, b>> /\ data = Received(by, v, b)
  /\ pos = 1 /\ stage = "command"
  /\ command = <<>> /\ headers = [k \in {} |-> <<>>] /\ payload = <<>>
  /\ ec = "OK" /\ answer = <<>>

ParserNext ==
  \/ EmptyFrame \/ parse_command
  \/ ReadHeader \/ ReadPayload \/ EndOfData
  \/ RefuseMessage \/ MissingHeader \/ Handle \/ Ignore

(* The io thread does not leave on_data_rx before the frame is settled.    *)
ParserSpec == ParserInit /\ [][ParserNext]_vars /\ WF_vars(ParserNext)

-----------------------------------------------------------------------------
Settled == {"thrown", "refused", "ignored", "handled"}

(* The message is made of words of the frame; only a command without an    *)
(* end of line takes the position past the end of the frame.               *)
ParserTypeOK ==
  /\ client \in {"hand", "js", "python"}
  /\ data \in Words /\ pos \in 1..Len(data) + 2
  /\ pos = Len(data) + 2 => DOMAIN headers = {} /\ stage # "command"
  /\ stage \in Settled \cup {"command", "headers", "parsed"}
  /\ command \in Words /\ payload \in Words
  /\ DOMAIN headers \subseteq Words /\ \A k \in DOMAIN headers : headers[k] \in Words
  /\ ec \in Errors

(* The grammar, not by reading but by what a frame is: a head of lines,    *)
(* the first a command, the others headers, up to an empty line or the     *)
(* end of the frame, and then the body.                                    *)
HeadLength(f) ==
  Min({n \in 0..Len(f) : n = Len(f) \/ (n + 2 <= Len(f) /\ f[n + 1] = LF /\ f[n + 2] = LF)})

LineEnd(f, i) == FirstOf({LF}, f, i) - 1
HeadLines(f) ==              \* where the lines of the head after its first begin
  {i \in 3..HeadLength(f) : f[i - 1] = LF}

Key(f, i) == trim(SubSeq(f, i, FirstOf({Colon}, f, i) - 1))
Value(f, i) == trim(SubSeq(f, FirstOf({Colon}, f, i) + 1, LineEnd(f, i)))

Understood(f) ==
  LET n == HeadLength(f)
  IN /\ n > 0 /\ is_cmd_recognized(<<f[1]>>) /\ (n = 1 \/ f[2] = LF)
     /\ \A i \in 1..n : f[i] # NUL
     /\ \A i \in HeadLines(f) : FirstOf({Colon}, f, i) < LineEnd(f, i)

HeadersOf(f) ==
  LET lines == HeadLines(f)
  IN [k \in {Key(f, i) : i \in lines} |->
        Value(f, Max({i \in lines : Key(f, i) = k}))]

(* The parser understands exactly the frames of the grammar, and reads in  *)
(* them what is there: no character of a header, or of the body, gets into *)
(* the other, whatever separators they hold.                               *)
FramesAreUnderstood ==
  stage = "parsed" =>
    /\ ec = "OK" <=> Understood(data)
    /\ ec = "OK" => /\ command = <<data[1]>> /\ headers = HeadersOf(data)
                    /\ payload = SubSeq(data, HeadLength(data) + 3, Len(data))

(* What becomes of a frame is decided by the grammar and by the headers of *)
(* its command: none is handled that lacks one of them, none is refused    *)
(* that is complete, and only the empty frame throws.                      *)
OutcomeIsDue ==
  /\ stage = "thrown" => data = <<>>
  /\ stage = "ignored" => Understood(data) /\ data[1] \notin DOMAIN Required
  /\ stage \in {"handled", "refused"} =>
       (stage = "handled" <=>
          /\ Understood(data) /\ data[1] \in DOMAIN Required
          /\ \A i \in DOMAIN Required[data[1]] :
               \E l \in HeadLines(data) : Key(data, l) = <<Required[data[1]][i]>>)

(* What one client library sends another reads: the body, lines, colons    *)
(* and blanks included, and the value of a header without the blanks       *)
(* around it, if it is of one line, which the libraries do not check.      *)
(* From a browser a body arrives up to its first NUL.                      *)
OneLine(value) == LF \notin Range(value)
BodiesArrive ==
  stage = "handled" /\ client # "hand" /\ OneLine(intent[1]) =>
    /\ ParsedBody(answer) = IF client = "js" THEN UpToNul(intent[2]) ELSE intent[2]
    /\ ParsedValue(answer, "content-type") = trim(intent[1])

(* A frame, whatever it holds, does not keep the io thread for ever.       *)
FramesAreSettled == <>(stage \in Settled)

(* What is left of a frame: characters, and stages to go through.          *)
Rank(st) == CASE st = "command" -> 3 [] st = "headers" -> 2 [] st = "parsed" -> 1 [] OTHER -> 0
Ahead == (Len(data) + 2 - pos) + Rank(stage)

(* Why it does not: every step of on_data_rx leaves the frame as it is and *)
(* less of it ahead, no header is read twice, so a frame costs the thread  *)
(* at most a step for each of its characters and four more.                *)
EachStepAdvances == [][data' = data /\ Ahead' \in Nat /\ Ahead' < Ahead]_vars
=============================================================================
