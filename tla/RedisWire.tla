----------------------------- MODULE RedisWire -----------------------------
(***************************************************************************)
(* publishToRedis down to the bytes: one PUBLISH command written by hand   *)
(* in RESP over a fresh TCP connection, and its one-line reply.  TCP keeps *)
(* the order of the bytes and nothing else: they arrive in pieces of any   *)
(* size, and the connection may break between any two of them.  Neither    *)
(* side sets a deadline, so each waits for as many bytes as the other's    *)
(* framing promises.                                                       *)
(*                                                                         *)
(* DeviceGateway has one step for the broker's half of this exchange.      *)
(***************************************************************************)
EXTENDS Naturals, Sequences, SequencesExt

CONSTANTS
  Characters,  \* characters of names and messages
  Encoding,    \* Encoding[c]: the bytes of character c in UTF-8
  Command,     \* "PUBLISH"
  Channel,     \* "device-events"
  Messages     \* the texts to be published

CR == "\r"
LF == "\n"
Digits == <<"0", "1", "2", "3", "4", "5", "6", "7", "8", "9">>
Bytes(text) == FlattenSeq([i \in DOMAIN text |-> Encoding[text[i]]])

Byte == (UNION {{Encoding[c][i] : i \in DOMAIN Encoding[c]} : c \in Characters})
          \cup {CR, LF, "*", "$", ":", "-"} \cup ToSet(Digits)

ASSUME WireAssumption ==
  /\ Encoding \in [Characters -> Seq(Byte)]
  /\ Messages \cup {Command, Channel} \subseteq Seq(Characters)
  \* UTF-8 tells texts apart
  /\ \A m, n \in Messages : Bytes(m) = Bytes(n) => m = n

VARIABLES
  pc,         \* where publishToRedis is, or what it returned
  message,    \* the text it publishes
  wire,       \* bytes on their way to the broker
  parser,     \* the broker's reading of the command so far
  published,  \* what the broker handed to the channel's subscribers
  reply,      \* bytes on their way back
  line,       \* what ReadString has gathered
  up          \* the connection has not broken

vars == <<pc, message, wire, parser, published, reply, line, up>>

Fresh == [mode |-> "*", num |-> 0, left |-> 0, text |-> <<>>, parts |-> <<>>]
Returned == {"nil", "error"}

(* Every variable stays in its range; the broker finds no byte it cannot   *)
(* place, and never more than one command.                                 *)
TypeOK ==
  /\ pc \in {"called", "dial", "write", "failing", "read"} \cup Returned
  /\ message \in Messages
  /\ wire \in Seq(Byte)
  /\ parser.mode \in {"*", "count", "countEnd", "$", "length", "lengthEnd", "text", "executed"}
  /\ parser.num \in Nat /\ parser.left \in 0..3
  /\ published \in Seq(Seq(Byte))
  /\ reply \in Seq(Byte)
  /\ line \in Seq(Byte)
  /\ up \in BOOLEAN

Init ==
  /\ pc = "called"
  /\ message \in Messages
  /\ wire = <<>>
  /\ parser = Fresh
  /\ published = <<>>
  /\ reply = <<>>
  /\ line = <<>>
  /\ up = TRUE

-----------------------------------------------------------------------------
(* respArray.                                                              *)

(* A fault against PublishedExactly: characters are counted, not bytes. *)
Length_Runes(text) == Len(text)

Length(text) == Len(Bytes(text))

(* %d *)
Number(n) ==
  LET numeral[k \in 0..n] ==
        IF k < 10 THEN <<Digits[k + 1]>>
        ELSE Append(numeral[k \div 10], Digits[(k % 10) + 1])
  IN  numeral[n]

EndOfLine == <<CR, LF>>

(* A fault against TypeOK: nothing ends the text of a string. *)
BulkString_Open(text) == <<"$">> \o Number(Length(text)) \o EndOfLine \o Bytes(text)

BulkString(text) ==
  <<"$">> \o Number(Length(text)) \o EndOfLine \o Bytes(text) \o EndOfLine

(* A fault against NobodyWaitsForEver: one string more is announced. *)
respArray_OneMore(parts) ==
  <<"*">> \o Number(Len(parts) + 1) \o EndOfLine
    \o FlattenSeq([i \in DOMAIN parts |-> BulkString(parts[i])])

respArray(parts) ==
  <<"*">> \o Number(Len(parts)) \o EndOfLine
    \o FlattenSeq([i \in DOMAIN parts |-> BulkString(parts[i])])

-----------------------------------------------------------------------------
(* publishToRedis.  Whatever it returns, the deferred Close ends the       *)
(* connection; bytes the broker has not read by then do not count.         *)

Return(result) ==
  /\ pc' = result
  /\ up' = FALSE
  /\ wire' = <<>>
  /\ reply' = <<>>

(* DialTimeout has two seconds. *)
StartDial ==
  /\ pc = "called"
  /\ pc' = "dial"
  /\ UNCHANGED <<message, wire, parser, published, reply, line, up>>

Dial ==
  /\ pc = "dial"
  /\ \/ pc' = "write" /\ UNCHANGED <<up, wire, reply>>
     \/ Return("error")
  /\ UNCHANGED <<message, parser, published, line>>

(* A Write that fails has sent a part of the command; the broker may have  *)
(* taken it before the connection is gone.                                 *)
Write ==
  LET cmd == respArray(<<Command, Channel, message>>)
  IN  /\ pc = "write"
      /\ \/ /\ pc' = "read"
            /\ wire' = cmd
         \/ /\ pc' = "failing"
            /\ \E n \in 0..Len(cmd) - 1 : wire' = SubSeq(cmd, 1, n)
      /\ UNCHANGED <<message, parser, published, reply, line, up>>

WriteFails ==
  /\ pc = "failing"
  /\ Return("error")
  /\ UNCHANGED <<message, parser, published, line>>

(* A fault against ImplementsPipeline: any line at all is a success. *)
IsSuccess_AnyLine(l) == l # <<>>

(* ":<n>" is what a PUBLISH that was carried out is answered with. *)
IsSuccess(l) == l # <<>> /\ l[1] = ":"

ReadByte ==
  /\ pc = "read"
  /\ reply # <<>>
  /\ line' = Append(line, Head(reply))
  /\ IF Head(reply) = LF
     THEN Return(IF IsSuccess(line') THEN "nil" ELSE "error")
     ELSE reply' = Tail(reply) /\ UNCHANGED <<pc, wire, up>>
  /\ UNCHANGED <<message, parser, published>>

ReadFails ==
  /\ pc = "read"
  /\ ~up
  /\ Return("error")
  /\ UNCHANGED <<message, parser, published, line>>

-----------------------------------------------------------------------------
(* Redis and the network, as publishToRedis uses them.                     *)

Break ==
  /\ pc \in {"read", "failing"}
  /\ up
  /\ up' = FALSE
  /\ wire' = <<>>
  /\ reply' = <<>>
  /\ UNCHANGED <<pc, message, parser, published, line>>

IsDigit(b) == b \in ToSet(Digits)
Value(b) == (CHOOSE i \in 1..10 : Digits[i] = b) - 1

(* The broker's parser takes one byte.  "count" and "length" read a number *)
(* up to its CR, and the byte after that is skipped; "text" reads as many  *)
(* bytes as announced, whatever they are, and skips two more.              *)
Parse(p, b) ==
  CASE p.mode = "*" /\ b = "*" -> [p EXCEPT !.mode = "count"]
    [] p.mode = "$" /\ b = "$" -> [p EXCEPT !.mode = "length"]
    [] p.mode \in {"count", "length"} /\ IsDigit(b) -> [p EXCEPT !.num = @ * 10 + Value(b)]
    [] p.mode = "count" /\ b = CR -> [p EXCEPT !.mode = "countEnd"]
    [] p.mode = "length" /\ b = CR -> [p EXCEPT !.mode = "lengthEnd"]
    [] p.mode = "countEnd" -> [p EXCEPT !.mode = "$", !.left = p.num, !.num = 0]
    [] p.mode = "lengthEnd" -> [p EXCEPT !.mode = "text", !.num = @ + 2]
    [] p.mode = "text" /\ p.num > 2 -> [p EXCEPT !.text = Append(@, b), !.num = @ - 1]
    [] p.mode = "text" /\ p.num = 2 -> [p EXCEPT !.num = 1]
    [] p.mode = "text" /\ p.num = 1 ->
         [Fresh EXCEPT !.parts = Append(p.parts, p.text), !.left = p.left - 1,
                       !.mode = IF p.left = 1 THEN "executed" ELSE "$"]
    [] OTHER -> [p EXCEPT !.mode = "confused"]

(* A command that is understood is carried out or refused; what is not     *)
(* understood is refused.                                                  *)
Deliver ==
  /\ up
  /\ wire # <<>>
  /\ wire' = Tail(wire)
  /\ parser' = Parse(parser, Head(wire))
  /\ \/ /\ parser'.mode = "executed"
        /\ Len(parser'.parts) = 3
        /\ parser'.parts[1] = Bytes(Command) /\ parser'.parts[2] = Bytes(Channel)
        /\ published' = Append(published, parser'.parts[3])
        /\ reply' = reply \o <<":", "1", CR, LF>>
     \/ /\ parser'.mode \in {"executed", "confused"}
        /\ reply' = reply \o <<"-", CR, LF>>
        /\ UNCHANGED published
     \/ /\ parser'.mode \notin {"executed", "confused"}
        /\ UNCHANGED <<published, reply>>
  /\ UNCHANGED <<pc, message, line, up>>

-----------------------------------------------------------------------------
Done ==
  /\ pc \in Returned
  /\ UNCHANGED vars

GatewayStep == StartDial \/ Dial \/ Write \/ WriteFails \/ ReadByte \/ ReadFails

Next == GatewayStep \/ Deliver \/ Break \/ Done

(* The worker runs, and TCP delivers what it does not lose. *)
Spec == Init /\ [][Next]_vars /\ WF_vars(GatewayStep) /\ WF_vars(Deliver)

-----------------------------------------------------------------------------
(* Properties.                                                             *)

(* The subscribers get the message byte by byte as it was passed, once at  *)
(* most, whatever is in it ("\r\n", "$1", characters of several bytes),    *)
(* in whatever pieces it travels and wherever the connection breaks.       *)
PublishedExactly == published \in {<<>>, <<Bytes(message)>>}

(* The framing leaves nobody waiting for bytes that are not to come: on a  *)
(* connection that neither breaks nor fails, broker and gateway would else *)
(* wait for each other for good, since neither sets a deadline.            *)
NobodyWaitsForEver == <>(pc \in Returned)

(* Seen as a pipeline of one event: it is decided once, as a success only  *)
(* if the broker has published it.                                         *)
Pipeline == INSTANCE EventPipeline WITH
  Events    <- Messages,
  phase     <- "open",
  accepted  <- IF pc = "called" THEN {} ELSE {message},
  published <- {m \in Messages : \E i \in DOMAIN published : published[i] = Bytes(m)},
  acked     <- IF pc = "nil" THEN {message} ELSE {},
  failed    <- IF pc = "error" THEN {message} ELSE {}
ImplementsPipeline == Pipeline!Spec
=============================================================================
