------------------------------ MODULE FrameCodec ------------------------------
(***************************************************************************)
(* Frames as text, written and parsed by the Java server and by the C++    *)
(* client.                                                                 *)
(*                                                                         *)
(* A text is the sequence of its parts between colons; what is sent up to  *)
(* the null character is the sequence of its lines, each a text.  A body   *)
(* is the sequence of its lines, empty for "".  A part is a string without  *)
(* colon and line break.                                                   *)
(***************************************************************************)
EXTENDS Integers, Sequences
LOCAL INSTANCE SequencesExt

(* A map with one entry put in, in the place of one with the same key.      *)
With(map, key, value) ==
  [x \in {key} \cup DOMAIN map |-> IF x = key THEN value ELSE map[x]]

Text == Seq(STRING) \ {<<>>}    \* one part at least, which may be ""
Blank == <<"">>

NoBody == << <<"null">>, <<"null">> >>    \* null of Java

StompFrame(cmd, headers, body) ==
  [command |-> cmd, headers |-> headers, body |-> body, thrown |-> FALSE]

-----------------------------------------------------------------------------
(* Trimming.  Abstraction: of the control characters that Java trims too,   *)
(* only those that C++ is asked to trim.                                    *)
Blanks == {" ", "\t", "\r"}
Black(p) == {i \in 1 .. Len(p) : SubSeq(p, i, i) \notin Blanks}

LTrim(p) == IF Black(p) = {} THEN "" ELSE SubSeq(p, Min(Black(p)), Len(p))
RTrim(p) == IF Black(p) = {} THEN "" ELSE SubSeq(p, 1, Max(Black(p)))

(* A text without the blanks before it, and without those behind it.        *)
LeadOff(t) == [t EXCEPT ![1] = LTrim(@)]
TrailOff(t) == [t EXCEPT ![Len(t)] = RTrim(@)]
TrimText(t) == TrailOff(LeadOff(t))

IsBlank(l) == Len(l) = 1 /\ LTrim(l[1]) = ""

(* A body without the blank lines at both ends, and without the blanks at   *)
(* both ends of what is left.                                               *)
Core(body) ==
  IF \A i \in DOMAIN body : IsBlank(body[i]) THEN <<>>
  ELSE SubSeq(body, SelectInSeq(body, LAMBDA l : ~IsBlank(l)),
                    SelectLastInSeq(body, LAMBDA l : ~IsBlank(l)))
EndsOff(lines) ==
  LET led == [lines EXCEPT ![1] = LeadOff(@)] IN
  [led EXCEPT ![Len(lines)] = TrailOff(@)]
Trim(body) == IF Core(body) = <<>> THEN <<>> ELSE EndsOff(Core(body))

(* The headers as setHeaders of the server keeps them.                      *)
Trimmed(headers) == [x \in DOMAIN headers |-> TrimText(headers[x])]

(* A frame that the server makes: its headers go through setHeaders.        *)
ServerFrame(cmd, headers, body) == StompFrame(cmd, Trimmed(headers), body)

-----------------------------------------------------------------------------
(* Writing.  The order of the headers is the one of a map.                  *)
HeaderLines(headers) ==
  LET names == SetToSeq(DOMAIN headers) IN
  [i \in DOMAIN names |-> <<names[i]>> \o headers[names[i]]]

LinesOf(body) == IF body = <<>> THEN <<Blank>> ELSE body

clientToString(f) ==
  << <<f.command>> >> \o HeaderLines(f.headers) \o <<Blank>>
    \o LinesOf(f.body) \o <<Blank>>

serverToString(f) ==
  << <<f.command>> >> \o HeaderLines(f.headers) \o
  (IF f.body = NoBody THEN <<>> ELSE <<Blank>> \o LinesOf(f.body)) \o <<Blank>>

-----------------------------------------------------------------------------
(* Parsing.                                                                 *)

(* The first "\n\n": an empty line with one before it and one after it.     *)
EndOfHeaders(raw) ==
  LET k == SelectInSeq(SubSeq(raw, 2, Len(raw) - 1), LAMBDA l : l = Blank) IN
  IF k = 0 THEN Len(raw) ELSE k + 1

HeadOf(raw) == SubSeq(raw, 2, EndOfHeaders(raw) - 1)
BodyOf(raw) == SubSeq(raw, EndOfHeaders(raw) + 1, Len(raw))

(* Faulty variant: the value ends at the second colon.                      *)
FaultyValueOf(l) == <<l[2]>>

(* A line is split in two; what follows the first colon is the value.       *)
ValueOf(l) == Tail(l)

PutHeader(headers, l) == With(headers, l[1], ValueOf(l))
NoHeaders == [name \in {} |-> Blank]

(* setHeaders of the server trims both halves.                              *)
TrimmedLine(l) == <<RTrim(LTrim(l[1]))>> \o TrimText(Tail(l))

serverParse(raw) ==
  IF \E i \in DOMAIN HeadOf(raw) : Len(HeadOf(raw)[i]) = 1
  THEN [StompFrame("", NoHeaders, NoBody) EXCEPT !.thrown = TRUE]
  ELSE StompFrame(raw[1][1],
                  FoldLeft(PutHeader, NoHeaders,
                           [i \in DOMAIN HeadOf(raw) |->
                              TrimmedLine(HeadOf(raw)[i])]),
                  IF BodyOf(raw) \in {<<>>, <<Blank>>} THEN NoBody
                  ELSE Trim(BodyOf(raw)))

(* The client trims neither; in a line without a colon find gives npos,  *)
(* and npos + 1 is 0.                                                       *)
PutWhole(headers, l) ==
  IF Len(l) = 1 THEN With(headers, l[1], l) ELSE PutHeader(headers, l)

clientParse(raw) ==
  StompFrame(raw[1][1], FoldLeft(PutWhole, NoHeaders, HeadOf(raw)),
             Trim(BodyOf(raw)))

(* What sendHendel makes of a SEND.                                         *)
MessageFor(f) ==
  ServerFrame("MESSAGE",
              [subscription |-> <<" 0">>, message_id |-> <<" 0">>,
               destination |-> f.headers["destination"]], f.body)
=============================================================================
