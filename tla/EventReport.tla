----------------------------- MODULE EventReport -----------------------------
(***************************************************************************)
(* The reports of the client as algorithms: what getBodyFromEvent writes   *)
(* into the body of a SEND, what the Event of a MESSAGE reads out of it,   *)
(* where messageHendel inserts it, and what summaryHendel counts.          *)
(*                                                                         *)
(* Bodies and their texts are those of FrameCodec, and an exception is the *)
(* field thrown.  The state machine is one channel of a client's eventsMap: *)
(* reports arrive over the server, from any users and in any order.         *)
(***************************************************************************)
EXTENDS FrameCodec
LOCAL INSTANCE SequencesExt
LOCAL INSTANCE FiniteSets

CONSTANTS
  Reports,     \* bound: Reports[k] is the set of those that may arrive as k-th
  NameOrder    \* the names of these reports in lexicographic order

VARIABLES
  eventList,   \* eventsMap[channelName]
  arrived      \* history: what was reported, in the order of its arrival

vars == <<eventList, arrived>>

(* bound: dates of one digit, their text, and the text that stoi can read.  *)
Dates == 0 .. 9
Digit == <<"0", "1", "2", "3", "4", "5", "6", "7", "8", "9">>
DateText(n) == <<Digit[n + 1]>>
IsDate(part) == \E n \in Dates : Digit[n + 1] = part
stoi(part) == CHOOSE n \in Dates : Digit[n + 1] = part

NoEvent == [owner |-> Blank, city |-> Blank, name |-> Blank, date |-> 0,
            description |-> <<>>, general |-> <<>>, thrown |-> FALSE]

-----------------------------------------------------------------------------
(* Sending.                                                                 *)

(* Faulty variant: the entries are not indented.                            *)
FaultyEntry(e, key) == <<key>> \o e.general[key]

Indented(key) == "\t" \o key
Entry(e, key) == <<Indented(key)>> \o e.general[key]

getBodyFromEvent(e) ==
  LET keys == SetToSeq(DOMAIN e.general) IN
  << <<"user">> \o e.owner, <<"city">> \o e.city, <<"event name">> \o e.name,
     <<"date time">> \o DateText(e.date), <<"general information">> \o Blank >>
  \o [i \in DOMAIN keys |-> Entry(e, keys[i])]
  \o << <<"description">> \o Blank >> \o LinesOf(e.description) \o <<Blank>>

-----------------------------------------------------------------------------
(* Receiving.                                                               *)

(* std::getline finds no last part when nothing follows the last colon.     *)
split_str(l) == IF Len(l) > 1 /\ Last(l) = "" THEN Front(l) ELSE l
KeyOf(l) == split_str(l)[1]
ValOf(l) == IF Len(split_str(l)) = 2 THEN split_str(l)[2] ELSE ""

(* One line of the body.  got is the event so far, whether the general      *)
(* information has begun, and whether the description has.                  *)
SetField(e, key, val) ==
  CASE key = "user" -> [e EXCEPT !.owner = <<val>>]
    [] key = "city" -> [e EXCEPT !.city = <<val>>]
    [] key = "event name" -> [e EXCEPT !.name = <<val>>]
    [] key = "date time" -> IF IsDate(val) THEN [e EXCEPT !.date = stoi(val)]
                            ELSE [e EXCEPT !.thrown = TRUE]
    [] OTHER -> e

(* The key without its first character, whatever that is: the line of the   *)
(* description leaves an entry "escription".                                *)
WithoutFirst(key) == SubSeq(key, 2, Len(key))
AddEntry(e, key, val) ==
  IF key = "" THEN [e EXCEPT !.thrown = TRUE]
  ELSE [e EXCEPT !.general = With(@, WithoutFirst(key), <<val>>)]

ReadLine(got, l) ==
  LET key == KeyOf(l)
      set == SetField(got.event, key, ValOf(l)) IN
  IF got.event.thrown THEN got
  ELSE IF got.inDescription
  THEN [got EXCEPT !.event.description = Append(@, l)]
  ELSE IF Len(l) = 1 THEN got
  ELSE IF key = "general information" THEN [got EXCEPT !.inGeneral = TRUE]
  ELSE [got EXCEPT
          !.event = IF got.inGeneral /\ ~set.thrown
                    THEN AddEntry(set, key, ValOf(l)) ELSE set,
          !.inDescription = (key = "description")]

Event(body) ==
  FoldLeft(ReadLine, [event |-> NoEvent, inGeneral |-> FALSE,
                      inDescription |-> FALSE], body).event

(* The body's way: a SEND of the client, a MESSAGE of the server.           *)
SendFrame(e) ==
  StompFrame("SEND", [destination |-> <<"channel">>], getBodyFromEvent(e))
Relayed(f) == clientParse(serverToString(MessageFor(serverParse(
                clientToString(f)))))
Received(e) == Event(Relayed(SendFrame(e)).body)

isActive(e) == "active" \in DOMAIN e.general /\ e.general["active"] = <<"true">>

(* general_information.at throws when the entry is not there.               *)
HasArrival(e) == "forces_arrival_at_scene" \in DOMAIN e.general
forcesArrivalAtScene(e) == e.general["forces_arrival_at_scene"] = <<"true">>

-----------------------------------------------------------------------------
(* The events of a channel, sorted by date and then by name.                *)
Rank(name) == SelectInSeq(NameOrder, LAMBDA n : n = name)

(* Faulty variant: an event of the same date comes before.                  *)
FaultyBefore(a, b) == a.date <= b.date

Before(a, b) ==
  \/ a.date < b.date
  \/ a.date = b.date /\ Rank(a.name) < Rank(b.name)

lower_bound(events, e) ==
  LET k == SelectInSeq(events, LAMBDA x : ~Before(x, e)) IN
  IF k = 0 THEN Len(events) + 1 ELSE k

insert(events, e) == InsertAt(events, lower_bound(events, e), e)

-----------------------------------------------------------------------------
(* summaryHendel for one user: an event of another is passed over, and one  *)
(* of the user's without the entry ends the program.                        *)
NoSummary == [total |-> 0, active |-> 0, arrivals |-> 0, thrown |-> FALSE]
Bit(b) == IF b THEN 1 ELSE 0

(* Faulty variant: the active events of every user are counted.             *)
FaultyCount(user, sum, e) ==
  IF sum.thrown THEN sum
  ELSE IF e.owner # user THEN [sum EXCEPT !.active = @ + Bit(isActive(e))]
  ELSE IF ~HasArrival(e) THEN [sum EXCEPT !.thrown = TRUE]
  ELSE [sum EXCEPT !.total = @ + 1,
                   !.active = @ + Bit(isActive(e)),
                   !.arrivals = @ + Bit(forcesArrivalAtScene(e))]

Count(user, sum, e) ==
  IF sum.thrown \/ e.owner # user THEN sum
  ELSE IF ~HasArrival(e) THEN [sum EXCEPT !.thrown = TRUE]
  ELSE [sum EXCEPT !.total = @ + 1,
                   !.active = @ + Bit(isActive(e)),
                   !.arrivals = @ + Bit(forcesArrivalAtScene(e))]

summaryOf(events, user) ==
  LET count(sum, e) == Count(user, sum, e) IN FoldLeft(count, NoSummary, events)

-----------------------------------------------------------------------------
(* A report has texts for its fields, its lines and its entries.  What is   *)
(* assumed of strings: the tab before the key of an entry keeps it apart    *)
(* from the fields, and is what AddEntry takes off.  A key has no colon,    *)
(* and no text a line break.                                                *)
IsReport(e) ==
  /\ {e.owner, e.city, e.name} \subseteq Text /\ e.date \in Dates
  /\ e.description \in Seq(Text)
  /\ IsFiniteSet(DOMAIN e.general) /\ DOMAIN e.general \subseteq STRING
  /\ e.general \in [DOMAIN e.general -> Text]

Fields == {"user", "city", "event name", "date time", "general information",
           "description"}

HeaderNames == {"login", "passcode", "destination", "subscription",
                "message_id", "receipt_id", "message"}

ASSUME ReportsAssumption ==
  Len(Reports) \in Nat
  /\ \A k \in 1 .. Len(Reports) : \A e \in Reports[k] : IsReport(e)

(* What is assumed of trimming: nothing is left to trim where it was done,  *)
(* and the names of the headers, and the first field, have no blanks.       *)
PartsOf(t) == {t[i] : i \in DOMAIN t}
TrimsWell(p) ==
  /\ {LTrim(p), RTrim(p), RTrim(LTrim(p))} \subseteq STRING
  /\ RTrim(RTrim(p)) = RTrim(p)
  /\ LTrim(p) # "" => LTrim(RTrim(p)) # ""

ASSUME TextAssumption ==
  /\ WithoutFirst("description") = "escription"
  /\ LTrim("") = "" /\ RTrim("") = "" /\ LTrim("user") = "user"
  /\ RTrim(LTrim(" 0")) = "0" /\ RTrim(LTrim("channel")) = "channel"
  /\ RTrim(LTrim("0")) = "0"
  /\ \A name \in HeaderNames : RTrim(LTrim(name)) = name
  /\ \A k \in 1 .. Len(Reports) : \A e \in Reports[k] :
       /\ \A key \in DOMAIN e.general :
            /\ Indented(key) \in STRING \ (Fields \cup {""})
            /\ WithoutFirst(Indented(key)) = key
       /\ \A p \in PartsOf(e.name) : TrimsWell(p)
       /\ \A i \in DOMAIN e.description :
            \A p \in PartsOf(e.description[i]) : TrimsWell(p)

-----------------------------------------------------------------------------
Init == eventList = <<>> /\ arrived = <<>>

messageHendel(e) ==
  /\ eventList' = insert(eventList, Received(e))
  /\ arrived' = Append(arrived, e)

Next ==
  /\ Len(arrived) < Len(Reports)
  /\ \E e \in Reports[Len(arrived) + 1] : messageHendel(e)

Spec == Init /\ [][Next]_vars

-----------------------------------------------------------------------------
(* What a report says arrives, whatever is in its description and whatever  *)
(* the keys of its general information are called (they have no colon): its *)
(* date, its description up to blanks and blank lines at the end, and every *)
(* field that is one line without a colon, its blanks included; and reading *)
(* its body never throws.  The exception is an entry "escription", which    *)
(* the line of the description overwrites.                                  *)
TrimEnd(lines) ==
  LET last == SelectLastInSeq(lines, LAMBDA l : ~IsBlank(l)) IN
  [i \in 1 .. last |-> IF i = last THEN TrailOff(lines[i]) ELSE lines[i]]

Survives(e, r) ==
  /\ ~r.thrown
  /\ r.date = e.date
  /\ r.description = TrimEnd(e.description)
  /\ Len(e.owner) = 1 => r.owner = e.owner
  /\ Len(e.city) = 1 => r.city = e.city
  /\ Len(e.name) = 1 => r.name = e.name
  /\ \A key \in DOMAIN e.general :
       /\ key \in DOMAIN r.general
       /\ Len(e.general[key]) = 1 /\ key # "escription"
            => r.general[key] = e.general[key]
  /\ DOMAIN r.general \subseteq DOMAIN e.general \cup {"escription"}

BodiesSurvive ==
  /\ Len(eventList) = Len(arrived)
  /\ \A i \in DOMAIN arrived :
       \E k \in DOMAIN eventList : Survives(arrived[i], eventList[k])

(* Frames arrive as they were sent, headers with colons in their values and *)
(* bodies with blank lines too, but for blanks at the ends of the values of *)
(* headers, and blanks and blank lines at the ends of a body: from the      *)
(* client to the server and back, and without a body.                       *)
SameFrame(f, g) ==
  /\ ~g.thrown /\ g.command = f.command /\ g.headers = Trimmed(f.headers)
  /\ g.body = IF f.body = NoBody THEN <<>> ELSE Trim(f.body)

FramesArrive ==
  \A i \in DOMAIN arrived :
    LET e == arrived[i]
        login == StompFrame("CONNECT", [login |-> e.owner, passcode |-> e.city],
                            <<>>)
        event == SendFrame(e) IN
    /\ \A f \in {login, event} : SameFrame(f, serverParse(clientToString(f)))
    /\ SameFrame(StompFrame("RECEIPT", [receipt_id |-> e.name], NoBody),
                 clientParse(serverToString(
                   ServerFrame("RECEIPT", [receipt_id |-> e.name], NoBody))))
    /\ SameFrame(StompFrame("ERROR", [message |-> e.name], event.body),
                 clientParse(serverToString(
                   ServerFrame("ERROR", [message |-> e.name], event.body))))

(* The list is sorted by date and name in whatever order reports come.      *)
EventsStaySorted == IsSorted(eventList, LAMBDA a, b : ~Before(b, a))

(* A summary counts what its user sent, all of it and nothing else, over    *)
(* the body, the wire and the sorted list; it throws when one of the user's *)
(* reports has no entry "forces_arrival_at_scene", and only then.  Not for  *)
(* a user with a colon in the name, who counts as one without a name, and   *)
(* for a flag "true:", which counts as "true": split_str drops the colon.   *)
IsPlain(e) ==
  /\ Len(e.owner) = 1
  /\ \A key \in DOMAIN e.general \cap {"active", "forces_arrival_at_scene"} :
       e.general[key] # <<"true", "">>

SummaryCountsWhatWasSent ==
  (\A i \in DOMAIN arrived : IsPlain(arrived[i])) =>
  \A user \in {arrived[i].owner : i \in DOMAIN arrived} :
    LET own == {i \in DOMAIN arrived : arrived[i].owner = user}
        sum == summaryOf(eventList, user) IN
    IF \E i \in own : ~HasArrival(arrived[i]) THEN sum.thrown
    ELSE /\ ~sum.thrown
         /\ sum.total = Cardinality(own)
         /\ sum.active = Cardinality({i \in own : isActive(arrived[i])})
         /\ sum.arrivals =
              Cardinality({i \in own : forcesArrivalAtScene(arrived[i])})
=============================================================================
