---------------------------- MODULE MCEventReport ----------------------------
(***************************************************************************)
(* An instance of EventReport for TLC: first any report, then a few.       *)
(***************************************************************************)
EXTENDS EventReport

(* Texts with and without a colon and with blanks at both ends, keys that   *)
(* are also fields, and descriptions whose lines look like fields, or end   *)
(* in blanks, or are nothing else.                                          *)
Texts == {<<"true">>, <<" x", "y\t">>, <<" ", "">>}
Entries(K, V) == UNION {[S -> V] : S \in SUBSET K}
AnyReport ==
  {[NoEvent EXCEPT !.owner = o, !.city = c, !.name = n, !.date = 7,
                   !.general = g, !.description = d] :
     o \in {<<"">>, <<"true">>, <<" x", "y\t">>}, c \in {<<" c ">>, <<"c", "">>},
     n \in {<<" ">>, <<" n\r">>, <<" x", "y\t">>},
     g \in Entries({"active", " city "}, Texts) \cup {[escription |-> <<"x">>]},
     d \in {<<>>, << <<" \t">> >>, << <<"user", "z \r">>, <<" ">> >>,
            << <<"">>, <<"general information", "">>, <<" active", " ">> >>}}

(* Two users, and reports without the entry for the arrival of forces; and  *)
(* two dates and two names.                                                 *)
Names == << <<"">>, <<" ">>, <<" n\r">>, <<"a">>, <<"b">> >>
Report(o, d, n, g) ==
  [NoEvent EXCEPT !.owner = <<o>>, !.date = d, !.name = n, !.general = g]
Arriving == [forces_arrival_at_scene |-> <<"true">>]
FewReports ==
  {Report(o, 1, <<"a">>, g) : o \in {"u", "v"}, g \in
     {Arriving, [active |-> <<"true">>],
      [active |-> <<"true">>, forces_arrival_at_scene |-> <<"false">>]}}
  \cup {Report("u", d, n, Arriving) : d \in {1, 2}, n \in {<<"a">>, <<"b">>}}

AnyThenFew == <<AnyReport \cup FewReports, FewReports, FewReports>>
=============================================================================
