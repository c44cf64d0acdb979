------------------------ MODULE StompAgreementProofs ------------------------
(***************************************************************************)
(* Proof that the client and the server of StompSystem agree on the        *)
(* session whenever nothing is under way between them (SessionsAgree), for *)
(* any number of lines, connections and messages, any channels and any     *)
(* input.  The steps of the client come first, then those of the server's  *)
(* threads.                                                                *)
(***************************************************************************)
EXTENDS StompSystemProofs

-----------------------------------------------------------------------------
(* The session, as values: d[i] is the channel of subscription i in the     *)
(* database, F are the frames that were not answered, H[ch] the numbers     *)
(* that the client knows ch by, L those that it is about to end, a what it  *)
(* asked for, top its counter and n the connection.                         *)

FramesOf(s) == {s[k] : k \in DOMAIN s}

ToSubscribe(F, ch, i) ==
  \E f \in F : f.command = "SUBSCRIBE" /\ f.destination = ch /\ f.id = i
ToEnd(F, i) == \E f \in F : f.command = "UNSUBSCRIBE" /\ f.id = i
ToConnect(F) == \E f \in F : f.command = "CONNECT"

IsMade(d, F, ch, i) == d[i] = ch \/ ToSubscribe(F, ch, i)
IsEnding(F, L, ch, i) ==
  i \in L \/ ToEnd(F, i) \/ \E j \in Ids : j > i /\ ToSubscribe(F, ch, j)

Agree(d, F, H, L, a, top, n) ==
  \A ch \in Channel, i \in Ids :
    /\ i \in H[ch] /\ a[i + 1].conn = n => IsMade(d, F, ch, i)
    /\ IsMade(d, F, ch, i) =>
         /\ i < top /\ a[i + 1] = [text |-> Joined(ch), conn |-> n]
         /\ i \in H[ch] \/ IsEnding(F, L, ch, i)

(* Frames that are no part of a subscription.                               *)
LEMMA AgreeBesides ==
  ASSUME NEW d, NEW F, NEW G, NEW H, NEW L, NEW a, NEW top, NEW n,
         Agree(d, F, H, L, a, top, n),
         \A f : f.command \in {"SUBSCRIBE", "UNSUBSCRIBE"}
                  => (f \in F <=> f \in G)
  PROVE  Agree(d, G, H, L, a, top, n)
<1>1. \A ch, i : /\ ToSubscribe(F, ch, i) <=> ToSubscribe(G, ch, i)
                 /\ ToEnd(F, i) <=> ToEnd(G, i)
  BY DEF ToSubscribe, ToEnd
<1>. QED
  BY <1>1 DEF Agree, IsMade, IsEnding

(* The client forgets a number only on the way to its end.                  *)
LEMMA AgreeForgets ==
  ASSUME NEW d, NEW F, NEW H, NEW K, NEW L, NEW M, NEW a, NEW n,
         NEW top \in Nat, NEW next \in Nat, top <= next,
         Agree(d, F, H, L, a, top, n),
         \A ch \in Channel, i \in Ids :
           /\ i \in K[ch] => i \in H[ch]
           /\ i \in H[ch] => i \in K[ch] \/ i \in M
           /\ i \in L => i \in M
  PROVE  Agree(d, F, K, M, a, next, n)
<1>1. \A i \in Ids : i < top => i < next
  BY NumberTypes
<1>2. \A ch \in Channel, i \in Ids : IsEnding(F, L, ch, i) => IsEnding(F, M, ch, i)
  BY DEF IsEnding
<1>3. \A ch, i : i \in M => IsEnding(F, M, ch, i)
  BY DEF IsEnding
<1>. SUFFICES ASSUME NEW ch \in Channel, NEW i \in Ids
              PROVE  /\ i \in K[ch] /\ a[i + 1].conn = n => IsMade(d, F, ch, i)
                     /\ IsMade(d, F, ch, i) =>
                          /\ i < next
                          /\ a[i + 1] = [text |-> Joined(ch), conn |-> n]
                          /\ i \in K[ch] \/ IsEnding(F, M, ch, i)
  BY DEF Agree
<1>4. /\ i \in H[ch] /\ a[i + 1].conn = n => IsMade(d, F, ch, i)
      /\ IsMade(d, F, ch, i) =>
           /\ i < top /\ a[i + 1] = [text |-> Joined(ch), conn |-> n]
           /\ i \in H[ch] \/ IsEnding(F, L, ch, i)
  BY DEF Agree
<1>. QED
  BY <1>1, <1>2, <1>3, <1>4

LEMMA AgreeJoins ==
  ASSUME NEW d, NEW F, NEW H, NEW K, NEW L, NEW a, NEW b, NEW n,
         NEW top \in Nat, top + 2 \in Ids, NEW c0 \in Channel,
         NEW f, f.command = "SUBSCRIBE", f.destination = c0, f.id = top + 1,
         Agree(d, F, H, L, a, top, n),
         \A r \in Ids : r # top + 2 => b[r] = a[r],
         b[top + 2] = [text |-> Joined(c0), conn |-> n],
         \A ch \in Channel : \A i \in H[ch] : i + 1 <= top,
         \A ch \in Channel, i \in Ids :
           i \in K[ch] <=> i \in H[ch] \/ (ch = c0 /\ i = top + 1)
  PROVE  Agree(d, F \cup {f}, K, L, b, top + 2, n)
<1>1. \A ch, i : ToSubscribe(F \cup {f}, ch, i)
                   <=> ToSubscribe(F, ch, i) \/ (ch = c0 /\ i = top + 1)
  BY DEF ToSubscribe
<1>2. \A i : ToEnd(F, i) => ToEnd(F \cup {f}, i)
  BY DEF ToEnd
<1>3. \A ch \in Channel, i \in Ids :
        IsEnding(F, L, ch, i) => IsEnding(F \cup {f}, L, ch, i)
  BY <1>1, <1>2 DEF IsEnding
<1>4. \A i \in Ids : i + 1 <= top => i + 1 \in Ids /\ i + 1 # top + 2 /\ i < top + 2
  BY NumberTypes DEF Ids
<1>5. \A i \in Ids : i < top => i + 1 <= top
  BY NumberTypes
<1>. SUFFICES ASSUME NEW ch \in Channel, NEW i \in Ids
              PROVE  /\ i \in K[ch] /\ b[i + 1].conn = n
                          => IsMade(d, F \cup {f}, ch, i)
                     /\ IsMade(d, F \cup {f}, ch, i) =>
                          /\ i < top + 2
                          /\ b[i + 1] = [text |-> Joined(ch), conn |-> n]
                          /\ i \in K[ch] \/ IsEnding(F \cup {f}, L, ch, i)
  BY DEF Agree
<1>6. CASE ch = c0 /\ i = top + 1
  <2>1. i < top + 2 /\ i + 1 = top + 2
    BY <1>6
  <2>. QED
    BY <1>1, <1>6, <2>1 DEF IsMade
<1>7. CASE ~(ch = c0 /\ i = top + 1)
  <2>1. IsMade(d, F \cup {f}, ch, i) <=> IsMade(d, F, ch, i)
    BY <1>1, <1>7 DEF IsMade
  <2>2. i \in K[ch] <=> i \in H[ch]
    BY <1>7
  <2>3. CASE IsMade(d, F, ch, i)
    <3>1. /\ i < top /\ a[i + 1] = [text |-> Joined(ch), conn |-> n]
          /\ i \in H[ch] \/ IsEnding(F, L, ch, i)
      BY <2>3 DEF Agree
    <3>. QED
      BY <1>3, <1>4, <1>5, <2>1, <2>2, <2>3, <3>1
  <2>4. CASE ~IsMade(d, F, ch, i)
    <3>1. i \in H[ch] => a[i + 1].conn # n
      BY <2>4 DEF Agree
    <3>. QED
      BY <1>4, <2>1, <2>2, <2>4, <3>1
  <2>. QED
    BY <2>3, <2>4
<1>. QED
  BY <1>6, <1>7

(* The number that was drawn replaces the one that the channel was known by.*)
(* Its SUBSCRIBE is under way: it cannot be in the database as long as the  *)
(* other is.                                                                *)
LEMMA AgreeRecords ==
  ASSUME NEW d, NEW F, NEW H, NEW K, NEW L, NEW a, NEW n, NEW top,
         NEW c0 \in Channel, NEW i0 \in Ids,
         Agree(d, F, H, L, a, top, n),
         i0 \in H[c0], \A i \in H[c0] : i \in Ids /\ i <= i0,
         a[i0 + 1].conn = n,
         \A i, j \in Ids : d[i] # Null /\ d[i] = d[j] => i = j,
         d[i0] # Null => \A f \in F : f.receipt # 0 => i0 + 1 <= f.receipt,
         \A f \in F : f.command = "SUBSCRIBE"
                        => f.receipt = f.id + 1 /\ f.receipt # 0,
         \A ch \in Channel, i \in Ids :
           i \in K[ch] <=> IF ch = c0 THEN i = i0 ELSE i \in H[ch]
  PROVE  Agree(d, F, K, L, a, top, n)
<1>1. IsMade(d, F, c0, i0)
  BY DEF Agree
<1>2. c0 # Null
  BY ClientAssumption
<1>3. ASSUME NEW i \in Ids, i \in H[c0], i # i0, IsMade(d, F, c0, i)
      PROVE  IsEnding(F, L, c0, i)
  <2>1. i < i0
    BY <1>3, NumberTypes
  <2>2. CASE d[i0] = c0
    <3>1. d[i] # c0
      BY <1>2, <1>3, <2>2
    <3>2. PICK f \in F : f.command = "SUBSCRIBE" /\ f.id = i
      BY <1>3, <3>1 DEF IsMade, ToSubscribe
    <3>3. f.receipt = i + 1 /\ i0 + 1 <= f.receipt
      BY <1>2, <2>2, <3>2
    <3>. QED
      BY <2>1, <3>3, NumberTypes
  <2>3. CASE ToSubscribe(F, c0, i0)
    BY <2>1, <2>3 DEF IsEnding
  <2>. QED
    BY <1>1, <2>2, <2>3 DEF IsMade
<1>. SUFFICES ASSUME NEW ch \in Channel, NEW i \in Ids
              PROVE  /\ i \in K[ch] => i \in H[ch]
                     /\ IsMade(d, F, ch, i) /\ i \in H[ch]
                          => i \in K[ch] \/ IsEnding(F, L, ch, i)
  BY DEF Agree
<1>. QED
  BY <1>3

(* The frame that ends a subscription is sent, under a new number.          *)
LEMMA AgreeSends ==
  ASSUME NEW d, NEW F, NEW H, NEW L, NEW M, NEW a, NEW b, NEW n, NEW top \in Nat,
         Agree(d, F, H, L, a, top, n), \A i \in Ids : i < top => i + 1 \in Ids,
         NEW f, a[f.receipt] = NotAsked, n # NoSocket,
         \A r \in Ids : r # f.receipt => b[r] = a[r],
         \A ch \in Channel : \A i \in H[ch] :
           i + 1 \in Ids /\ a[i + 1] # NotAsked,
         \A i \in L : f.command = "UNSUBSCRIBE" /\ f.id = i,
         f.command # "SUBSCRIBE"
  PROVE  Agree(d, F \cup {f}, H, M, b, top, n)
<1>1. \A ch, i : ToSubscribe(F \cup {f}, ch, i) <=> ToSubscribe(F, ch, i)
  BY DEF ToSubscribe
<1>2. \A i : ToEnd(F, i) \/ i \in L => ToEnd(F \cup {f}, i)
  BY DEF ToEnd
<1>3. \A ch \in Channel, i \in Ids :
        IsEnding(F, L, ch, i) => IsEnding(F \cup {f}, M, ch, i)
  BY <1>1, <1>2 DEF IsEnding
<1>4. \A ch \in Channel, i \in Ids :
        IsMade(d, F \cup {f}, ch, i) <=> IsMade(d, F, ch, i)
  BY <1>1 DEF IsMade
<1>5. ASSUME NEW ch \in Channel, NEW i \in Ids,
             i \in H[ch] \/ IsMade(d, F, ch, i)
      PROVE  b[i + 1] = a[i + 1]
  <2>1. i + 1 \in Ids /\ a[i + 1] # NotAsked
    <3>1. CASE IsMade(d, F, ch, i)
      <4>1. i < top /\ a[i + 1] = [text |-> Joined(ch), conn |-> n]
        BY <3>1 DEF Agree
      <4>. QED
        BY <4>1 DEF NotAsked
    <3>. QED
      BY <1>5, <3>1
  <2>. QED
    BY <2>1
<1>. QED
  BY <1>3, <1>4, <1>5, ZenonT(60) DEF Agree

LEMMA AgreeAdds ==
  ASSUME NEW d, NEW F, NEW H, NEW L, NEW a, NEW top, NEW n,
         Agree(d, F, H, L, a, top, n),
         NEW c0 \in Channel, NEW i0 \in Ids,
         d \in [Ids -> Channel \cup {Null}], d[i0] = Null,
         ToSubscribe(F, c0, i0),
         NEW e, e = [d EXCEPT ![i0] = c0]
  PROVE  Agree(e, F, H, L, a, top, n)
<1>1. ASSUME NEW ch \in Channel, NEW i \in Ids
      PROVE  IsMade(e, F, ch, i) <=> IsMade(d, F, ch, i)
  <2>1. CASE i = i0
    BY <2>1, ClientAssumption DEF IsMade
  <2>2. CASE i # i0
    BY <2>2 DEF IsMade
  <2>. QED
    BY <2>1, <2>2
<1>. QED
  BY <1>1 DEF Agree

LEMMA AgreeRemoves ==
  ASSUME NEW d, NEW F, NEW H, NEW L, NEW a, NEW top, NEW n,
         Agree(d, F, H, L, a, top, n), NEW i0 \in Ids,
         d \in [Ids -> Channel \cup {Null}],
         \A ch \in Channel : i0 \notin H[ch],
         NEW e, e = [d EXCEPT ![i0] = Null]
  PROVE  Agree(e, F, H, L, a, top, n)
<1>1. ASSUME NEW ch \in Channel, NEW i \in Ids
      PROVE  /\ IsMade(e, F, ch, i) => IsMade(d, F, ch, i)
             /\ i # i0 /\ IsMade(d, F, ch, i) => IsMade(e, F, ch, i)
  <2>1. CASE i = i0
    BY <2>1, ClientAssumption DEF IsMade
  <2>2. CASE i # i0
    BY <2>2 DEF IsMade
  <2>. QED
    BY <2>1, <2>2
<1>. QED
  BY <1>1 DEF Agree

(* The first frame was answered, and what it asks for is done.              *)
LEMMA AgreePops ==
  ASSUME NEW d, NEW G, NEW H, NEW L, NEW a, NEW top, NEW n, NEW h,
         Agree(d, G \cup {h}, H, L, a, top, n),
         h.command = "SUBSCRIBE"
           => h.receipt = h.id + 1 /\ d[h.id] = h.destination,
         h.command = "UNSUBSCRIBE"
           => /\ h.id \in Nat /\ h.receipt \in Nat
              /\ h.id + 1 < h.receipt /\ d[h.id] = Null,
         \A i, j \in Ids : d[i] # Null /\ d[i] = d[j] => i = j,
         \A f \in G : f.command = "SUBSCRIBE" =>
           /\ f.receipt = f.id + 1
           /\ h.command \in {"SUBSCRIBE", "UNSUBSCRIBE"} => h.receipt < f.receipt
  PROVE  Agree(d, G, H, L, a, top, n)
<1>. DEFINE F == G \cup {h}
<1>0. \A g : g \in F <=> g \in G \/ g = h
  OBVIOUS
<1>. HIDE DEF F
<1>1. CASE h.command \notin {"SUBSCRIBE", "UNSUBSCRIBE"}
  BY <1>0, <1>1, AgreeBesides DEF F
<1>2. CASE h.command = "SUBSCRIBE"
  <2>1. \A ch, i : ToSubscribe(F, ch, i)
          <=> ToSubscribe(G, ch, i) \/ (ch = h.destination /\ i = h.id)
    BY <1>0, <1>2 DEF ToSubscribe
  <2>2. \A i : ToEnd(F, i) <=> ToEnd(G, i)
    BY <1>0, <1>2 DEF ToEnd
  <2>3. \A ch, i : IsMade(d, F, ch, i) <=> IsMade(d, G, ch, i)
    BY <1>2, <2>1 DEF IsMade
  <2>4. ASSUME NEW ch \in Channel, NEW i \in Ids, IsMade(d, G, ch, i),
               IsEnding(F, L, ch, i)
        PROVE  IsEnding(G, L, ch, i)
    <3>1. CASE i \in L \/ ToEnd(F, i)
      BY <2>2, <3>1 DEF IsEnding
    <3>2. ASSUME NEW j \in Ids, j > i, ToSubscribe(F, ch, j)
          PROVE  IsEnding(G, L, ch, i)
      <4>1. CASE ToSubscribe(G, ch, j)
        BY <3>2, <4>1 DEF IsEnding
      <4>2. CASE ch = h.destination /\ j = h.id
        <5>1. d[j] = ch /\ ch # Null /\ i # j
          BY <1>2, <3>2, <4>2, ClientAssumption, NumberTypes
        <5>2. d[i] # ch
          BY <5>1
        <5>3. PICK f \in G : f.command = "SUBSCRIBE" /\ f.id = i
          BY <2>4, <5>2 DEF IsMade, ToSubscribe
        <5>4. h.receipt = j + 1 /\ f.receipt = i + 1 /\ h.receipt < f.receipt
          BY <1>2, <4>2, <5>3
        <5>. QED
          BY <3>2, <5>4, NumberTypes
      <4>. QED
        BY <2>1, <3>2, <4>1, <4>2
    <3>. QED
      BY <2>4, <3>1, <3>2 DEF IsEnding
  <2>. QED
    BY <2>3, <2>4 DEF Agree, F
<1>3. CASE h.command = "UNSUBSCRIBE"
  <2>1. \A ch, i : ToSubscribe(F, ch, i) <=> ToSubscribe(G, ch, i)
    BY <1>0, <1>3 DEF ToSubscribe
  <2>2. \A i : ToEnd(F, i) <=> ToEnd(G, i) \/ i = h.id
    BY <1>0, <1>3 DEF ToEnd
  <2>3. \A ch, i : IsMade(d, F, ch, i) <=> IsMade(d, G, ch, i)
    BY <2>1 DEF IsMade
  <2>4. ASSUME NEW ch \in Channel, IsMade(d, G, ch, h.id)
        PROVE  FALSE
    <3>1. d[h.id] # ch
      BY <1>3, ClientAssumption
    <3>2. PICK f \in G : f.command = "SUBSCRIBE" /\ f.id = h.id
      BY <2>4, <3>1 DEF IsMade, ToSubscribe
    <3>3. f.receipt = h.id + 1 /\ h.receipt < f.receipt
      BY <1>3, <3>2
    <3>. QED
      BY <1>3, <3>3
  <2>5. ASSUME NEW ch \in Channel, NEW i \in Ids, IsMade(d, G, ch, i),
               IsEnding(F, L, ch, i)
        PROVE  IsEnding(G, L, ch, i)
    <3>1. i # h.id
      BY <2>4, <2>5
    <3>. QED
      BY <2>1, <2>2, <2>5, <3>1 DEF IsEnding
  <2>. QED
    BY <2>3, <2>5 DEF Agree, F
<1>. QED
  BY <1>1, <1>2, <1>3

(* No frame of s has the number of a subscription of d, but the first one   *)
(* if g.                                                                    *)
Once(d, s, g) ==
  \A j \in Ids : d[j] # Null =>
    \A k \in DOMAIN s :
      s[k].receipt # 0
        => j + 1 < s[k].receipt \/ (k = 1 /\ j + 1 = s[k].receipt /\ g)

LEMMA FramesAppended ==
  ASSUME NEW s \in Seq(Frame), NEW f \in Frame
  PROVE  /\ FramesOf(Append(s, f)) = FramesOf(s) \cup {f}
         /\ \A k \in DOMAIN Append(s, f) :
              \/ k \in DOMAIN s /\ Append(s, f)[k] = s[k]
              \/ k = Len(s) + 1 /\ Append(s, f)[k] = f
<1>1. /\ DOMAIN s = 1 .. Len(s) /\ Len(s) \in Nat
      /\ DOMAIN Append(s, f) = 1 .. Len(s) + 1
      /\ \A k \in 1 .. Len(s) : Append(s, f)[k] = s[k]
      /\ Append(s, f)[Len(s) + 1] = f
  OBVIOUS
<1>2. \A k : k \in 1 .. Len(s) + 1 <=> k \in 1 .. Len(s) \/ k = Len(s) + 1
  BY <1>1
<1>3. \A k \in DOMAIN Append(s, f) :
        \/ k \in DOMAIN s /\ Append(s, f)[k] = s[k]
        \/ k = Len(s) + 1 /\ Append(s, f)[k] = f
  BY <1>1, <1>2
<1>4. \A k \in DOMAIN s : k \in DOMAIN Append(s, f) /\ Append(s, f)[k] = s[k]
  BY <1>1, <1>2
<1>5. Len(s) + 1 \in DOMAIN Append(s, f) /\ Append(s, f)[Len(s) + 1] = f
  BY <1>1
<1>. QED
  BY <1>3, <1>4, <1>5 DEF FramesOf

LEMMA FramesPushed ==
  ASSUME NEW w \in Seq(Frame), NEW h \in Frame, NEW s, s = <<h>> \o w
  PROVE  /\ FramesOf(s) = FramesOf(w) \cup {h}
         /\ 1 \in DOMAIN s /\ s[1] = h
         /\ \A k \in DOMAIN w : k + 1 \in DOMAIN s /\ s[k + 1] = w[k] /\ k + 1 > 1
<1>1. /\ DOMAIN w = 1 .. Len(w) /\ Len(w) \in Nat
      /\ DOMAIN s = 1 .. Len(w) + 1
      /\ s[1] = h /\ \A k \in 1 .. Len(w) : s[k + 1] = w[k]
  OBVIOUS
<1>2. \A k \in 1 .. Len(w) : k + 1 \in 1 .. Len(w) + 1 /\ k + 1 > 1
  BY <1>1
<1>3. \A k \in DOMAIN w : k + 1 \in DOMAIN s /\ s[k + 1] = w[k] /\ k + 1 > 1
  BY <1>1, <1>2
<1>4. ASSUME NEW k \in DOMAIN s
      PROVE  s[k] = h \/ \E j \in DOMAIN w : s[k] = w[j]
  <2>1. CASE k = 1
    BY <1>1, <2>1
  <2>2. CASE k # 1
    <3>1. k - 1 \in DOMAIN w /\ k = (k - 1) + 1
      BY <1>1, <2>2
    <3>. QED
      BY <1>3, <3>1
  <2>. QED
    BY <2>1, <2>2
<1>5. 1 \in DOMAIN s /\ s[1] = h
  BY <1>1
<1>6. \A f : (\E k \in DOMAIN s : f = s[k])
              <=> f = h \/ \E j \in DOMAIN w : f = w[j]
  <2>1. TAKE f
  <2>2. ASSUME NEW k \in DOMAIN s, f = s[k]
        PROVE  f = h \/ \E j \in DOMAIN w : f = w[j]
    BY ONLY <1>4, <2>2
  <2>3. ASSUME NEW j \in DOMAIN w, f = w[j]
        PROVE  \E k \in DOMAIN s : f = s[k]
    BY ONLY <1>3, <2>3
  <2>4. f = h => \E k \in DOMAIN s : f = s[k]
    BY ONLY <1>5
  <2>. QED
    BY ONLY <2>2, <2>3, <2>4
<1>7. FramesOf(s) = FramesOf(w) \cup {h}
  BY <1>6 DEF FramesOf
<1>. QED
  BY <1>3, <1>5, <1>7

LEMMA OnceAppend ==
  ASSUME NEW d, NEW s \in Seq(Frame), NEW g, NEW f \in Frame, Once(d, s, g),
         \A j \in Ids : d[j] # Null /\ f.receipt # 0 => j + 1 < f.receipt
  PROVE  Once(d, Append(s, f), g)
BY FramesAppended DEF Once

LEMMA OnceLess ==
  ASSUME NEW d, NEW e, NEW s, NEW g, NEW i, Once(d, s, g),
         \A j \in Ids : e[j] # Null => d[j] # Null,
         g => i
  PROVE  Once(e, s, i)
BY DEF Once

LEMMA OncePops ==
  ASSUME NEW d, NEW w \in Seq(Frame), NEW h \in Frame, NEW g,
         Once(d, <<h>> \o w, g)
  PROVE  Once(d, w, FALSE)
<1>. PICK s : s = <<h>> \o w
  OBVIOUS
<1>1. \A k \in DOMAIN w : k + 1 \in DOMAIN s /\ s[k + 1] = w[k] /\ k + 1 # 1
  BY FramesPushed
<1>. QED
  BY <1>1, ZenonT(60) DEF Once

LEMMA OnceAdds ==
  ASSUME NEW d \in [Ids -> Channel \cup {Null}], NEW s \in Seq(Frame),
         NEW i0 \in Ids, NEW c0, NEW g, InOrder(s), Once(d, s, g),
         1 \in DOMAIN s => s[1].receipt = i0 + 1
  PROVE  Once([d EXCEPT ![i0] = c0], s, TRUE)
<1>1. ASSUME NEW k \in DOMAIN s, s[k].receipt # 0, k # 1
      PROVE  i0 + 1 < s[k].receipt
  <2>1. k \in Nat /\ 1 < k /\ 1 \in DOMAIN s
    BY <1>1
  <2>2. i0 + 1 # 0
    BY NumberTypes
  <2>. QED
    BY <1>1, <2>1, <2>2 DEF InOrder
<1>2. \A k \in DOMAIN s : s[k].receipt # 0
        => i0 + 1 < s[k].receipt \/ (k = 1 /\ i0 + 1 = s[k].receipt)
  BY <1>1
<1>3. \A j \in Ids : j # i0 => [d EXCEPT ![i0] = c0][j] = d[j]
  OBVIOUS
<1>. QED
  BY <1>2, <1>3 DEF Once

(* CONNECT is the first frame of all.                                       *)
LEMMA ConnectIsFirst ==
  ASSUME NEW w \in Seq(Frame), NEW h \in Frame, InOrder(<<h>> \o w)
  PROVE  /\ \A k \in DOMAIN w : w[k].command # "CONNECT"
         /\ \A f \in FramesOf(w) : h.receipt # 0 /\ f.receipt # 0
              => h.receipt < f.receipt
<1>. PICK s : s = <<h>> \o w
  OBVIOUS
<1>1. /\ 1 \in DOMAIN s /\ s[1] = h
      /\ \A k \in DOMAIN w : k + 1 \in DOMAIN s /\ s[k + 1] = w[k] /\ k + 1 > 1
  BY FramesPushed
<1>2. \A k \in DOMAIN s : /\ s[k].command = "CONNECT" => k = 1
                          /\ 1 < k /\ s[1].receipt # 0 /\ s[k].receipt # 0
                               => s[1].receipt < s[k].receipt
  BY <1>1 DEF InOrder
<1>3. \A k \in DOMAIN w : k + 1 # 1 /\ 1 < k + 1
  BY <1>1
<1>. QED
  BY <1>1, <1>2, <1>3 DEF FramesOf

-----------------------------------------------------------------------------
(* The two halves of the invariant that are about subscriptions, as values. *)

Known == [ch \in Channel |-> {i \in Ids : Holds(ch, i)}]
Given == {i \in Ids : /\ kpc = "sendFrame" /\ kframe.command = "UNSUBSCRIBE"
                      /\ kframe.id = i}
BroadcastTo(n) ==
  \A ch \in Channel : n \in dbChannels[ch]
    => \E i \in Ids : Server!Details(n)[i] = ch

Agreed(n) ==
  /\ Agree(Server!Details(n), FramesOf(toServer[n]), Known, Given, asked,
           subscriptionId, n)
  /\ Once(Server!Details(n), toServer[n], Granted(n))
  /\ BroadcastTo(n)

ValuesFit ==
  \A n \in Conn :
    sock = n => (SubscriptionsAgree /\ SubscribedOnce <=> (Live => Agreed(n)))

LEMMA AsValues == ValuesFit
<1>. SUFFICES ASSUME NEW n \in Conn, sock = n
              PROVE  SubscriptionsAgree /\ SubscribedOnce <=> (Live => Agreed(n))
  BY DEF ValuesFit
<1>. DEFINE d == Server!Details(n)
            F == FramesOf(toServer[n])
<1>1. \A ch, i : Subscribing(ch, i) <=> ToSubscribe(F, ch, i)
  BY DEF Subscribing, ToSubscribe, FramesOf
<1>2. \A ch, i : Made(ch, i) <=> IsMade(d, F, ch, i)
  BY <1>1 DEF Made, IsMade, ChannelOf
<1>3. \A i : (\E k \in DOMAIN toServer[n] : /\ toServer[n][k].command = "UNSUBSCRIBE"
                                            /\ toServer[n][k].id = i)
               <=> ToEnd(F, i)
  BY DEF ToEnd, FramesOf
<1>4. \A ch \in Channel, i \in Ids : Ending(ch, i) <=> IsEnding(F, Given, ch, i)
  BY <1>1, <1>3 DEF Ending, IsEnding, Given
<1>5. \A ch \in Channel, i \in Ids : Holds(ch, i) <=> i \in Known[ch]
  BY DEF Known
<1>. HIDE DEF d, F
<1>6. SubscriptionsAgree <=> (Live => Agree(d, F, Known, Given, asked,
                                            subscriptionId, n))
  BY <1>2, <1>4, <1>5 DEF SubscriptionsAgree, Agree
<1>7. SubscribedOnce <=> (Live => Once(d, toServer[n], Granted(n)) /\ BroadcastTo(n))
  BY DEF SubscribedOnce, Once, BroadcastTo, ChannelOf, d
<1>. QED
  BY <1>6, <1>7 DEF Agreed, d, F

LEMMA AsValuesNext ==
  ASSUME NEW n \in Conn, sock' = n, Live' => Agreed(n)'
  PROVE  SubscriptionsAgree' /\ SubscribedOnce'
<1>1. ValuesFit'
  BY AsValues, PTL
<1>. QED
  BY <1>1 DEF ValuesFit

LEMMA NotLive ==
  ASSUME ~Live'
  PROVE  SubscriptionsAgree' /\ SubscribedOnce'
BY DEF SubscriptionsAgree, SubscribedOnce

-----------------------------------------------------------------------------
(* The invariant of the system, and what it says of a connection.           *)

SystemIInv == ClientInv /\ SP!IInv /\ SidesInv /\ FramesInv /\ AgreementInv

(* The client counts its ids from 1.                                        *)
LEMMA NoMinusOne ==
  ASSUME NEW n \in Conn
  PROVE  SP!NeverMinusOne(n)
<1>1. ASSUME NEW f \in SomeFrames
      PROVE  f.id \in {0} \cup Ids
  <2>1. \/ f = Plain("CONNECT") \/ f = Disconnect(1)
        \/ \E ch \in Channel : f = Send(ch)
        \/ \E ch \in Channel, i \in Ids : f = Subscribe(ch, i, 1)
        \/ \E i \in Ids : f = Unsubscribe(i, 1)
    BY DEF SomeFrames
  <2>2. CASE f = Plain("CONNECT") \/ f = Disconnect(1)
    BY <2>2 DEF Plain, Disconnect
  <2>3. ASSUME NEW ch \in Channel, f = Send(ch)
        PROVE  f.id = 0
    BY <2>3 DEF Send, Plain
  <2>4. ASSUME NEW ch \in Channel, NEW i \in Ids, f = Subscribe(ch, i, 1)
        PROVE  f.id = i
    BY <2>4 DEF Subscribe, Plain
  <2>5. ASSUME NEW i \in Ids, f = Unsubscribe(i, 1)
        PROVE  f.id = i
    BY <2>5 DEF Unsubscribe, Plain
  <2>. QED
    BY <2>1, <2>2, <2>3, <2>4, <2>5
<1>2. -1 \notin Ids
  BY NumberTypes
<1>3. ASSUME NEW f \in SomeFrames
      PROVE  Parsed(f).id # -1
  BY <1>1, <1>2, SystemAssumption DEF Parsed
<1>. QED
  BY <1>3 DEF SP!NeverMinusOne

LEMMA DatabaseTypes ==
  ASSUME SP!IInv, NEW n \in Conn
  PROVE  /\ Server!Details(n) \in [Ids -> Channel \cup {Null}]
         /\ \A i, j \in Ids : Server!Details(n)[i] # Null
              /\ Server!Details(n)[i] = Server!Details(n)[j] => i = j
         /\ dbChannels \in [Channel -> SUBSET Conn]
         /\ idToUser \in [Conn -> {"user", Null}]
         /\ connectedUsers \subseteq {"user"}
         /\ subscriptionsDetails \in [Conn -> [Ids -> Channel \cup {Null}] \cup {Null}]
<1>1. Conn = SP!Conn /\ SP!DbTypeOK
  BY DEF Conn, SP!Conn, SP!IInv, SP!TypeOK
<1>2. SP!Details(n) \in [Ids -> Channel \cup {Null}]
  BY <1>1, ServerAssumptions, SP!DetailsType
<1>3. \A i, j \in Ids : SP!Details(n)[i] # Null
        /\ SP!Details(n)[i] = SP!Details(n)[j] => i = j
  BY <1>1, NoMinusOne DEF SP!IInv, SP!OneIdPerChannel
<1>. QED
  BY <1>1, <1>2, <1>3, SameReaders DEF SP!DbTypeOK, User

LEMMA ServerDataStays ==
  ASSUME UNCHANGED serverVars
  PROVE  /\ UNCHANGED <<pc, respond, dbChannels, subscriptionsDetails,
                        connectedUsers, idToUser>>
         /\ \A n : /\ Server!Details(n)' = Server!Details(n)
                   /\ BroadcastTo(n)' <=> BroadcastTo(n)
                   /\ Granted(n)' = Granted(n)
                   /\ LoggedIn(n)' <=> LoggedIn(n)
<1>1. UNCHANGED <<pc, respond, dbChannels, subscriptionsDetails,
                  connectedUsers, idToUser>>
  BY DEF serverVars
<1>2. \A n : Server!Details(n)' = Server!Details(n)
  BY <1>1 DEF Server!Details, Server!NoDetails
<1>. QED
  BY <1>1, <1>2 DEF BroadcastTo, Granted, LoggedIn

(* A channel is known by a number that was drawn and asked for.             *)
LEMMA HeldNumbers ==
  ASSUME ClientInv, FramesInv, NEW ch \in Channel, NEW i \in Known[ch]
  PROVE  /\ i \in Ids /\ i + 1 \in Ids /\ i + 1 <= subscriptionId
         /\ asked[i + 1].text = Joined(ch) /\ asked[i + 1] # NotAsked
<1>1. i \in Ids /\ i # 0 /\ Holds(ch, i)
  BY NumberTypes DEF Known
<1>2. /\ subscriptionId \in Nat /\ typed \in 0 .. MaxLines
      /\ subscriptionId <= 2 * typed
  BY DEF ClientInv, ClientTypeOK, SharedTypeOK, ThreadTypeOK, NumbersAreFresh
<1>3. i + 1 <= subscriptionId /\ asked[i + 1].text = Joined(ch)
  <2>1. CASE channels[ch] = i
    BY <1>1, <2>1 DEF FramesInv, Drawn
  <2>2. CASE kpc = "recordJoin" /\ line.channel = ch /\ kframe.id = i
    <3>1. /\ kframe.receipt = i + 1 /\ kframe.receipt \in 1 .. subscriptionId
          /\ asked[kframe.receipt].text = TextOf(line)
          /\ line.command = "join"
      BY <2>2 DEF FramesInv, Drawn, ClientInv, InHand, LineLabels
    <3>2. TextOf(line) = Joined(ch)
      BY <2>2, <3>1 DEF TextOf, Joined
    <3>. QED
      BY <1>2, <3>1, <3>2
  <2>. QED
    BY <1>1, <2>1, <2>2 DEF Holds
<1>4. i + 1 \in Ids
  BY <1>1, <1>2, <1>3, NumberTypes DEF Ids
<1>5. Joined(ch) # NotAsked.text
  <2>1. Joined(ch).what = "Joined channel" /\ NotAsked.text.what = ""
    BY DEF Joined, NotAsked, NoText
  <2>. QED
    BY <2>1
<1>. QED
  BY <1>1, <1>3, <1>4, <1>5

(* What was asked for stays so.                                             *)
LEMMA AskedStays ==
  ASSUME ClientInv, Keyboard \/ ServerThread \/ mainReturns
  PROVE  \A r \in Ids : asked[r] # NotAsked => asked'[r] = asked[r]
<1>. USE DEF flags, maps, sending
<1>1. CASE UNCHANGED asked
  BY <1>1
<1>2. ASSUME NEW f, Ask(f), asked[f.receipt] = NotAsked
      PROVE  \A r \in Ids : asked[r] # NotAsked => asked'[r] = asked[r]
  BY <1>2 DEF Ask, ClientInv, ClientTypeOK, NetTypeOK
<1>3. CASE joinHendel
  <2>1. kpc = "join" /\ Ask(kframe') /\ kframe'.receipt = subscriptionId + 2
    BY <1>3 DEF joinHendel, Subscribe, Plain
  <2>. QED
    BY <1>2, <2>1, NextNumber
<1>4. CASE sendFrame
  BY <1>2, <1>4 DEF sendFrame, ClientInv, InHand
<1>5. CASE mainReturns \/ ServerThread
  <2>1. CASE mainReturns
    BY <1>1, <2>1 DEF mainReturns
  <2>2. CASE \/ handleServer \/ getFrameAscii \/ messageHendel \/ receiptHendel
             \/ loggedOut \/ close \/ clearConect \/ erorHendl \/ clearConnected
    BY <1>1, <2>2 DEF handleServer, getFrameAscii, messageHendel, receiptHendel,
       loggedOut, close, clearConect, erorHendl, clearConnected
  <2>. QED
    BY <1>5, <2>1, <2>2 DEF ServerThread
<1>6. CASE \/ handleKeyboard \/ getline \/ badPort \/ connectFails \/ connect
           \/ setConect \/ sendConnect \/ setConnected \/ recordJoin
           \/ bareExit \/ notSubscribed \/ exitHendel \/ logoutHendel
           \/ recordLogout \/ badFile \/ reportHendel \/ summaryHendel
  BY <1>1, <1>6 DEF handleKeyboard, getline, badPort, connectFails, connect,
     setConect, sendConnect, setConnected, recordJoin, bareExit, notSubscribed,
     exitHendel, logoutHendel, recordLogout, badFile, reportHendel,
     summaryHendel
<1>. QED
  BY <1>3, <1>4, <1>5, <1>6 DEF Keyboard

LEMMA LiveWas ==
  ASSUME UNCHANGED <<sock, peer>>, Live',
         \A r \in Ids : asked[r] # NotAsked => asked'[r] = asked[r]
  PROVE  Live
<1>1. \A n : [text |-> LoggedOut, conn |-> n] # NotAsked
  <2>1. LoggedOut.what = "Logged out" /\ NotAsked.text.what = ""
    BY DEF LoggedOut, NotAsked, NoText
  <2>2. LoggedOut # NotAsked.text
    BY <2>1
  <2>. QED
    BY <2>2
<1>. QED
  BY <1>1 DEF Live, Serves

-----------------------------------------------------------------------------
(* What the client does to the subscriptions of its connection.             *)

LEMMA SameKnown ==
  ASSUME UNCHANGED channels,
         \/ UNCHANGED <<kpc, line, kframe>>
         \/ /\ kpc \notin {"recordJoin", "sendFrame"}
            /\ kpc' \notin {"recordJoin", "sendFrame"}
  PROVE  Known' = Known /\ Given' = Given
<1>1. \A ch, i : Holds(ch, i)' <=> Holds(ch, i)
  BY DEF Holds
<1>2. Given' = Given
  BY DEF Given
<1>. QED
  BY <1>1, <1>2 DEF Known

LEMMA IdleAgreed ==
  ASSUME NEW n \in Conn, Agreed(n), UNCHANGED serverVars,
         UNCHANGED <<toServer, asked, subscriptionId>>,
         Known' = Known, Given' = Given
  PROVE  Agreed(n)'
BY ServerDataStays DEF Agreed

(* What is in the database was drawn.                                       *)
LEMMA HeldBelow ==
  ASSUME SP!IInv, NEW n \in Conn, Agreed(n), NEW j \in Ids,
         Server!Details(n)[j] # Null
  PROVE  /\ j < subscriptionId
         /\ \E ch \in Channel : asked[j + 1] = [text |-> Joined(ch), conn |-> n]
<1>1. PICK ch \in Channel : ch = Server!Details(n)[j]
  BY DatabaseTypes
<1>. QED
  BY <1>1 DEF Agreed, Agree, IsMade

LEMMA PlainAgreed ==
  ASSUME ClientInv, SP!IInv, NEW n \in Conn, Agreed(n), UNCHANGED serverVars,
         NEW f \in Frame, f.receipt = 0, f.command \in {"CONNECT", "SEND"},
         toServer' = [toServer EXCEPT ![n] = Append(@, f)],
         UNCHANGED <<asked, subscriptionId>>,
         Known' = Known, Given' = Given
  PROVE  Agreed(n)'
<1>. PICK s \in Seq(Frame) : s = toServer[n] /\ toServer'[n] = Append(s, f)
  BY ClientTypes
<1>1. FramesOf(toServer'[n]) = FramesOf(s) \cup {f}
  BY FramesAppended
<1>2. Agree(Server!Details(n), FramesOf(s) \cup {f}, Known, Given, asked,
            subscriptionId, n)
  BY AgreeBesides DEF Agreed
<1>3. Once(Server!Details(n), Append(s, f), Granted(n))
  BY OnceAppend DEF Agreed
<1>. QED
  BY <1>1, <1>2, <1>3, ServerDataStays DEF Agreed

LEMMA JoinAgreed ==
  ASSUME ClientInv, FramesInv, SP!IInv, NEW n \in Conn, n = sock, Serves,
         Agreed(n), UNCHANGED serverVars, joinHendel
  PROVE  Agreed(n)'
<1>. PICK top : top = subscriptionId
  OBVIOUS
<1>. PICK c0 : c0 = line.channel
  OBVIOUS
<1>1. kpc = "join" /\ line.command = "join" /\ c0 \in Channel
  BY LineChannel DEF joinHendel, ClientInv, LineLabels, HasArguments, Command
<1>2. top \in Nat /\ top + 1 \in Ids /\ top + 2 \in Ids /\ asked[top + 2] = NotAsked
  BY <1>1, NextNumber
<1>3. PICK f \in Frame :
        /\ f = kframe' /\ f.command = "SUBSCRIBE" /\ f.destination = c0
        /\ f.id = top + 1 /\ f.receipt = top + 2
  <2>1. Subscribe(c0, top + 1, top + 2) \in Frame
    BY <1>1, <1>2, SessionFrames
  <2>2. kframe' = Subscribe(c0, top + 1, top + 2)
    BY DEF joinHendel
  <2>. QED
    BY <2>1, <2>2 DEF Subscribe, Plain
<1>4. PICK s \in Seq(Frame) : s = toServer[n] /\ toServer'[n] = Append(s, f)
  BY <1>3, ClientTypes DEF joinHendel, Ask, sendFrameAscii, Serves
<1>5. /\ asked'[top + 2] = [text |-> Joined(c0), conn |-> n]
      /\ \A r \in Ids : r # top + 2 => asked'[r] = asked[r]
  <2>1. TextOf(line) = Joined(c0)
    BY <1>1 DEF TextOf, Joined
  <2>. QED
    BY <1>2, <1>3, <2>1
    DEF joinHendel, Ask, ClientInv, ClientTypeOK, NetTypeOK
<1>6. \A ch \in Channel, i \in Ids :
        i \in Known'[ch] <=> i \in Known[ch] \/ (ch = c0 /\ i = top + 1)
  BY <1>1, <1>3 DEF Known, Holds, joinHendel
<1>7. Given' = Given /\ subscriptionId' = top + 2
  BY <1>1 DEF Given, joinHendel
<1>8. \A ch \in Channel : \A i \in Known[ch] : i + 1 <= top
  BY HeldNumbers
<1>9. Agree(Server!Details(n), FramesOf(s) \cup {f}, Known', Given, asked',
            top + 2, n)
  <2>1. Agree(Server!Details(n), FramesOf(s), Known, Given, asked, top, n)
    BY <1>4 DEF Agreed
  <2>. QED
    BY <1>1, <1>2, <1>3, <1>5, <1>6, <1>8, <2>1, AgreeJoins, SMTT(30)
<1>10. Once(Server!Details(n), Append(s, f), Granted(n))
  <2>1. \A j \in Ids : Server!Details(n)[j] # Null => j + 1 < top + 2
    BY <1>2, HeldBelow, NumberTypes
  <2>2. Once(Server!Details(n), s, Granted(n))
    BY <1>4 DEF Agreed
  <2>. QED
    BY <1>3, <2>1, <2>2, OnceAppend
<1>. QED
  BY <1>4, <1>7, <1>9, <1>10, FramesAppended, ServerDataStays DEF Agreed

LEMMA RecordAgreed ==
  ASSUME ClientInv, FramesInv, SP!IInv, NEW n \in Conn, n = sock, Serves,
         Agreed(n), UNCHANGED serverVars, recordJoin, UNCHANGED toServer
  PROVE  Agreed(n)'
<1>. PICK i0 : i0 = kframe.id
  OBVIOUS
<1>. PICK c0 : c0 = line.channel
  OBVIOUS
<1>1. /\ kpc = "recordJoin" /\ kpc' = "loop"
      /\ channels' = [channels EXCEPT ![c0] = i0]
      /\ UNCHANGED <<asked, subscriptionId>>
  BY DEF recordJoin, flags, sending
<1>2. /\ c0 \in Channel /\ kframe.receipt = i0 + 1
      /\ asked[i0 + 1].conn = n /\ \A ch \in Channel : channels[ch] < i0
  BY <1>1 DEF FramesInv, Drawn, Serves
<1>3. i0 \in Ids
  <2>1. /\ kframe.id \in 1 .. subscriptionId /\ subscriptionId \in Nat
        /\ typed \in 0 .. MaxLines /\ subscriptionId <= 2 * typed
    BY <1>1 DEF ClientInv, ClientTypeOK, SharedTypeOK, ThreadTypeOK,
       NumbersAreFresh, InHand
  <2>. QED
    BY <2>1, NumberTypes DEF Ids
<1>4. channels \in [Channel -> {0} \cup Ids]
  BY DEF ClientInv, ClientTypeOK, SharedTypeOK
<1>5. i0 \in Known[c0] /\ \A i \in Known[c0] : i \in Ids /\ i <= i0
  BY <1>1, <1>2, <1>3, NumberTypes DEF Known, Holds
<1>6. \A ch \in Channel, i \in Ids :
        i \in Known'[ch] <=> IF ch = c0 THEN i = i0 ELSE i \in Known[ch]
  <2>1. TAKE ch \in Channel, i \in Ids
  <2>2. i \in Known'[ch] <=> channels'[ch] = i
    BY <1>1 DEF Known, Holds
  <2>3. ch # c0 => (i \in Known[ch] <=> channels[ch] = i)
    BY DEF Known, Holds
  <2>. QED
    BY <1>1, <1>2, <1>4, <2>2, <2>3
<1>7. Given' = Given
  BY <1>1 DEF Given
<1>8. ASSUME NEW f \in FramesOf(toServer[n])
      PROVE  /\ Server!Details(n)[i0] # Null /\ f.receipt # 0
                  => i0 + 1 <= f.receipt
             /\ f.command = "SUBSCRIBE" => f.receipt = f.id + 1 /\ f.receipt # 0
  <2>1. PICK k \in DOMAIN toServer[n] : f = toServer[n][k]
    BY DEF FramesOf
  <2>2. Fits(f)
    BY <2>1 DEF FramesInv, OnTheWire
  <2>3. f \in Frame /\ (f.command = "SUBSCRIBE" => f.receipt # 0)
    BY <2>1, <2>2, FrameOnTheWire
  <2>4. f.receipt \in Nat
    BY <2>3, NumberTypes DEF Frame
  <2>5. Server!Details(n)[i0] # Null /\ f.receipt # 0
          => i0 + 1 < f.receipt \/ i0 + 1 = f.receipt
    BY <1>3, <2>1 DEF Agreed, Once
  <2>6. f.command = "SUBSCRIBE" => f.receipt = f.id + 1
    BY <2>2 DEF Fits
  <2>7. i0 + 1 \in Nat
    BY <1>3, NumberTypes
  <2>. QED
    BY <2>3, <2>4, <2>5, <2>6, <2>7
<1>9. Agree(Server!Details(n), FramesOf(toServer[n]), Known', Given, asked,
            subscriptionId, n)
  <2>1. Agree(Server!Details(n), FramesOf(toServer[n]), Known, Given, asked,
              subscriptionId, n)
    BY DEF Agreed
  <2>2. \A i, j \in Ids : Server!Details(n)[i] # Null
          /\ Server!Details(n)[i] = Server!Details(n)[j] => i = j
    BY DatabaseTypes
  <2>3. Server!Details(n)[i0] # Null
          => \A f \in FramesOf(toServer[n]) : f.receipt # 0 => i0 + 1 <= f.receipt
    BY <1>8
  <2>4. \A f \in FramesOf(toServer[n]) :
          f.command = "SUBSCRIBE" => f.receipt = f.id + 1 /\ f.receipt # 0
    BY <1>8
  <2>. QED
    BY ONLY <1>2, <1>3, <1>5, <1>6, <2>1, <2>2, <2>3, <2>4, AgreeRecords
<1>. QED
  BY <1>1, <1>7, <1>9, ServerDataStays DEF Agreed

LEMMA DrawAgreed ==
  ASSUME ClientInv, NEW n \in Conn, Agreed(n), UNCHANGED serverVars,
         UNCHANGED <<toServer, asked>>, subscriptionId' = subscriptionId + 1,
         \A ch \in Channel, i \in Ids :
           /\ i \in Known'[ch] => i \in Known[ch]
           /\ i \in Known[ch] => i \in Known'[ch] \/ i \in Given'
           /\ i \in Given => i \in Given'
  PROVE  Agreed(n)'
<1>. PICK top : top = subscriptionId
  OBVIOUS
<1>1. top \in Nat /\ top + 1 \in Nat /\ top <= top + 1
  BY DEF ClientInv, ClientTypeOK, SharedTypeOK
<1>2. Agree(Server!Details(n), FramesOf(toServer[n]), Known', Given', asked,
            top + 1, n)
  <2>1. Agree(Server!Details(n), FramesOf(toServer[n]), Known, Given, asked,
              top, n)
    BY DEF Agreed
  <2>2. \A ch \in Channel, i \in Ids :
          /\ i \in Known'[ch] => i \in Known[ch]
          /\ i \in Known[ch] => i \in Known'[ch] \/ i \in Given'
          /\ i \in Given => i \in Given'
    OBVIOUS
  <2>. QED
    BY ONLY <1>1, <2>1, <2>2, AgreeForgets
<1>. QED
  BY <1>2, ServerDataStays DEF Agreed

LEMMA ExitAgreed ==
  ASSUME ClientInv, SP!IInv, NEW n \in Conn, Agreed(n), UNCHANGED serverVars,
         exitHendel
  PROVE  Agreed(n)'
<1>1. /\ kpc = "exit" /\ kpc' = "sendFrame"
      /\ subscriptionId' = subscriptionId + 1
      /\ kframe' = Unsubscribe(channels[line.channel], subscriptionId + 1)
      /\ channels' = [channels EXCEPT ![line.channel] = 0]
      /\ UNCHANGED <<toServer, asked>>
  BY DEF exitHendel, flags, sending
<1>2. kframe'.command = "UNSUBSCRIBE" /\ kframe'.id = channels[line.channel]
  BY <1>1 DEF Unsubscribe, Plain
<1>3. channels \in [Channel -> {0} \cup Ids] /\ \A i \in Ids : i # 0
  BY NumberTypes DEF ClientInv, ClientTypeOK, SharedTypeOK
<1>4. ASSUME NEW ch \in Channel, NEW i \in Ids
      PROVE  /\ i \in Known[ch] <=> channels[ch] = i
             /\ i \in Known'[ch] <=> channels'[ch] = i
             /\ i \in Given' <=> i = channels[line.channel]
             /\ i \notin Given
  BY <1>1, <1>2 DEF Known, Holds, Given
<1>5. \A ch \in Channel, i \in Ids :
        /\ i \in Known'[ch] => i \in Known[ch]
        /\ i \in Known[ch] => i \in Known'[ch] \/ i \in Given'
        /\ i \in Given => i \in Given'
  BY <1>1, <1>3, <1>4
<1>. QED
  BY <1>1, <1>5, DrawAgreed

LEMMA LogoutAgreed ==
  ASSUME ClientInv, SP!IInv, NEW n \in Conn, Agreed(n), UNCHANGED serverVars,
         recordLogout
  PROVE  Agreed(n)'
<1>1. /\ kpc = "recordLogout" /\ kpc' = "sendFrame"
      /\ subscriptionId' = subscriptionId + 1
      /\ UNCHANGED <<toServer, asked, channels>>
  BY DEF recordLogout, flags, sending
<1>2. Known' = Known
  BY <1>1 DEF Known, Holds
<1>3. \A i \in Ids : i \notin Given
  BY <1>1 DEF Given
<1>. QED
  BY <1>1, <1>2, <1>3, DrawAgreed

LEMMA SendAgreed ==
  ASSUME ClientInv, FramesInv, SP!IInv, NEW n \in Conn, n = sock, sock' = n,
         Live', Serves, Agreed(n), UNCHANGED serverVars, sendFrame
  PROVE  Agreed(n)'
<1>. PICK top : top = subscriptionId
  OBVIOUS
<1>1. /\ kpc = "sendFrame" /\ kpc' = "loop" /\ Ask(kframe)
      /\ UNCHANGED <<channels, subscriptionId, kframe>>
  BY DEF sendFrame, flags, maps
<1>2. PICK f \in Frame : /\ f = kframe /\ f.receipt = top
                         /\ f.receipt \in 1 .. top /\ asked[top] = NotAsked
  BY <1>1 DEF ClientInv, ClientTypeOK, ThreadTypeOK, InHand, FramesInv, Drawn
<1>3. top \in Nat /\ top \in Ids /\ \A i \in Ids : i < top => i + 1 \in Ids
  <2>1. top \in Nat /\ typed \in 0 .. MaxLines /\ top <= 2 * typed
    BY DEF ClientInv, ClientTypeOK, SharedTypeOK, ThreadTypeOK, NumbersAreFresh
  <2>. QED
    BY <1>2, <2>1, NumberTypes DEF Ids
<1>4. PICK s \in Seq(Frame) : s = toServer[n] /\ toServer'[n] = Append(s, f)
  BY <1>1, <1>2, ClientTypes DEF Ask, sendFrameAscii, Serves
<1>5. /\ asked'[top] = [text |-> TextOf(line), conn |-> n]
      /\ \A r \in Ids : r # top => asked'[r] = asked[r]
  BY <1>1, <1>2, <1>3 DEF Ask, ClientInv, ClientTypeOK, NetTypeOK
<1>6. f.command = "UNSUBSCRIBE"
  <2>1. line.command # "logout"
    <3>1. SUFFICES ASSUME line.command = "logout" PROVE FALSE
      OBVIOUS
    <3>2. TextOf(line) = LoggedOut
      BY <3>1 DEF TextOf
    <3>. QED
      BY <1>3, <1>5, <3>2 DEF Live
  <2>. QED
    BY <1>1, <1>2, <2>1 DEF FramesInv, Drawn
<1>7. Known' = Known
  BY <1>1 DEF Known, Holds
<1>8. \A i \in Given : f.command = "UNSUBSCRIBE" /\ f.id = i
  BY <1>2 DEF Given
<1>9. \A ch \in Channel : \A i \in Known[ch] :
        i + 1 \in Ids /\ asked[i + 1] # NotAsked
  BY HeldNumbers
<1>10. Agree(Server!Details(n), FramesOf(s) \cup {f}, Known, Given', asked',
             top, n)
  <2>1. Agree(Server!Details(n), FramesOf(s), Known, Given, asked, top, n)
    BY <1>4 DEF Agreed
  <2>2. n # NoSocket /\ f.command # "SUBSCRIBE" /\ asked[f.receipt] = NotAsked
    BY <1>2, <1>6, ClientTypes
  <2>3. \A r \in Ids : r # f.receipt => asked'[r] = asked[r]
    BY <1>2, <1>5
  <2>. QED
    BY ONLY <1>3, <1>8, <1>9, <2>1, <2>2, <2>3, AgreeSends, ZenonT(60)
<1>11. Once(Server!Details(n), Append(s, f), Granted(n))
  <2>1. ASSUME NEW j \in Ids, Server!Details(n)[j] # Null
        PROVE  j + 1 < top
    <3>1. j < top
      BY <2>1, HeldBelow
    <3>2. PICK ch \in Channel :
            asked[j + 1] = [text |-> Joined(ch), conn |-> n]
      BY <2>1, HeldBelow
    <3>3. Joined(ch).what = "Joined channel" /\ NotAsked.text.what = ""
      BY DEF Joined, NotAsked, NoText
    <3>4. j + 1 # top
      <4>1. asked[j + 1].text = Joined(ch)
        BY <3>2
      <4>. QED
        BY <1>2, <3>3, <4>1
    <3>. QED
      BY <1>3, <3>1, <3>4, NumberTypes
  <2>2. Once(Server!Details(n), s, Granted(n))
    BY <1>4 DEF Agreed
  <2>. QED
    BY <1>2, <2>1, <2>2, OnceAppend
<1>. QED
  BY <1>1, <1>4, <1>7, <1>10, <1>11, FramesAppended, ServerDataStays DEF Agreed

(* A new connection is not known to the server yet.                         *)
LEMMA NewAgreed ==
  ASSUME NEW n \in Conn, UNCHANGED serverVars, Server!HasNoEntry(n),
         toServer'[n] = <<>>, \A r \in Ids : asked'[r].conn # n,
         \A ch \in Channel : \A i \in Known'[ch] : i + 1 \in Ids
  PROVE  Agreed(n)'
<1>1. /\ \A ch \in Channel : n \notin dbChannels[ch]
      /\ \A i \in Ids : Server!Details(n)[i] = Null
  BY DEF Server!HasNoEntry, Server!Details, Server!NoDetails
<1>2. DOMAIN toServer'[n] = {} /\ FramesOf(toServer'[n]) = {}
  BY DEF FramesOf
<1>3. \A ch \in Channel, i \in Ids :
        ~IsMade(Server!Details(n), FramesOf(toServer'[n]), ch, i)
  BY <1>1, <1>2, ClientAssumption DEF IsMade, ToSubscribe
<1>4. Agree(Server!Details(n), FramesOf(toServer'[n]), Known', Given', asked',
            subscriptionId', n)
  BY <1>3 DEF Agree
<1>5. Once(Server!Details(n), toServer'[n], Granted(n))
  BY <1>1 DEF Once
<1>6. BroadcastTo(n)
  BY <1>1 DEF BroadcastTo
<1>. QED
  BY <1>4, <1>5, <1>6, ServerDataStays DEF Agreed

-----------------------------------------------------------------------------
(* A step of the client keeps what the session is about.                    *)

ClientMoves == Keyboard \/ ServerThread \/ mainReturns

(* Steps of the client that the session is not about.                       *)
IdleStep ==
  /\ UNCHANGED <<toServer, asked, subscriptionId, channels>>
  /\ \/ UNCHANGED <<kpc, line, kframe>>
     \/ /\ kpc \notin {"recordJoin", "sendFrame"}
        /\ kpc' \notin {"recordJoin", "sendFrame"}

LEMMA WhichClientStep ==
  ASSUME ClientMoves
  PROVE  \/ IdleStep \/ connect \/ sendConnect \/ joinHendel \/ recordJoin
         \/ exitHendel \/ recordLogout \/ sendFrame \/ reportHendel
         \/ close \/ mainReturns
<1>. USE DEF flags, maps, sending
<1>1. CASE ServerThread
  <2>1. UNCHANGED <<kpc, line, kframe>>
    BY <1>1 DEF ServerThread
  <2>2. CASE \/ handleServer \/ getFrameAscii \/ messageHendel \/ receiptHendel
             \/ loggedOut \/ clearConect \/ erorHendl \/ clearConnected
    BY <2>1, <2>2 DEF handleServer, getFrameAscii, messageHendel, receiptHendel,
       loggedOut, clearConect, erorHendl, clearConnected, IdleStep
  <2>. QED
    BY <1>1, <2>2 DEF ServerThread
<1>2. CASE \/ handleKeyboard \/ badPort \/ connectFails \/ setConect
           \/ setConnected \/ bareExit \/ notSubscribed \/ logoutHendel
           \/ badFile \/ summaryHendel
  BY <1>2 DEF handleKeyboard, badPort, connectFails, setConect, setConnected,
     bareExit, notSubscribed, logoutHendel, badFile, summaryHendel, IdleStep
<1>3. CASE getline
  BY <1>3 DEF getline, processKeybord, Command, IdleStep
<1>. QED
  BY <1>1, <1>2, <1>3 DEF ClientMoves, Keyboard

(* A frame that the client sends.                                           *)
LEMMA SentFrame ==
  ASSUME ClientInv, ClientInv', Serves, NEW n \in Conn, n = sock, NEW f,
         sendFrameAscii(f)
  PROVE  f \in Frame /\ toServer' = [toServer EXCEPT ![n] = Append(@, f)]
<1>1. toServer' = [toServer EXCEPT ![n] = Append(@, f)]
  BY DEF sendFrameAscii, Serves
<1>2. /\ toServer[n] \in Seq(Frame) /\ toServer'[n] \in Seq(Frame)
      /\ toServer'[n] = Append(toServer[n], f)
  BY <1>1, ClientTypes DEF ClientInv, ClientTypeOK, NetTypeOK
<1>3. f \in Frame
  BY <1>2, SentOne
<1>. QED
  BY <1>1, <1>3

LEMMA PlainSteps ==
  ASSUME ClientInv, ClientInv', SP!IInv, NEW n \in Conn, n = sock, Serves,
         Agreed(n), UNCHANGED serverVars, sendConnect \/ reportHendel
  PROVE  Agreed(n)'
<1>. USE DEF flags, maps, sending
<1>1. UNCHANGED <<asked, subscriptionId>> /\ Known' = Known /\ Given' = Given
  BY SameKnown DEF sendConnect, reportHendel
<1>2. CASE UNCHANGED toServer
  BY <1>1, <1>2, IdleAgreed
<1>3. CASE ~UNCHANGED toServer
  <2>1. PICK f : /\ sendFrameAscii(f)
                 /\ f.receipt = 0 /\ f.command \in {"CONNECT", "SEND"}
    <3>1. Plain("CONNECT").receipt = 0 /\ Plain("CONNECT").command = "CONNECT"
      BY DEF Plain
    <3>2. \A ch : Send(ch).receipt = 0 /\ Send(ch).command = "SEND"
      BY DEF Send, Plain
    <3>. QED
      BY <1>3, <3>1, <3>2 DEF sendConnect, reportHendel
  <2>2. f \in Frame /\ toServer' = [toServer EXCEPT ![n] = Append(@, f)]
    BY <2>1, SentFrame
  <2>. QED
    BY <1>1, <2>1, <2>2, PlainAgreed
<1>. QED
  BY <1>2, <1>3

LEMMA ConnectAgreed ==
  ASSUME ClientInv, ClientInv', SP!IInv, SidesInv, UnbornAreUnknown, FramesInv,
         UNCHANGED serverVars, connect
  PROVE  SubscriptionsAgree' /\ SubscribedOnce'
<1>1. PICK n \in Conn : n = connections /\ sock' = n
  BY NumberTypes, ClientTypes DEF connect, Conn
<1>2. UNCHANGED <<toServer, asked, subscriptionId, channels>>
  BY DEF connect, maps, sending
<1>3. Known' = Known
  BY <1>2, SameKnown DEF connect
<1>4. Server!HasNoEntry(n)
  BY <1>1, ClientTypes, ServerTypes DEF SidesInv, NumberedAlike, UnbornAreUnknown
<1>5. toServer'[n] = <<>>
  BY <1>1, <1>2, ClientTypes DEF connect
<1>6. \A r \in Ids : asked'[r].conn # n
  BY <1>1, <1>2, ClientTypes DEF ClientInv, SessionsApart
<1>7. \A ch \in Channel : \A i \in Known'[ch] : i + 1 \in Ids
  BY <1>3, HeldNumbers
<1>8. Agreed(n)'
  BY <1>4, <1>5, <1>6, <1>7, NewAgreed
<1>. QED
  BY <1>1, <1>8, AsValuesNext

LEMMA ClientAgreed ==
  ASSUME SystemIInv, ClientInv', UNCHANGED serverVars, ClientMoves
  PROVE  SubscriptionsAgree' /\ SubscribedOnce'
<1>. /\ ClientInv /\ SP!IInv /\ SidesInv /\ FramesInv
     /\ UnbornAreUnknown /\ SubscriptionsAgree /\ SubscribedOnce
  BY DEF SystemIInv, AgreementInv
<1>1. CASE ~Live'
  BY <1>1, NotLive
<1>2. CASE connect
  BY <1>2, ConnectAgreed
<1>3. CASE Live' /\ ~connect
  <2>1. ClientWrites
    <3>1. ~ClientCloses
      BY <1>3 DEF ClientCloses, Live, Serves
    <3>. QED
      BY <1>3, <3>1, WhatTheClientDoes DEF ClientMoves
  <2>2. UNCHANGED <<sock, peer>> /\ Live
    BY <1>3, <2>1, LiveWas, AskedStays DEF ClientWrites, ClientMoves
  <2>3. PICK n \in Conn : n = sock
    BY <2>2, ClientTypes DEF Live, Serves
  <2>4. Serves /\ Agreed(n)
    BY <2>2, <2>3, AsValues DEF Live, ValuesFit
  <2>5. ~close /\ ~mainReturns
    BY <1>3 DEF close, mainReturns, CloseSocket, Live, Serves
  <2>6. CASE IdleStep
    <3>1. Known' = Known /\ Given' = Given
      BY <2>6, SameKnown DEF IdleStep
    <3>2. Agreed(n)'
      BY <2>4, <2>6, <3>1, IdleAgreed DEF IdleStep
    <3>. QED
      BY <2>2, <2>3, <3>2, AsValuesNext
  <2>7. CASE \/ sendConnect \/ joinHendel \/ recordJoin \/ exitHendel
             \/ recordLogout \/ sendFrame \/ reportHendel
    <3>1. (sock' = n /\ UNCHANGED toServer) \/ ~recordJoin
      BY <2>2, <2>3 DEF recordJoin, sending
    <3>2. Agreed(n)'
      BY <1>3, <2>2, <2>3, <2>4, <2>7, <3>1, PlainSteps, JoinAgreed, RecordAgreed,
         ExitAgreed, LogoutAgreed, SendAgreed
    <3>. QED
      BY <2>2, <2>3, <3>2, AsValuesNext
  <2>. QED
    BY <1>3, <2>5, <2>6, <2>7, WhichClientStep
<1>. QED
  BY <1>1, <1>2, <1>3

(* What the client sends is on its way to the server.                       *)
LEMMA WireAppended ==
  ASSUME ClientInv, SidesInv, NEW n \in Conn, NEW f \in Frame,
         toServer' = [toServer EXCEPT ![n] = Append(@, f)],
         wire' = [m \in Conn |-> wire[m] \o Sent(m)]
  PROVE  /\ wire'[n] = Append(wire[n], f) /\ wire[n] \in Seq(Frame)
         /\ \A m \in Conn : m # n => wire'[m] = wire[m]
<1>1. \A m \in Conn : wire[m] \in Seq(Frame) /\ wire[m] \o <<>> = wire[m]
  BY SentNothing DEF SidesInv
<1>2. \A m \in Conn : m # n => Sent(m) = <<>>
  BY ClientTypes, SentNothing DEF Sent
<1>3. toServer[n] \in Seq(Frame) /\ Append(toServer[n], f) \in Seq(Frame)
  BY AppendedIsLast, ClientTypes
<1>4. Sent(n) = <<f>>
  BY <1>3, SentOne, ClientTypes DEF Sent
<1>5. wire[n] \in Seq(Frame) /\ wire[n] \o <<f>> = Append(wire[n], f)
  BY <1>1, AppendedIsLast
<1>. QED
  BY <1>1, <1>2, <1>4, <1>5

(* No client logs in twice over a connection.                               *)
LEMMA NoSecondConnect ==
  ASSUME ClientInv, ClientInv', SidesInv, FramesInv, ClientMoves, ClientWrites,
         ~sendConnect, UNCHANGED serverVars,
         wire' = [m \in Conn |-> wire[m] \o Sent(m)],
         NEW n \in Conn, NoLoginComes(n)
  PROVE  NoLoginComes(n)'
<1>1. pc'[n] = pc[n]
  BY ServerDataStays
<1>2. \/ UNCHANGED toServer
      \/ Serves /\ \E f : sendFrameAscii(f) /\ f.command # "CONNECT"
  <2>1. CASE ~Serves
    BY <2>1 DEF ClientWrites, Serves
  <2>2. CASE joinHendel
    <3>0. PICK f : f = kframe'
      OBVIOUS
    <3>2. f = Subscribe(line.channel, subscriptionId + 1, subscriptionId + 2)
      BY <2>2, <3>0 DEF joinHendel
    <3>1. sendFrameAscii(f) /\ f.command = "SUBSCRIBE"
      BY <2>2, <3>0, <3>2 DEF joinHendel, Ask, Subscribe, Plain
    <3>. QED
      BY <2>1, <3>1
  <2>3. CASE sendFrame
    BY <2>1, <2>3 DEF sendFrame, Ask, FramesInv, Drawn
  <2>4. CASE reportHendel
    BY <2>1, <2>4 DEF reportHendel, Send, Plain
  <2>5. CASE IdleStep \/ recordJoin \/ exitHendel \/ recordLogout
    BY <2>5 DEF IdleStep, recordJoin, exitHendel, recordLogout, sending
  <2>6. ~connect /\ ~close /\ ~mainReturns
    BY ClientTypes DEF ClientWrites, connect, close, mainReturns, CloseSocket,
       ClientInv, AnswerInHand
  <2>. QED
    BY <2>1, <2>2, <2>3, <2>4, <2>5, <2>6, WhichClientStep
<1>3. CASE UNCHANGED toServer
  <2>1. wire' = wire
    BY <1>3, NothingSent
  <2>. QED
    BY <1>1, <2>1 DEF NoLoginComes
<1>4. CASE Serves /\ \E f : sendFrameAscii(f) /\ f.command # "CONNECT"
  <2>1. PICK m \in Conn : m = sock
    BY <1>4, ClientTypes DEF Serves
  <2>2. PICK f : sendFrameAscii(f) /\ f.command # "CONNECT"
    BY <1>4
  <2>3. f \in Frame /\ toServer' = [toServer EXCEPT ![m] = Append(@, f)]
    BY <1>4, <2>1, <2>2, SentFrame
  <2>4. /\ wire'[m] = Append(wire[m], f) /\ wire[m] \in Seq(Frame)
        /\ \A d \in Conn : d # m => wire'[d] = wire[d]
    BY <2>3, WireAppended
  <2>5. \A k \in DOMAIN wire'[n] : wire'[n][k].command # "CONNECT"
    <3>1. CASE n = m
      <4>1. \A k \in DOMAIN Append(wire[m], f) :
              \/ k \in DOMAIN wire[m] /\ Append(wire[m], f)[k] = wire[m][k]
              \/ k = Len(wire[m]) + 1 /\ Append(wire[m], f)[k] = f
        BY <2>3, <2>4, FramesAppended
      <4>. QED
        BY <2>2, <2>4, <3>1, <4>1 DEF NoLoginComes
    <3>2. CASE n # m
      BY <2>4, <3>2 DEF NoLoginComes
    <3>. QED
      BY <3>1, <3>2
  <2>. QED
    BY <1>1, <2>5 DEF NoLoginComes
<1>. QED
  BY <1>2, <1>3, <1>4

LEMMA ClientDone ==
  ASSUME ClientInv, SP!IInv, SidesInv, Done, UnbornAreUnknown, ClientMoves,
         UNCHANGED <<serverVars, inHand>>
  PROVE  Done' /\ UnbornAreUnknown'
<1>1. UNCHANGED <<pc, respond, dbChannels, subscriptionsDetails,
                  connectedUsers, idToUser>>
  BY ServerDataStays
<1>2. UnbornAreUnknown'
  BY <1>1 DEF UnbornAreUnknown, Server!HasNoEntry
<1>3. \A n, i : ChannelOf(n, i)' = ChannelOf(n, i)
  BY <1>1 DEF ChannelOf, Server!Details, Server!NoDetails
<1>4. CASE ClientWrites
  <2>1. UNCHANGED <<sock, peer>>
    BY <1>4 DEF ClientWrites
  <2>. QED
    BY <1>1, <1>2, <1>3, <2>1 DEF Done, Serves, Granted, LoggedIn
<1>5. CASE ClientConnects
  <2>1. PICK n \in Conn : n = connections /\ sock' = n
    BY <1>5, NumberTypes, ClientTypes DEF ClientConnects, Conn
  <2>2. pc[n] = "unborn"
    BY <2>1, ClientTypes, ServerTypes DEF SidesInv, NumberedAlike
  <2>. QED
    BY <1>1, <1>2, <2>1, <2>2 DEF Done
<1>6. CASE ClientCloses
  BY <1>2, <1>6 DEF ClientCloses, Done, Serves
<1>. QED
  BY <1>4, <1>5, <1>6, WhatTheClientDoes DEF ClientMoves

(* The answer that the server thread has in hand came on the connection.    *)
AfterReceipt == {"receipt", "loggedOut", "close"}

LEMMA AnswersTaken ==
  ASSUME ClientInv, ClientMoves, NEW n \in Conn, n = sock, ClientWrites
  PROVE  /\ \A k \in DOMAIN fromServer'[n] :
              \E j \in DOMAIN fromServer[n] : fromServer'[n][k] = fromServer[n][j]
         /\ spc' \in AfterReceipt =>
              \/ /\ spc \in AfterReceipt /\ sframe' = sframe
                 /\ BrokenOff => BrokenOff'
              \/ \E j \in DOMAIN fromServer[n] :
                   /\ fromServer[n][j].command = "RECEIPT"
                   /\ BrokenOff' \/ sframe' = fromServer[n][j]
<1>1. /\ fromServer[n] \in Seq(Answer)
      /\ UNCHANGED <<sock, peer>>
  BY ClientTypes DEF ClientWrites
<1>2. CASE UNCHANGED <<fromServer, spc, sframe>>
  BY <1>1, <1>2 DEF BrokenOff
<1>3. CASE getFrameAscii
  <2>1. /\ fromServer[n] # <<>>
        /\ fromServer' = [fromServer EXCEPT ![n] = Tail(@)]
        /\ sframe' \in Readings(Head(fromServer[n]))
        /\ spc' = processServer(sframe')
    BY <1>3 DEF getFrameAscii
  <2>2. PICK h \in Answer : h = Head(fromServer[n]) /\ h = fromServer[n][1]
    BY <1>1, <2>1
  <2>3. 1 \in DOMAIN fromServer[n]
    BY <1>1, <2>1
  <2>5. \A k \in DOMAIN Tail(fromServer[n]) :
          /\ k + 1 \in DOMAIN fromServer[n]
          /\ Tail(fromServer[n])[k] = fromServer[n][k + 1]
    BY <1>1, <2>1
  <2>6. fromServer'[n] = Tail(fromServer[n])
    BY <2>1, ClientTypes
  <2>7. ASSUME spc' \in AfterReceipt
        PROVE  h.command = "RECEIPT" /\ (BrokenOff' \/ sframe' = h)
    <3>1. sframe'.command = "RECEIPT"
      BY <2>1, <2>7 DEF processServer, AfterReceipt
    <3>2. PICK b : b = sframe' /\ b \in Readings(h)
      BY <2>1, <2>2
    <3>3. /\ b.command = "RECEIPT" /\ h.command = "RECEIPT"
          /\ ~h.cut => b = h
          /\ h.cut => b.cut
      BY <3>1, <3>2, ReadingsKeep
    <3>4. ASSUME h.cut
          PROVE  peer[n] = "gone" /\ fromServer'[n] = <<>>
      <4>1. Len(fromServer[n]) = 1 /\ peer[n] = "gone"
        BY <2>2, <2>3, <3>4 DEF ClientInv, OnlyTheLastIsCut, CutAtTheEnd
      <4>2. ASSUME NEW q \in Seq(Answer), Len(q) = 1
            PROVE  Tail(q) = <<>>
        <5>0. q # <<>>
          BY <4>2, EmptySeq
        <5>1. Tail(q) \in Seq(Answer) /\ Len(Tail(q)) = Len(q) - 1
          BY <5>0, HeadTailProperties
        <5>2. Len(Tail(q)) = 0
          BY <4>2, <5>1
        <5>. QED
          BY <5>1, <5>2, EmptySeq, ZenonT(30)
      <4>. QED
        BY <1>1, <2>6, <4>1, <4>2
    <3>. QED
      BY <1>1, <3>2, <3>3, <3>4 DEF BrokenOff
  <2>. QED
    BY <2>2, <2>3, <2>5, <2>6, <2>7
<1>4. CASE ServerThread /\ ~getFrameAscii
  <2>1. ~close
    BY ClientTypes DEF ClientWrites, close, CloseSocket, ClientInv, AnswerInHand
  <2>2. UNCHANGED <<fromServer, sframe>> \/ spc' \notin AfterReceipt
    BY <1>4, <2>1 DEF ServerThread, handleServer, messageHendel, receiptHendel,
       loggedOut, clearConect, erorHendl, clearConnected, AfterReceipt
  <2>3. UNCHANGED fromServer
    BY <1>4, <2>1 DEF ServerThread, handleServer, messageHendel, receiptHendel,
       loggedOut, clearConect, erorHendl, clearConnected
  <2>4. spc' \in AfterReceipt => spc \in AfterReceipt
    BY <1>4, <2>1 DEF ServerThread, handleServer, messageHendel, receiptHendel,
       loggedOut, clearConect, erorHendl, clearConnected, AfterReceipt
  <2>. QED
    BY <1>1, <2>2, <2>3, <2>4 DEF BrokenOff
<1>5. CASE mainReturns
  BY <1>5 DEF mainReturns, CloseSocket, ClientWrites
<1>. QED
  BY <1>2, <1>3, <1>4, <1>5 DEF ClientMoves, Keyboard

(* What the client sends last counts: it confirms a logout only after that  *)
(* was sent.                                                                *)
LEMMA ConfirmsStays ==
  ASSUME ClientInv, ClientMoves, NEW n \in Conn, NEW a, Confirms(a)',
         a.receiptId # 0 => a.receiptId \in Ids /\ Expected(a.receiptId, n)
  PROVE  Confirms(a)
<1>1. a.receiptId \in Ids /\ asked[a.receiptId].conn = n
  BY DEF Confirms, Expected
<1>2. asked[a.receiptId] # NotAsked
  BY <1>1, ClientTypes DEF NotAsked
<1>. QED
  BY <1>1, <1>2, AskedStays DEF Confirms, ClientMoves

LEMMA ClientConfirmed ==
  ASSUME ClientInv, ClientInv', SidesInv, FramesInv, LogoutConfirmedOnlyIfDone,
         ClientStep
  PROVE  LogoutConfirmedOnlyIfDone'
<1>. /\ ClientMoves /\ UNCHANGED <<serverVars, inHand>>
  BY DEF ClientStep, ClientMoves
<1>1. CASE sock' = NoSocket
  BY <1>1 DEF LogoutConfirmedOnlyIfDone
<1>2. CASE connect
  <2>1. PICK n \in Conn : n = connections /\ sock' = n /\ sock = NoSocket
    BY <1>2, NumberTypes, ClientTypes DEF connect, Conn
  <2>2. fromServer'[n] = <<>> /\ spc' = spc
    <3>1. Keyboard
      BY <1>2 DEF ClientMoves, connect, ServerThread, mainReturns, Ended
    <3>. QED
      BY <2>1, <3>1, ClientTypes DEF ClientInv, OneConnection, Keyboard
  <2>3. spc \notin {"receipt", "loggedOut", "close"}
    BY <2>1 DEF ClientInv, AnswerInHand
  <2>. QED
    BY <2>1, <2>2, <2>3 DEF LogoutConfirmedOnlyIfDone
<1>3. CASE ClientWrites /\ sock' # NoSocket
  <2>1. PICK n \in Conn : n = sock /\ sock' = n /\ sock # NoSocket
    BY <1>3, ClientTypes DEF ClientWrites
  <2>2. wire' = [m \in Conn |-> wire[m] \o Sent(m)]
    BY <2>1, ClientTypes DEF ClientStep
  <2>3. ASSUME NEW k \in DOMAIN fromServer[n], NEW a, a = fromServer[n][k]
        PROVE  /\ a \in Answer
               /\ a.receiptId # 0
                    => a.receiptId \in Ids /\ Expected(a.receiptId, n)
    <3>1. fromServer[n] \in Seq(Answer) /\ a \in Answer
      BY <2>3, ClientTypes
    <3>2. AnswerOf(a, n)
      BY <2>3 DEF ClientInv, AnswersToCome
    <3>. QED
      BY <3>1, <3>2 DEF AnswerOf, Answer
  <2>4. spc \in AfterReceipt /\ sframe.receiptId # 0 /\ ~BrokenOff
          => sframe.receiptId \in Ids /\ Expected(sframe.receiptId, n)
    <3>1. sframe.receiptId \in {0} \cup Ids /\ NoSocket \notin Conn
      BY ClientTypes DEF ClientInv, ClientTypeOK, ThreadTypeOK, Answer
    <3>. QED
      BY <2>1, <3>1 DEF ClientInv, AnswerInHand, Expected, AfterReceipt
  <2>5. ASSUME NEW r \in Ids, asked[r].conn = n
        PROVE  ~sendConnect
    BY <2>1, <2>5 DEF sendConnect, ClientInv, SessionsApart, LoggingIn
  <2>6. ASSUME NEW k \in DOMAIN fromServer[n],
               fromServer[n][k].command = "RECEIPT"
        PROVE  NoLoginComes(n)'
    <3>1. /\ AnswerOf(fromServer[n][k], n) /\ NoLoginComes(n)
          /\ fromServer[n][k] \in Answer
      BY <2>1, <2>3, <2>6
      DEF ClientInv, AnswersToCome, LogoutConfirmedOnlyIfDone
    <3>2. PICK r \in Ids : asked[r].conn = n
      BY <2>6, <3>1 DEF AnswerOf, Answer, Expected
    <3>. QED
      BY <1>3, <2>2, <2>5, <3>1, <3>2, NoSecondConnect
  <2>7. ASSUME spc \in AfterReceipt
        PROVE  NoLoginComes(n)'
    <3>1. NoLoginComes(n) /\ \E r \in Ids : asked[r].conn = n
      BY <2>1, <2>7 DEF ClientInv, AnswerInHand, SomethingAsked, AfterReceipt,
         LogoutConfirmedOnlyIfDone
    <3>. QED
      BY <1>3, <2>2, <2>5, <3>1, NoSecondConnect
  <2>8. ASSUME NEW k \in DOMAIN fromServer[n], NEW a, a = fromServer[n][k],
               Confirms(a)'
        PROVE  idToUser[n] = Null
    <3>1. Confirms(a)
      BY <2>3, <2>8, ConfirmsStays
    <3>. QED
      BY <2>1, <2>8, <3>1 DEF LogoutConfirmedOnlyIfDone
  <2>9. idToUser' = idToUser
    BY ServerDataStays
  <2>10. ASSUME NEW k \in DOMAIN fromServer'[n], NEW a, a = fromServer'[n][k]
         PROVE  /\ a.command = "RECEIPT" => NoLoginComes(n)'
                /\ Confirms(a)' => idToUser'[n] = Null
    <3>1. PICK j \in DOMAIN fromServer[n] : a = fromServer[n][j]
      BY <1>3, <2>1, <2>10, AnswersTaken
    <3>. QED
      BY <2>6, <2>8, <2>9, <3>1
  <2>11. ASSUME spc' \in AfterReceipt
         PROVE  /\ NoLoginComes(n)'
                /\ Confirms(sframe)' => BrokenOff' \/ idToUser'[n] = Null
    <3>1. CASE /\ spc \in AfterReceipt /\ sframe' = sframe
               /\ BrokenOff => BrokenOff'
      <4>1. ASSUME Confirms(sframe)', ~BrokenOff, NEW a, a = sframe
            PROVE  idToUser[n] = Null
        <5>0. Confirms(a)'
          BY <3>1, <4>1 DEF Confirms
        <5>1. Confirms(a)
          BY <2>4, <3>1, <4>1, <5>0, ConfirmsStays
        <5>. QED
          BY <2>1, <3>1, <4>1, <5>1 DEF LogoutConfirmedOnlyIfDone, AfterReceipt
      <4>. QED
        BY <2>7, <2>9, <3>1, <4>1
    <3>2. ASSUME NEW j \in DOMAIN fromServer[n],
                 fromServer[n][j].command = "RECEIPT",
                 BrokenOff' \/ sframe' = fromServer[n][j]
          PROVE  /\ NoLoginComes(n)'
                 /\ Confirms(sframe)' => BrokenOff' \/ idToUser'[n] = Null
      <4>1. ASSUME Confirms(sframe)', ~BrokenOff', NEW a, a = fromServer[n][j]
            PROVE  idToUser[n] = Null
        <5>1. Confirms(a)'
          BY <3>2, <4>1 DEF Confirms
        <5>. QED
          BY <2>8, <4>1, <5>1
      <4>. QED
        BY <2>6, <2>9, <3>2, <4>1
    <3>. QED
      BY <1>3, <2>1, <2>11, <3>1, <3>2, AnswersTaken
  <2>. QED
    BY <2>1, <2>10, <2>11 DEF LogoutConfirmedOnlyIfDone, AfterReceipt, Confirms
<1>. QED
  BY <1>1, <1>2, <1>3, WhatTheClientDoes DEF ClientMoves, ClientCloses

(* A client that is logged in, or on its way, stays so; and the connection  *)
(* that it closes is logged off.                                            *)
LEMMA LoginUnderWay ==
  ASSUME ClientInv, ClientInv', ClientMoves, ClientWrites, Live, Live',
         NEW n \in Conn, n = sock, UNCHANGED serverVars, LoginsAgree,
         kpc' \notin {"setConect", "sendConnect"}
  PROVE  \/ LoggedIn(n)'
         \/ \E k \in DOMAIN toServer'[n] : toServer'[n][k].command = "CONNECT"
<1>1. ASSUME NEW f, sendFrameAscii(f)
      PROVE  /\ \A k \in DOMAIN toServer[n] : /\ k \in DOMAIN toServer'[n]
                                              /\ toServer'[n][k] = toServer[n][k]
             /\ \E k \in DOMAIN toServer'[n] : toServer'[n][k] = f
  <2>1. f \in Frame /\ toServer' = [toServer EXCEPT ![n] = Append(@, f)]
    BY <1>1, SentFrame DEF Live
  <2>2. toServer[n] \in Seq(Frame) /\ toServer'[n] = Append(toServer[n], f)
    BY <2>1, ClientTypes
  <2>. QED
    BY <2>1, <2>2
<1>2. CASE sendConnect
  <2>1. sendFrameAscii(Plain("CONNECT")) /\ Plain("CONNECT").command = "CONNECT"
    BY <1>2 DEF sendConnect, Plain
  <2>. QED
    BY <1>1, <2>1
<1>3. CASE ~sendConnect
  <2>1. kpc \notin {"setConect", "sendConnect"}
    <3>1. CASE Keyboard
      BY <1>3, <3>1 DEF Keyboard, handleKeyboard, getline, processKeybord,
         badPort, connectFails, connect, setConect, setConnected, joinHendel,
         recordJoin, bareExit, notSubscribed, exitHendel, logoutHendel,
         recordLogout, sendFrame, badFile, reportHendel, summaryHendel
    <3>. QED
      BY <3>1 DEF ClientMoves, ServerThread, mainReturns
  <2>2. \/ LoggedIn(n)
        \/ \E k \in DOMAIN toServer[n] : toServer[n][k].command = "CONNECT"
    BY <2>1 DEF LoginsAgree
  <2>3. UNCHANGED toServer \/ \E f : sendFrameAscii(f)
    BY DEF ClientWrites, sendFrameAscii
  <2>4. \A k \in DOMAIN toServer[n] : /\ k \in DOMAIN toServer'[n]
                                      /\ toServer'[n][k] = toServer[n][k]
    BY <1>1, <2>3
  <2>. QED
    BY <2>2, <2>4, ServerDataStays
<1>. QED
  BY <1>2, <1>3

LEMMA StillNoLogin ==
  ASSUME NEW n \in Conn, NoLoginComes(n), UNCHANGED serverVars,
         \A k \in DOMAIN wire'[n] :
           k \in DOMAIN wire[n] /\ wire'[n][k] = wire[n][k]
  PROVE  NoLoginComes(n)'
BY ServerDataStays DEF NoLoginComes

LEMMA EndedStays ==
  ASSUME ClientMoves, Ended
  PROVE  Ended'
BY DEF ClientMoves, Keyboard, handleKeyboard, getline, badPort, connectFails,
   connect, setConect, sendConnect, setConnected, joinHendel, recordJoin,
   bareExit, notSubscribed, exitHendel, logoutHendel, recordLogout, sendFrame,
   badFile, reportHendel, summaryHendel, ServerThread, handleServer,
   getFrameAscii, messageHendel, receiptHendel, loggedOut, close, clearConect,
   erorHendl, clearConnected, mainReturns, Ended

LEMMA ClientLogins ==
  ASSUME ClientInv, ClientInv', SidesInv, LogoutConfirmedOnlyIfDone, LoginsAgree,
         ClientStep
  PROVE  LoginsAgree'
<1>. /\ ClientMoves /\ UNCHANGED <<serverVars, inHand>>
  BY DEF ClientStep, ClientMoves
<1>0. ~Ended' => /\ \A n \in Conn : n # sock => NoLoginComes(n)
                 /\ OneLogin'
  <2>1. OneLogin' = OneLogin
    BY ServerDataStays DEF OneLogin, LoggedIn, PastTheCheck
  <2>. QED
    BY <2>1, EndedStays DEF LoginsAgree
<1>1. CASE ClientWrites
  <2>1. UNCHANGED <<sock, peer>>
    BY <1>1 DEF ClientWrites
  <2>2. ASSUME Live', kpc' \notin {"setConect", "sendConnect"},
               NEW n \in Conn, n = sock
        PROVE  \/ LoggedIn(n)'
               \/ \E k \in DOMAIN toServer'[n] : toServer'[n][k].command = "CONNECT"
    <3>1. Live
      BY <2>1, <2>2, LiveWas, AskedStays DEF ClientMoves
    <3>. QED
      BY <1>1, <2>2, <3>1, LoginUnderWay
  <2>3. ASSUME NEW n \in Conn, n # sock, NoLoginComes(n)
        PROVE  NoLoginComes(n)'
    <3>1. wire' = [m \in Conn |-> wire[m] \o Sent(m)]
      BY <2>1 DEF ClientStep
    <3>2. Sent(n) = <<>>
      BY <1>1, <2>3, ClientTypes, SentNothing DEF Sent, ClientWrites
    <3>3. wire'[n] = wire[n]
      BY <3>1, <3>2, SentNothing DEF SidesInv
    <3>. QED
      BY <2>3, <3>3, StillNoLogin
  <2>4. sock' = sock /\ (Live' => sock \in Conn)
    BY <2>1, ClientTypes DEF Live, Serves
  <2>. QED
    BY <1>0, <2>2, <2>3, <2>4 DEF LoginsAgree, LoggedIn
<1>2. CASE ClientConnects /\ connect
  <2>1. kpc' = "setConect" /\ sock = NoSocket /\ UNCHANGED toServer
    BY <1>2 DEF connect, sending
  <2>2. wire' = wire
    BY <2>1, NothingSent DEF ClientStep
  <2>3. \A n \in Conn : n # sock
    BY <2>1, ClientTypes
  <2>. QED
    BY <1>0, <2>1, <2>2, <2>3, StillNoLogin DEF LoginsAgree
<1>3. CASE ClientCloses /\ close
  <2>1. PICK n \in Conn : n = sock /\ sock' = NoSocket
    BY <1>3, ClientTypes DEF ClientCloses
  <2>3. NoLoginComes(n)
    BY <1>3, <2>1, ClientTypes DEF close, LogoutConfirmedOnlyIfDone
  <2>4. PICK k \in 0 .. Len(wire[n]) :
          wire' = [wire EXCEPT ![n] = SubSeq(@, 1, k)]
    BY <1>3, <2>1 DEF ClientStep, ClientCloses
  <2>5. \A m \in Conn : \A j \in DOMAIN wire'[m] :
          j \in DOMAIN wire[m] /\ wire'[m][j] = wire[m][j]
    <3>1. wire \in [Conn -> Seq(Frame)]
      BY DEF SidesInv
    <3>2. ASSUME NEW s \in Seq(Frame), NEW b \in 0 .. Len(s)
          PROVE  /\ DOMAIN SubSeq(s, 1, b) \subseteq DOMAIN s
                 /\ \A j \in DOMAIN SubSeq(s, 1, b) : SubSeq(s, 1, b)[j] = s[j]
      BY <3>2
    <3>. QED
      BY <2>4, <3>1, <3>2
  <2>6. \A m \in Conn : NoLoginComes(m) => NoLoginComes(m)'
    BY <2>5, StillNoLogin
  <2>. QED
    BY <1>0, <2>1, <2>3, <2>6 DEF LoginsAgree, Live, Serves
<1>4. CASE ClientCloses /\ mainReturns
  <2>1. Ended'
    BY <1>4, EndedStays DEF mainReturns
  <2>. QED
    BY <1>4, <2>1 DEF LoginsAgree, Live, Serves, ClientCloses
<1>. QED
  BY <1>1, <1>2, <1>3, <1>4, WhatTheClientDoes DEF ClientMoves

LEMMA ClientAgreement ==
  ASSUME SystemIInv, ClientInv', ClientStep
  PROVE  AgreementInv'
<1>1. ClientMoves /\ UNCHANGED <<serverVars, inHand>>
  BY DEF ClientStep, ClientMoves
<1>2. SubscriptionsAgree' /\ SubscribedOnce'
  BY <1>1, ClientAgreed
<1>. QED
  BY <1>1, <1>2, ClientDone, ClientConfirmed, ClientLogins
  DEF SystemIInv, AgreementInv

-----------------------------------------------------------------------------
(* What a thread of the server does to the database.                        *)

LEMMA StepOfDatabase ==
  ASSUME SP!IInv, NEW c \in Conn, Server!Step(c)
  PROVE  \/ SP!StandsStill(c) \/ SP!Forgetting(c)
         \/ SP!addSubscription(c) \/ SP!removeSubscription(c)
         \/ SP!addUser(c) \/ SP!setConnected(c)
<1>1. SP!Step(c) /\ Conn = SP!Conn
  BY SameStep DEF Conn, SP!Conn
<1>. QED
  BY <1>1, ServerAssumptions, SP!DatabaseSteps

(* The session of another connection.                                       *)
LEMMA OthersKeep ==
  ASSUME SP!IInv, NEW c \in Conn, NEW n \in Conn, c # n,
         Server!Step(c) \/ Server!ReadFrame(c) \/ Server!Eof(c)
  PROVE  /\ subscriptionsDetails'[n] = subscriptionsDetails[n]
         /\ idToUser'[n] = idToUser[n]
         /\ Server!Details(n)' = Server!Details(n)
         /\ \A ch \in Channel : n \in dbChannels'[ch] => n \in dbChannels[ch]
<1>1. /\ SP!Step(c) \/ SP!ReadFrame(c) \/ SP!Eof(c) \/ SP!decodeFails(c)
      /\ Conn = SP!Conn /\ SP!TypeOK
  BY SameStep, SameConnections DEF Conn, SP!Conn, SP!IInv
<1>2. SP!SameSession(n)
  BY <1>1, ServerAssumptions, SP!OtherSessions
<1>3. \A ch \in Channel : n \in dbChannels'[ch] => n \in dbChannels[ch]
  BY <1>1, ServerAssumptions, SP!OthersDoNotSubscribeMe
<1>. QED
  BY <1>2, <1>3 DEF SP!SameSession, Server!Details, Server!NoDetails

(* No thread logs in a connection without a CONNECT.                        *)
LEMMA ThreadsLogNobodyIn ==
  ASSUME SP!IInv, NEW m \in Conn, NoLoginComes(m), NEW c \in Conn,
         Server!Step(c), UNCHANGED wire
  PROVE  NoLoginComes(m)' /\ idToUser'[m] \in {idToUser[m], Null}
<1>0. /\ HandlerOf(Plain("CONNECT")) = SP!HandlerLabels("CONNECT")
      /\ {"addUser", "setConnected"} \subseteq SP!HandlerLabels("CONNECT")
  BY DEF HandlerOf, Plain, SP!HandlerLabels
<1>1. CASE c # m
  BY <1>1, OthersKeep, ThreadSteps DEF NoLoginComes
<1>2. CASE c = m
  <2>1. pc'[m] \notin SP!HandlerLabels("CONNECT")
    <3>1. SP!Step(c) /\ Conn = SP!Conn
      BY SameStep DEF Conn, SP!Conn
    <3>2. pc'[c] \in SP!HandlerLabels("CONNECT") => pc[c] \in SP!HandlerLabels("CONNECT")
      BY <3>1, ServerAssumptions, SP!LoginLabelsOnly
    <3>. QED
      BY <1>0, <1>2, <3>2 DEF NoLoginComes
  <2>2. idToUser'[m] \in {idToUser[m], Null}
    <3>1. ~SP!addUser(c) /\ ~SP!setConnected(c)
      BY <1>0, <1>2 DEF NoLoginComes, SP!addUser, SP!setConnected
    <3>2. UNCHANGED idToUser \/ idToUser' = [idToUser EXCEPT ![c] = Null]
      BY <3>1, StepOfDatabase
      DEF SP!StandsStill, SP!Forgetting, SP!dbDisconnect, SP!addSubscription,
          SP!addChannelSubscription, SP!removeSubscription,
          SP!removeChannelSubscription
    <3>. QED
      BY <1>2, <3>2, DatabaseTypes
  <2>. QED
    BY <1>0, <2>1, <2>2 DEF NoLoginComes
<1>. QED
  BY <1>1, <1>2

-----------------------------------------------------------------------------
(* Connections are accepted, and frames and the end of file read, without   *)
(* the client seeing it.                                                    *)

LEMMA UnseenAgrees ==
  ASSUME SystemIInv, UNCHANGED <<clientOnly, network>>,
         UNCHANGED <<dbChannels, subscriptionsDetails, connectedUsers, idToUser>>,
         NEW c \in Conn, pc[c] \in {"unborn", "loop"},
         pc'[c] \notin {"unborn", "respond"}, ~PastTheCheck(c)',
         \A n \in Conn : n # c => /\ pc'[n] = pc[n] /\ respond'[n] = respond[n]
                                  /\ inHand'[n] = inHand[n],
         \A n \in Conn : NoLoginComes(n) => NoLoginComes(n)'
  PROVE  AgreementInv'
<1>. AgreementInv /\ ClientInv /\ FramesInv
  BY DEF SystemIInv
<1>0. /\ UNCHANGED <<sock, peer, asked, toServer, fromServer, spc, sframe, kpc,
                     line, kframe, subscriptionId, channels>>
      /\ Ended' = Ended
  BY DEF clientOnly, network, maps, Ended
<1>1. \A n : Server!Details(n)' = Server!Details(n)
  BY DEF Server!Details, Server!NoDetails
<1>2. \A n \in Conn : Granted(n)' = Granted(n)
  BY DEF Granted
<1>3. \A n : LoggedIn(n)' = LoggedIn(n)
  BY DEF LoggedIn
<1>4. UnbornAreUnknown'
  BY DEF AgreementInv, UnbornAreUnknown, Server!HasNoEntry
<1>5. Done'
  <2>1. ASSUME Serves', pc'[sock] = "respond"
        PROVE  /\ Serves /\ sock \in Conn /\ pc[sock] = "respond"
               /\ respond'[sock] = respond[sock] /\ inHand'[sock] = inHand[sock]
    BY <1>0, <2>1, ClientTypes DEF Serves
  <2>. QED
    BY <1>0, <1>1, <1>2, <1>3, <2>1 DEF AgreementInv, Done, ChannelOf
<1>6. SubscriptionsAgree' /\ SubscribedOnce'
  <2>1. CASE ~Live'
    BY <2>1, NotLive
  <2>2. CASE Live'
    <3>1. Live /\ sock' = sock
      BY <1>0, <2>2 DEF Live, Serves
    <3>2. PICK n \in Conn : n = sock
      BY <3>1, ClientTypes DEF Live, Serves
    <3>3. Agreed(n)
      BY <3>1, <3>2, AsValues DEF ValuesFit, AgreementInv
    <3>4. Known' = Known /\ Given' = Given
      BY <1>0, SameKnown
    <3>5. Agreed(n)'
      BY <1>0, <1>1, <1>2, <3>3, <3>4 DEF Agreed, BroadcastTo
    <3>. QED
      BY <3>1, <3>2, <3>5, AsValuesNext
  <2>. QED
    BY <2>1, <2>2
<1>7. LogoutConfirmedOnlyIfDone'
  <2>1. sock # NoSocket => sock \in Conn
    BY ClientTypes
  <2>2. \A a : Confirms(a)' = Confirms(a)
    BY <1>0 DEF Confirms
  <2>3. BrokenOff' = BrokenOff /\ Confirms(sframe)' = Confirms(sframe)
    BY <1>0 DEF BrokenOff, Confirms
  <2>. QED
    BY <1>0, <2>1, <2>2, <2>3 DEF AgreementInv, LogoutConfirmedOnlyIfDone
<1>8. LoginsAgree'
  <2>1. Live' = Live
    BY <1>0 DEF Live, Serves
  <2>2. \A m \in Conn : PastTheCheck(m)' => PastTheCheck(m)
    BY DEF PastTheCheck
  <2>3. OneLogin => OneLogin'
    BY <1>3, <2>2 DEF OneLogin
  <2>. QED
    BY <1>0, <1>3, <2>1, <2>3 DEF AgreementInv, LoginsAgree
<1>. QED
  BY <1>4, <1>5, <1>6, <1>7, <1>8 DEF AgreementInv

LEMMA AcceptAgrees ==
  ASSUME SystemIInv, Accept, UNCHANGED clientOnly
  PROVE  AgreementInv'
<1>. ClientInv /\ SP!IInv /\ SidesInv
  BY DEF SystemIInv
<1>1. PICK c \in Conn : c = connectionsIdCuonter
  BY ClientTypes, ServerTypes, NumberTypes DEF Accept, Conn
<1>2. /\ pc' = [pc EXCEPT ![c] = "loop"] /\ UNCHANGED respond
      /\ UNCHANGED <<dbChannels, subscriptionsDetails, connectedUsers, idToUser>>
  BY <1>1, SameConnections DEF Accept, SP!Accept, SP!GoTo, SP!dbVars
<1>3. UNCHANGED <<network, wire, inHand>>
  BY DEF Accept
<1>4. pc[c] = "unborn"
  BY <1>1, ClientTypes DEF SidesInv, NumberedAlike
<1>5. \A n \in Conn : NoLoginComes(n) => NoLoginComes(n)'
  BY <1>2, <1>3, ServerTypes DEF NoLoginComes, HandlerOf, Plain
<1>6. pc'[c] = "loop" /\ \A n \in Conn : n # c => pc'[n] = pc[n]
  BY <1>2, ServerTypes
<1>7. ~PastTheCheck(c)'
  BY <1>6 DEF PastTheCheck, HandlerOf, Plain
<1>. QED
  BY <1>7, <1>2, <1>3, <1>4, <1>5, <1>6, UnseenAgrees

LEMMA EofAgrees ==
  ASSUME SystemIInv, UNCHANGED clientOnly, NEW c \in Conn, Eof(c)
  PROVE  AgreementInv'
<1>. ClientInv /\ SP!IInv /\ SidesInv
  BY DEF SystemIInv
<1>1. /\ pc[c] = "loop" /\ pc' = [pc EXCEPT ![c] = "closed"]
      /\ UNCHANGED respond
      /\ UNCHANGED <<dbChannels, subscriptionsDetails, connectedUsers, idToUser>>
  BY SameConnections DEF Eof, SP!Eof, SP!Close, SP!GoTo, SP!dbVars
<1>2. UNCHANGED <<network, wire, inHand>>
  BY DEF Eof
<1>3. \A n \in Conn : NoLoginComes(n) => NoLoginComes(n)'
  BY <1>1, <1>2, ServerTypes DEF NoLoginComes, HandlerOf, Plain
<1>4. pc'[c] = "closed" /\ \A n \in Conn : n # c => pc'[n] = pc[n]
  BY <1>1, ServerTypes
<1>5. ~PastTheCheck(c)'
  BY <1>4 DEF PastTheCheck, HandlerOf, Plain
<1>. QED
  BY <1>1, <1>2, <1>3, <1>4, <1>5, UnseenAgrees

LEMMA ReadAgrees ==
  ASSUME SystemIInv, UNCHANGED clientOnly, NEW c \in Conn, Read(c)
  PROVE  AgreementInv'
<1>. ClientInv /\ SP!IInv /\ SidesInv
  BY DEF SystemIInv
<1>0. wire[c] \in Seq(Frame) /\ wire[c] # <<>>
  BY DEF SidesInv, Read
<1>1. PICK h \in Frame : h = Head(wire[c]) /\ wire[c] = <<h>> \o Tail(wire[c])
  BY <1>0
<1>2. /\ frame'[c] = Parsed(h)
      /\ inHand' = [inHand EXCEPT ![c] = h]
      /\ wire' = [wire EXCEPT ![c] = Tail(@)]
      /\ UNCHANGED network
  BY <1>1 DEF Read
<1>3. /\ pc[c] = "loop"
      /\ UNCHANGED <<dbChannels, subscriptionsDetails, connectedUsers, idToUser>>
  BY SameConnections DEF Read, SP!ReadFrame, SP!dbVars
<1>4. PICK f :
        /\ frame' = [frame EXCEPT ![c] = f]
        /\ IF f.commend \in SP!Commend
           THEN pc' = [pc EXCEPT ![c] = f.commend] /\ UNCHANGED respond
           ELSE /\ pc' = [pc EXCEPT ![c] = "respond"]
                /\ respond' = [respond EXCEPT ![c] = "ERROR"]
  BY SameConnections DEF Read, SP!ReadFrame
<1>5. pc'[c] = h.command /\ h.command \in Request
  <2>1. h.command \in Request /\ Parsed(h).commend = h.command
    BY DEF Frame, Parsed
  <2>2. f = Parsed(h)
    BY <1>2, <1>4, ServerTypes
  <2>. QED
    BY <1>4, <2>1, <2>2, ServerTypes DEF Request, SP!Commend
<1>6. pc'[c] \notin {"unborn", "respond"} /\ ~PastTheCheck(c)'
  BY <1>5 DEF Request, PastTheCheck, HandlerOf, Plain
<1>7. \A n \in Conn : n # c => /\ pc'[n] = pc[n] /\ respond'[n] = respond[n]
                               /\ inHand'[n] = inHand[n]
  BY <1>2, <1>4, ServerTypes DEF SidesInv
<1>8. ASSUME NEW n \in Conn, NoLoginComes(n)
      PROVE  NoLoginComes(n)'
  <2>1. CASE n = c
    <3>0. Tail(wire[c]) \in Seq(Frame)
      BY <1>0
    <3>1. PICK w \in Seq(Frame) : w = Tail(wire[c]) /\ wire'[c] = w
      BY <1>2, <3>0 DEF SidesInv
    <3>2. /\ 1 \in DOMAIN wire[c] /\ wire[c][1] = h
          /\ \A k \in DOMAIN w : k + 1 \in DOMAIN wire[c] /\ wire[c][k + 1] = w[k]
      BY <1>1, <3>1, FramesPushed
    <3>3. h.command # "CONNECT"
      BY <1>8, <2>1, <3>2 DEF NoLoginComes
    <3>4. pc'[c] \notin HandlerOf(Plain("CONNECT"))
      BY <1>5, <3>3 DEF HandlerOf, Plain, Request
    <3>. QED
      BY <1>3, <1>8, <2>1, <3>1, <3>2, <3>4 DEF NoLoginComes
  <2>2. CASE n # c
    <3>1. wire'[n] = wire[n]
      BY <1>2, <2>2 DEF SidesInv
    <3>. QED
      BY <1>3, <1>7, <1>8, <2>2, <3>1 DEF NoLoginComes
  <2>. QED
    BY <2>1, <2>2
<1>. QED
  BY <1>2, <1>3, <1>6, <1>7, <1>8, UnseenAgrees

-----------------------------------------------------------------------------
(* What the client sees of a thread.                                        *)

(* The thread of n has answered the frame in its hand.                      *)
HasAnswered(n) ==
  /\ Handles(n) /\ toServer[n] = <<inHand[n]>> \o wire[n]
  /\ toServer'[n] = wire[n] /\ pc'[n] = "loop"
  /\ inHand[n].command # "SEND" =>
       /\ pc[n] = "respond"
       /\ respond[n] = IF inHand[n].command = "CONNECT"
                       THEN "CONNECTED" ELSE "RECEIPT"

LEMMA ServedOn ==
  ASSUME NEW c \in Conn, NEW n \in Conn, ThreadAt(c, n), peer'[n] = "serving"
  PROVE  /\ peer[n] = "serving" /\ Serving(n)
         /\ \/ toServer'[n] = toServer[n] /\ ~IsDone(n)
            \/ c = n /\ HasAnswered(n)
<1>1. ~Closes(n) /\ ~Refuses(n) /\ peer[n] = "serving"
  BY ClientTypes DEF ThreadAt, PassOn
<1>2. Serving(n)
  BY <1>1 DEF ThreadAt, BothSides
<1>3. CASE ~IsDone(n)
  BY <1>1, <1>2, <1>3, ClientTypes DEF ThreadAt, PassOn
<1>4. CASE IsDone(n)
  <2>1. c = n /\ pc[n] \notin {"unborn", "loop"} /\ pc'[n] = "loop"
    BY <1>4, ThreadSteps DEF ThreadAt, IsDone
  <2>2. /\ Handles(n) /\ toServer[n] = <<inHand[n]>> \o wire[n]
        /\ frame[n] = Parsed(inHand[n])
        /\ inHand[n] \in Frame /\ wire[n] \in Seq(Frame)
    BY <1>2, <2>1 DEF Serving, ThreadAt, SidesInv
  <2>3. SubSeq(toServer[n], 2, Len(toServer[n])) = wire[n]
    BY <2>2, PushedAndPopped
  <2>4. toServer'[n] = wire[n]
    BY <1>1, <1>4, <2>3, ClientTypes DEF ThreadAt, PassOn
  <2>5. ASSUME inHand[n].command # "SEND"
        PROVE  /\ pc[n] = "respond"
               /\ respond[n] = IF inHand[n].command = "CONNECT"
                               THEN "CONNECTED" ELSE "RECEIPT"
    <3>1. inHand[n].command \in Request \ {"SEND"}
      BY <2>2, <2>5 DEF Frame
    <3>2. pc[n] \notin {"deliver", "terminate", "dbDisconnect", "removeHandler"}
      BY <2>2, <3>1 DEF Handles, HandlerOf, Request
    <3>3. SP!Responds(n)
      BY <2>1, <3>2, ThreadSteps DEF ThreadAt, SP!InHandler, SP!HandlerLabels,
         SP!Commend, SP!Broadcasts, SP!Finishes, SP!Leaves, SP!Dies, SP!Waits,
         SP!threadVars
    <3>4. respond[n] # "ERROR"
      BY <2>1, <2>2, <3>1, <3>3 DEF SP!Responds, SP!ErrorPath, Parsed, Request
    <3>5. respond[n] \in RespondTo(inHand[n]) \ {Null}
      BY <2>2, <3>1, <3>3 DEF SP!Responds, Handles, HandlerOf, Request
    <3>. QED
      BY <3>1, <3>3, <3>4, <3>5 DEF SP!Responds, RespondTo, Request
  <2>. QED
    BY <1>1, <1>2, <2>1, <2>2, <2>4, <2>5 DEF HasAnswered
<1>. QED
  BY <1>3, <1>4

LEMMA WhatIsWritten ==
  ASSUME NEW c \in Conn, NEW n \in Conn, ThreadAt(c, n), Writes(n)
  PROVE  \/ /\ c = n /\ SP!Responds(n)
            /\ Written(n).commend = respond[n] /\ respond[n] \in SP!Respond
         \/ Written(n).commend = "MESSAGE" /\ iter[c].channel \in Channel
<1>0. outbox[n] \in Seq(SP!OutFrame)
  BY ServerTypes DEF ThreadAt
<1>1. ASSUME NEW d \in Conn, NEW m \in SP!OutFrame, SP!Sends(d, m)
      PROVE  d = n /\ Written(n) = m
  <2>1. d = n /\ outbox'[n] = Append(outbox[n], m)
    BY <1>1, ServerTypes DEF SP!Sends, Writes, ThreadAt
  <2>. QED
    BY <1>0, <1>1, <2>1, AppendedIsLast DEF Written
<1>2. CASE SP!Responds(c)
  <2>1. PICK m \in SP!OutFrame : m = [commend |-> respond[c], id |-> 0]
    BY <1>2, OutFrames DEF SP!Responds
  <2>. QED
    BY <1>1, <1>2, <2>1 DEF SP!Responds
<1>3. CASE SP!Broadcasts(c)
  <2>1. PICK m \in SP!OutFrame : m = [commend |-> "MESSAGE", id |-> iter[c].id]
    BY OutFrames, ServerTypes DEF ThreadAt
  <2>2. iter[c].target \in Conn /\ SP!Sends(iter[c].target, m)
    BY <1>3, <2>1 DEF SP!Broadcasts, Conn, SP!Conn
  <2>. QED
    BY <1>1, <1>3, <2>1, <2>2 DEF SP!Broadcasts
<1>4. CASE SP!InHandler(c) \/ SP!Finishes(c) \/ SP!Leaves(c) \/ SP!Dies(c) \/ SP!Waits(c)
  BY <1>4 DEF SP!InHandler, SP!Finishes, SP!Leaves, SP!Dies, SP!Waits,
     SP!Silent, Writes
<1>. QED
  BY <1>2, <1>3, <1>4, ThreadSteps DEF ThreadAt

(* What is cut short, or does not arrive at all, has no other receipt.      *)
LEMMA ArrivesAsItWas ==
  ASSUME NEW q \in Seq(Answer), NEW s \in WhatArrives(q), NEW k \in DOMAIN s
  PROVE  \E j \in DOMAIN q : /\ s[k].receiptId = q[j].receiptId
                              /\ s[k].command = q[j].command
<1>1. CASE \E i \in 0 .. Len(q) : s = SubSeq(q, 1, i)
  BY <1>1
<1>2. ASSUME NEW i \in DOMAIN q,
             s = Append(SubSeq(q, 1, i - 1), [q[i] EXCEPT !.cut = TRUE])
      PROVE  \E j \in DOMAIN q : /\ s[k].receiptId = q[j].receiptId
                              /\ s[k].command = q[j].command
  <2>1. i \in 1 .. Len(q) /\ q[i] \in Answer
    OBVIOUS
  <2>2. PICK r \in Seq(Answer) : /\ r = SubSeq(q, 1, i - 1) /\ Len(r) = i - 1
                                 /\ \A j \in 1 .. i - 1 : r[j] = q[j]
    <3>1. PICK m \in 0 .. Len(q) : m = i - 1
      BY <2>1
    <3>2. /\ SubSeq(q, 1, m) \in Seq(Answer) /\ Len(SubSeq(q, 1, m)) = m
          /\ \A j \in 1 .. m : SubSeq(q, 1, m)[j] = q[j]
      OBVIOUS
    <3>. QED
      BY <3>1, <3>2
  <2>3. ASSUME NEW b \in Answer
        PROVE  /\ [b EXCEPT !.cut = TRUE] \in Answer
               /\ [b EXCEPT !.cut = TRUE].receiptId = b.receiptId
               /\ [b EXCEPT !.cut = TRUE].command = b.command
    BY DEF Answer
  <2>4. PICK a \in Answer : /\ a = [q[i] EXCEPT !.cut = TRUE]
                            /\ a.receiptId = q[i].receiptId
                            /\ a.command = q[i].command
    BY <2>1, <2>3
  <2>5. s = Append(r, a)
    BY <1>2, <2>2, <2>4
  <2>. QED
    BY <2>1, <2>2, <2>4, <2>5
<1>. QED
  BY <1>1, <1>2 DEF WhatArrives

LEMMA ReceiptsPassedOn ==
  ASSUME NEW c \in Conn, NEW n \in Conn, ThreadAt(c, n),
         NEW k \in DOMAIN fromServer'[n], NEW a, a = fromServer'[n][k],
         a.receiptId # 0 \/ a.command = "RECEIPT"
  PROVE  \/ \E j \in DOMAIN fromServer[n] :
              /\ a.receiptId = fromServer[n][j].receiptId
              /\ a.command = fromServer[n][j].command
         \/ /\ c = n /\ SP!Responds(n) /\ respond[n] = "RECEIPT"
            /\ a.receiptId = inHand[n].receipt
<1>. PICK q \in Seq(Answer) : q = fromServer[n]
  BY ClientTypes DEF ThreadAt
<1>. DEFINE got == IF Writes(n) THEN Append(q, AsAnswer(c, n)) ELSE q
<1>1. ASSUME Writes(n), NEW b, b = AsAnswer(c, n)
      PROVE  /\ b \in Answer
             /\ b.receiptId # 0 \/ b.command = "RECEIPT" =>
                  /\ c = n /\ SP!Responds(n) /\ respond[n] = "RECEIPT"
                  /\ b.receiptId = inHand[n].receipt
  <2>1. /\ \A r \in {0} \cup Ids : Receipt(r) \in Answer /\ Receipt(r).receiptId = r
        /\ inHand[n].receipt \in {0} \cup Ids
    <3>1. inHand[n] \in Frame
      BY DEF ThreadAt, SidesInv
    <3>. QED
      BY <3>1 DEF Receipt, Bare, Answer, EventKind, Frame
  <2>2. \A ch \in Channel : /\ Message(ch, "whole") \in Answer
                            /\ Message(ch, "whole").receiptId = 0
                            /\ Message(ch, "whole").command = "MESSAGE"
    BY SystemAssumption, ClientAssumption, AnswerTypes DEF Message, Bare
  <2>3. \A cmd \in {"CONNECTED", "ERROR"} : /\ Bare(cmd) \in Answer
                                            /\ Bare(cmd).receiptId = 0
                                            /\ Bare(cmd).command = cmd
    BY AnswerTypes DEF Bare
  <2>. QED
    BY <1>1, <2>1, <2>2, <2>3, WhatIsWritten DEF AsAnswer, SP!Respond
<1>2. got \in Seq(Answer)
  BY <1>1
<1>3. \A j \in DOMAIN got : \/ j \in DOMAIN q /\ got[j] = q[j]
                            \/ Writes(n) /\ got[j] = AsAnswer(c, n)
  <2>1. CASE Writes(n)
    BY <1>1, <2>1
  <2>. QED
    BY <2>1
<1>. HIDE DEF got
<1>4. \E j \in DOMAIN got : a.receiptId = got[j].receiptId /\ a.command = got[j].command
  <2>1. fromServer'[n] = got \/ fromServer'[n] \in WhatArrives(got)
    BY ClientTypes DEF ThreadAt, PassOn, got
  <2>. QED
    BY <1>2, <2>1, ArrivesAsItWas
<1>. QED
  BY <1>1, <1>3, <1>4

-----------------------------------------------------------------------------
(* The frame that a thread answers.                                         *)

LEMMA InHandFits ==
  ASSUME SystemIInv, NEW n \in Conn, Serving(n), pc[n] \notin {"unborn", "loop"}
  PROVE  /\ inHand[n] \in Frame /\ wire[n] \in Seq(Frame) /\ Fits(inHand[n])
         /\ toServer[n] = <<inHand[n]>> \o wire[n]
         /\ 1 \in DOMAIN toServer[n] /\ toServer[n][1] = inHand[n]
         /\ RequestOf(inHand[n], n) /\ InOrder(toServer[n])
         /\ \A f \in FramesOf(wire[n]) : Fits(f)
         /\ Handles(n) /\ frame[n] = Parsed(inHand[n])
<1>1. /\ inHand[n] \in Frame /\ wire[n] \in Seq(Frame)
      /\ toServer[n] = <<inHand[n]>> \o wire[n]
      /\ Handles(n) /\ frame[n] = Parsed(inHand[n])
  BY DEF SystemIInv, SidesInv, Serving
<1>2. /\ 1 \in DOMAIN toServer[n] /\ toServer[n][1] = inHand[n]
      /\ \A k \in DOMAIN wire[n] : /\ k + 1 \in DOMAIN toServer[n]
                                   /\ toServer[n][k + 1] = wire[n][k]
  BY <1>1, FramesPushed
<1>3. /\ InOrder(toServer[n])
      /\ \A k \in DOMAIN toServer[n] : /\ Fits(toServer[n][k])
                                       /\ RequestOf(toServer[n][k], n)
  BY DEF SystemIInv, FramesInv, OnTheWire, ClientInv, Requests
<1>4. ASSUME NEW f \in FramesOf(wire[n])
      PROVE  Fits(f)
  <2>1. PICK k \in DOMAIN wire[n] : f = wire[n][k]
    BY DEF FramesOf
  <2>2. PICK j \in DOMAIN toServer[n] : f = toServer[n][j]
    BY <1>2, <2>1
  <2>. QED
    BY <1>3, <2>2
<1>. QED
  BY <1>1, <1>2, <1>3, <1>4

(* Who has not asked to log out is not logged out.                          *)
LEMMA NotForgotten ==
  ASSUME SystemIInv, Live, NEW n \in Conn, sock = n, Serving(n)
  PROVE  ~SP!Forgetting(n)
<1>. SUFFICES ASSUME pc[n] \in {"DISCONNECT", "dbDisconnect"} PROVE FALSE
  BY DEF SP!Forgetting
<1>. PICK h \in Frame : h = inHand[n]
  BY InHandFits
<1>1. Fits(h) /\ RequestOf(h, n) /\ Handles(n)
  BY InHandFits
<1>2. h.command = "DISCONNECT" /\ h.receipt \in {0} \cup Ids
  BY <1>1 DEF Handles, HandlerOf, Frame, Request
<1>3. /\ h.receipt \in Ids /\ asked[h.receipt].text = LoggedOut
      /\ asked[h.receipt].conn = n
  BY <1>1, <1>2 DEF Fits, RequestOf, Expected
<1>4. asked[h.receipt] = [text |-> LoggedOut, conn |-> n]
  BY <1>3 DEF SystemIInv, ClientInv, ClientTypeOK, NetTypeOK
<1>. QED
  BY <1>3, <1>4 DEF Live

LEMMA OthersLogNobodyIn ==
  ASSUME SystemIInv, ~Ended, NEW c \in Conn, c # sock
  PROVE  ~SP!addUser(c) /\ ~SP!setConnected(c)
<1>1. NoLoginComes(c)
  BY DEF SystemIInv, AgreementInv, LoginsAgree
<1>. QED
  BY <1>1 DEF NoLoginComes, HandlerOf, Plain, SP!addUser, SP!setConnected

(* A CONNECT is one of the client's user.                                   *)
LEMMA ParsedLogin ==
  ASSUME SystemIInv, NEW n \in Conn, Serving(n),
         pc[n] \in {"addUser", "setConnected"}
  PROVE  frame[n].login = "user"
<1>. PICK h \in Frame : h = inHand[n]
  BY InHandFits
<1>1. Handles(n) /\ frame[n] = Parsed(h)
  BY InHandFits
<1>2. h.command = "CONNECT"
  BY <1>1 DEF Handles, HandlerOf, Frame, Request
<1>. QED
  BY <1>1, <1>2 DEF Parsed

LEMMA LoginStays ==
  ASSUME SystemIInv, ~Ended, NEW n \in Conn, sock = n, Serving(n), LoggedIn(n),
         NEW c \in Conn, Server!Step(c), c = n => ~SP!Forgetting(c)
  PROVE  LoggedIn(n)'
<1>. SP!IInv
  BY DEF SystemIInv
<1>1. CASE SP!StandsStill(c)
  BY <1>1 DEF SP!StandsStill, LoggedIn
<1>2. CASE SP!addSubscription(c) \/ SP!removeSubscription(c)
  BY <1>2 DEF SP!addSubscription, SP!addChannelSubscription,
     SP!removeSubscription, SP!removeChannelSubscription, LoggedIn
<1>3. CASE SP!Forgetting(c)
  <2>1. c # n /\ idToUser[c] = Null
    BY <1>3, SystemAssumption
    DEF SystemIInv, AgreementInv, LoginsAgree, OneLogin, LoggedIn
  <2>. QED
    BY <1>3, <2>1, DatabaseTypes, SystemAssumption
    DEF SP!Forgetting, SP!dbDisconnect, LoggedIn
<1>4. CASE SP!addUser(c) \/ SP!setConnected(c)
  <2>1. c = n
    BY <1>4, OthersLogNobodyIn
  <2>2. pc[n] \in {"addUser", "setConnected"}
    BY <1>4, <2>1 DEF SP!addUser, SP!setConnected
  <2>3. frame[n].login = "user"
    BY <2>2, ParsedLogin
  <2>. QED
    BY <1>4, <2>1, <2>3, DatabaseTypes
    DEF SP!addUser, SP!addOrUpdateUser, SP!setConnected, SP!setNewConnected,
        LoggedIn
<1>. QED
  BY <1>1, <1>2, <1>3, <1>4, StepOfDatabase

-----------------------------------------------------------------------------
(* What a thread does for the frame in its hand, and what its answer says.  *)

LEMMA HandledCommand ==
  ASSUME SystemIInv, NEW n \in Conn, Serving(n)
  PROVE  /\ pc[n] \in {"addUser", "setConnected"} => inHand[n].command = "CONNECT"
         /\ pc[n] = "addSubscription" => inHand[n].command = "SUBSCRIBE"
         /\ pc[n] = "removeSubscription" => inHand[n].command = "UNSUBSCRIBE"
         /\ pc[n] = "DISCONNECT" => inHand[n].command = "DISCONNECT"
         /\ pc[n] # "dbDisconnect"
<1>. SUFFICES ASSUME pc[n] \in {"addUser", "setConnected", "addSubscription",
                      "removeSubscription", "DISCONNECT", "dbDisconnect"}
              PROVE  /\ pc[n] \in {"addUser", "setConnected"}
                          => inHand[n].command = "CONNECT"
                     /\ pc[n] = "addSubscription" => inHand[n].command = "SUBSCRIBE"
                     /\ pc[n] = "removeSubscription"
                          => inHand[n].command = "UNSUBSCRIBE"
                     /\ pc[n] = "DISCONNECT" => inHand[n].command = "DISCONNECT"
                     /\ pc[n] # "dbDisconnect"
  OBVIOUS
<1>1. Handles(n) /\ inHand[n].command \in Request
  BY InHandFits DEF Frame
<1>. QED
  BY <1>1 DEF Handles, HandlerOf, Request

LEMMA Added ==
  ASSUME SystemIInv, NEW n \in Conn, Serving(n), SP!addSubscription(n),
         NEW h, h = inHand[n]
  PROVE  /\ h.command = "SUBSCRIBE" /\ h.destination \in Channel /\ h.id \in Ids
         /\ Server!Details(n)' = [Server!Details(n) EXCEPT ![h.id] = h.destination]
         /\ dbChannels' = [dbChannels EXCEPT ![h.destination] = @ \cup {n}]
<1>1. pc[n] = "addSubscription"
  BY DEF SP!addSubscription
<1>2. h \in Frame /\ frame[n] = Parsed(h) /\ Fits(h) /\ h.command = "SUBSCRIBE"
  BY <1>1, InHandFits, HandledCommand
<1>. PICK ch : ch = frame[n].destination
  OBVIOUS
<1>. PICK i : i = frame[n].id
  OBVIOUS
<1>3. /\ ch \in Channel /\ i \in Ids
      /\ SP!Details(n)' = [SP!Details(n) EXCEPT ![i] = ch]
      /\ dbChannels' = [dbChannels EXCEPT ![ch] = @ \cup {n}]
  <2>1. SP!IInv /\ Conn = SP!Conn
    BY DEF SystemIInv, Conn, SP!Conn
  <2>. QED
    BY <2>1, ServerAssumptions, SP!Adds
<1>4. ch = h.destination /\ i = h.id
  <2>1. ch = h.destination /\ i = IF h.id = 0 THEN Null ELSE h.id
    BY <1>2 DEF Parsed
  <2>. QED
    BY <1>2, <2>1 DEF Fits
<1>5. Server!Details(n)' = SP!Details(n)' /\ Server!Details(n) = SP!Details(n)
  BY DEF Server!Details, SP!Details, Server!NoDetails, SP!NoDetails
<1>. QED
  BY <1>2, <1>3, <1>4, <1>5

LEMMA Removed ==
  ASSUME SystemIInv, NEW n \in Conn, Serving(n), SP!removeSubscription(n),
         NEW h, h = inHand[n]
  PROVE  /\ h.command = "UNSUBSCRIBE" /\ h.id \in Ids
         /\ Server!Details(n)' = [Server!Details(n) EXCEPT ![h.id] = Null]
         /\ dbChannels'
              = [dbChannels EXCEPT ![Server!Details(n)[h.id]] = @ \ {n}]
<1>1. pc[n] = "removeSubscription"
  BY DEF SP!removeSubscription
<1>2. h \in Frame /\ frame[n] = Parsed(h) /\ Fits(h) /\ h.command = "UNSUBSCRIBE"
  BY <1>1, InHandFits, HandledCommand
<1>. PICK i : i = frame[n].id
  OBVIOUS
<1>. PICK ch : ch = SP!Details(n)[i]
  OBVIOUS
<1>3. /\ ch \in Channel /\ i \in Ids
      /\ SP!Details(n)' = [SP!Details(n) EXCEPT ![i] = Null]
      /\ dbChannels' = [dbChannels EXCEPT ![ch] = @ \ {n}]
  <2>1. SP!IInv /\ Conn = SP!Conn
    BY DEF SystemIInv, Conn, SP!Conn
  <2>. QED
    BY <2>1, ServerAssumptions, SP!Removes
<1>4. i = h.id
  <2>1. i = IF h.id = 0 THEN Null ELSE h.id
    BY <1>2 DEF Parsed
  <2>. QED
    BY <1>2, <2>1 DEF Fits
<1>5. Server!Details(n)' = SP!Details(n)' /\ Server!Details(n) = SP!Details(n)
  BY DEF Server!Details, SP!Details, Server!NoDetails, SP!NoDetails
<1>. QED
  BY <1>2, <1>3, <1>4, <1>5

LEMMA ThreadDone ==
  ASSUME SystemIInv, ~Ended, NEW c \in Conn, NEW n \in Conn, sock = n,
         ThreadAt(c, n), peer'[n] = "serving", pc'[n] = "respond",
         NEW h, h = inHand[n]
  PROVE  /\ respond'[n] = "CONNECTED" /\ h.command = "CONNECT" => LoggedIn(n)'
         /\ respond'[n] = "RECEIPT" =>
              /\ h.command = "SUBSCRIBE" => Server!Details(n)'[h.id] = h.destination
              /\ h.command = "UNSUBSCRIBE" => Server!Details(n)'[h.id] = Null
              /\ h.command = "DISCONNECT" => idToUser'[n] = Null
<1>. SP!IInv /\ Server!Step(c) /\ Serving(n) /\ peer[n] = "serving"
  BY ServedOn DEF SystemIInv, ThreadAt
<1>0. Serves
  BY ClientTypes DEF Serves, SystemIInv
<1>1. CASE c # n
  <2>1. /\ pc[n] = "respond" /\ respond'[n] = respond[n]
        /\ Server!Details(n)' = Server!Details(n) /\ idToUser'[n] = idToUser[n]
    BY <1>1, ThreadSteps, OthersKeep
  <2>2. LoggedIn(n) => LoggedIn(n)'
    BY <1>1, LoginStays
  <2>. QED
    BY <1>0, <2>1, <2>2 DEF SystemIInv, AgreementInv, Done, Granted, ChannelOf
<1>2. CASE c = n
  <2>1. respond'[n] \in RespondTo(h)
    <3>1. Serving(n)' /\ inHand'[n] = h
      BY ThreadSeen DEF Seen, BothSides, ThreadAt
    <3>. QED
      BY <3>1 DEF Serving, Handles, HandlerOf
  <2>2. h.command \in Request
    BY DEF Frame, ThreadAt, SidesInv
  <2>3. CASE SP!StandsStill(n)
    <3>1. CASE pc[n] = "respond" /\ respond'[n] = respond[n]
      <4>1. /\ Server!Details(n)' = Server!Details(n)
            /\ UNCHANGED idToUser /\ LoggedIn(n)' = LoggedIn(n)
        BY <2>3 DEF SP!StandsStill, Server!Details, Server!NoDetails, LoggedIn
      <4>. QED
        BY <1>0, <3>1, <4>1 DEF SystemIInv, AgreementInv, Done, Granted, ChannelOf
    <3>2. CASE respond'[n] = "ERROR"
      BY <3>2
    <3>. QED
      BY <2>3, <3>1, <3>2 DEF SP!StandsStill
  <2>4. CASE SP!Forgetting(n)
    <3>1. h.command = "DISCONNECT"
      BY <2>4, HandledCommand DEF SP!Forgetting
    <3>2. idToUser'[n] = Null
      BY <2>4, DatabaseTypes DEF SP!Forgetting, SP!dbDisconnect
    <3>. QED
      BY <2>1, <3>1, <3>2 DEF RespondTo
  <2>5. CASE SP!addSubscription(n)
    <3>1. /\ h.command = "SUBSCRIBE" /\ h.id \in Ids
          /\ Server!Details(n)' = [Server!Details(n) EXCEPT ![h.id] = h.destination]
      BY <2>5, Added
    <3>. QED
      BY <2>1, <3>1, DatabaseTypes DEF RespondTo
  <2>6. CASE SP!removeSubscription(n)
    <3>1. /\ h.command = "UNSUBSCRIBE" /\ h.id \in Ids
          /\ Server!Details(n)' = [Server!Details(n) EXCEPT ![h.id] = Null]
      BY <2>6, Removed
    <3>. QED
      BY <2>1, <3>1, DatabaseTypes DEF RespondTo
  <2>7. CASE SP!addUser(n) \/ SP!setConnected(n)
    <3>1. pc[n] \in {"addUser", "setConnected"}
      BY <2>7 DEF SP!addUser, SP!setConnected
    <3>2. h.command = "CONNECT" /\ frame[n].login = "user"
      BY <3>1, HandledCommand, ParsedLogin
    <3>3. LoggedIn(n)'
      BY <2>7, <3>2, DatabaseTypes
      DEF SP!addUser, SP!addOrUpdateUser, SP!setConnected, SP!setNewConnected,
          LoggedIn
    <3>. QED
      BY <2>1, <3>2, <3>3 DEF RespondTo
  <2>. QED
    BY <1>2, <2>3, <2>4, <2>5, <2>6, <2>7, StepOfDatabase
<1>. QED
  BY <1>1, <1>2

-----------------------------------------------------------------------------
(* What a thread does to the subscriptions of the client's connection.      *)

LEMMA GrantedStays ==
  ASSUME NEW c \in Conn, NEW n \in Conn, ThreadAt(c, n), peer'[n] = "serving",
         ~IsDone(n), Granted(n)
  PROVE  Granted(n)'
<1>1. pc[n] = "respond" /\ respond[n] = "RECEIPT"
  BY DEF Granted
<1>2. CASE c # n
  BY <1>1, <1>2, ThreadSteps DEF ThreadAt, Granted
<1>3. CASE c = n
  <2>0. ~Closes(n)
    BY ClientTypes DEF ThreadAt, PassOn
  <2>1. Serving(n) /\ ~Closes(n)
    BY <2>0, ServedOn
  <2>2. ~SP!Dies(n)
    BY <1>1, <2>1, ServerTypes DEF Serving, SP!Dies, Closes, ThreadAt
  <2>3. ~SP!Responds(n)
    BY <1>1 DEF SP!Responds, IsDone
  <2>4. SP!Waits(n)
    BY <1>1, <1>3, <2>2, <2>3, ThreadSteps DEF ThreadAt, SP!InHandler,
       SP!HandlerLabels, SP!Commend, SP!Broadcasts, SP!Finishes, SP!Leaves
  <2>. QED
    BY <2>4 DEF SP!Waits, SP!threadVars, Granted
<1>. QED
  BY <1>2, <1>3

(* No step of a thread is the client's.                                     *)
LEMMA ClientKnows ==
  ASSUME UNCHANGED clientOnly
  PROVE  /\ Known' = Known /\ Given' = Given
         /\ UNCHANGED <<asked, subscriptionId>>
<1>1. UNCHANGED <<channels, kpc, line, kframe, asked, subscriptionId>>
  BY DEF clientOnly, maps
<1>. QED
  BY <1>1, SameKnown

(* A frame is taken only by its own thread, and when it is answered.        *)
LEMMA OthersServed ==
  ASSUME NEW c \in Conn, NEW n \in Conn, c # n, ThreadAt(c, n),
         peer'[n] = "serving"
  PROVE  toServer'[n] = toServer[n]
BY ServedOn

LEMMA OtherAgreed ==
  ASSUME SystemIInv, NEW c \in Conn, NEW n \in Conn, c # n, ThreadAt(c, n),
         peer'[n] = "serving", Agreed(n)
  PROVE  Agreed(n)'
<1>1. /\ Server!Details(n)' = Server!Details(n)
      /\ \A ch \in Channel : n \in dbChannels'[ch] => n \in dbChannels[ch]
  BY OthersKeep DEF ThreadAt
<1>2. toServer'[n] = toServer[n]
  BY OthersServed
<1>3. Granted(n)' = Granted(n)
  BY ThreadSteps DEF ThreadAt, Granted
<1>4. /\ Known' = Known /\ Given' = Given
      /\ UNCHANGED <<asked, subscriptionId>>
  BY ClientKnows DEF ThreadAt
<1>. QED
  BY <1>1, <1>2, <1>3, <1>4 DEF Agreed, BroadcastTo

(* The thread has not answered yet, and changed no subscription ...         *)
LEMMA WaitAgreed ==
  ASSUME SystemIInv, NEW n \in Conn, ThreadAt(n, n), peer'[n] = "serving",
         Agreed(n), toServer'[n] = toServer[n], ~IsDone(n),
         UNCHANGED <<dbChannels, subscriptionsDetails>>
  PROVE  Agreed(n)'
<1>1. Server!Details(n)' = Server!Details(n) /\ (BroadcastTo(n) => BroadcastTo(n)')
  BY DEF Server!Details, Server!NoDetails, BroadcastTo
<1>2. /\ Known' = Known /\ Given' = Given
      /\ UNCHANGED <<asked, subscriptionId>>
  BY ClientKnows DEF ThreadAt
<1>3. Granted(n) => Granted(n)'
  BY GrantedStays
<1>4. Once(Server!Details(n), toServer[n], Granted(n)')
  BY <1>3, OnceLess DEF Agreed
<1>. QED
  BY <1>1, <1>2, <1>4 DEF Agreed

(* ... or has made one ...                                                  *)
LEMMA AddAgreed ==
  ASSUME SystemIInv, NEW n \in Conn, ThreadAt(n, n), Serving(n),
         Agreed(n), toServer'[n] = toServer[n], SP!addSubscription(n)
  PROVE  Agreed(n)'
<1>. PICK h \in Frame : h = inHand[n]
  BY DEF SystemIInv, SidesInv
<1>. PICK d : d = Server!Details(n)
  OBVIOUS
<1>. PICK s \in Seq(Frame) : s = toServer[n]
  BY ClientTypes DEF ThreadAt
<1>1. /\ h.command = "SUBSCRIBE" /\ h.destination \in Channel /\ h.id \in Ids
      /\ Server!Details(n)' = [d EXCEPT ![h.id] = h.destination]
      /\ dbChannels' = [dbChannels EXCEPT ![h.destination] = @ \cup {n}]
  BY Added
<1>2. /\ Fits(h) /\ 1 \in DOMAIN s /\ s[1] = h /\ InOrder(s)
      /\ pc[n] = "addSubscription"
  BY InHandFits DEF SP!addSubscription
<1>3. h.receipt = h.id + 1 /\ h.receipt # 0
  BY <1>1, <1>2, NumberTypes DEF Fits
<1>4. d[h.id] = Null
  <2>1. ~(h.id + 1 < h.receipt) /\ ~Granted(n)
    BY <1>1, <1>2, <1>3, NumberTypes DEF Granted
  <2>2. Once(d, s, Granted(n))
    BY DEF Agreed
  <2>. QED
    BY <1>1, <1>2, <1>3, <2>1, <2>2 DEF Once
<1>5. d \in [Ids -> Channel \cup {Null}]
  BY DatabaseTypes DEF SystemIInv
<1>6. /\ Known' = Known /\ Given' = Given
      /\ UNCHANGED <<asked, subscriptionId>>
  BY ClientKnows DEF ThreadAt
<1>. PICK e : e = [d EXCEPT ![h.id] = h.destination]
  OBVIOUS
<1>7. Agree(e, FramesOf(s), Known, Given, asked, subscriptionId, n)
  <2>1. ToSubscribe(FramesOf(s), h.destination, h.id)
    BY <1>1, <1>2 DEF ToSubscribe, FramesOf
  <2>2. Agree(d, FramesOf(s), Known, Given, asked, subscriptionId, n)
    BY DEF Agreed
  <2>. QED
    BY <1>1, <1>4, <1>5, <2>1, <2>2, AgreeAdds
<1>8. Once(e, s, Granted(n)')
  <2>1. Granted(n)'
    <3>1. frame[n] = Parsed(h)
      BY <1>2, InHandFits
    <3>2. frame[n].receipt
      <4>1. Parsed(h).receipt = (h.receipt # 0)
        BY DEF Parsed
      <4>. QED
        BY <1>3, <3>1, <4>1
    <3>. QED
      BY <3>2, ServerTypes DEF SP!addSubscription, SP!Reply, SP!ReceiptFor,
         Granted, ThreadAt
  <2>2. Once(d, s, Granted(n))
    BY DEF Agreed
  <2>3. Once(e, s, TRUE)
    BY <1>1, <1>2, <1>3, <1>5, <2>2, OnceAdds
  <2>. QED
    BY <2>1, <2>3, OnceLess
<1>9. BroadcastTo(n)'
  <2>1. ASSUME NEW ch \in Channel, n \in dbChannels'[ch]
        PROVE  \E i \in Ids : e[i] = ch
    <3>1. CASE ch = h.destination
      BY <1>1, <1>5, <3>1
    <3>2. CASE ch # h.destination
      <4>1. n \in dbChannels[ch]
        BY <1>1, <2>1, <3>2, DatabaseTypes DEF SystemIInv
      <4>2. PICK i \in Ids : d[i] = ch
        BY <4>1 DEF Agreed, BroadcastTo
      <4>3. i # h.id
        BY <1>4, <4>2, ClientAssumption
      <4>. QED
        BY <1>5, <4>2, <4>3
    <3>. QED
      BY <3>1, <3>2
  <2>. QED
    BY <1>1, <2>1 DEF BroadcastTo
<1>. QED
  BY <1>1, <1>6, <1>7, <1>8, <1>9 DEF Agreed

(* A frame that asks for a receipt has its number, and that of its channel. *)
LEMMA NumberedFrames ==
  ASSUME NEW f \in Frame
  PROVE  /\ f.id \in Nat /\ f.receipt \in Nat
         /\ Fits(f) /\ f.command \in {"SUBSCRIBE", "UNSUBSCRIBE"}
              => f.receipt # 0
<1>1. f.id \in Nat /\ f.receipt \in Nat
  BY NumberTypes DEF Frame
<1>2. Fits(f) => /\ f.command = "SUBSCRIBE" => f.receipt = f.id + 1
                 /\ f.command = "UNSUBSCRIBE" => f.id + 1 < f.receipt
  BY DEF Fits
<1>. QED
  BY <1>1, <1>2

(* ... or ended one ...                                                     *)
LEMMA RemoveAgreed ==
  ASSUME SystemIInv, NEW n \in Conn, ThreadAt(n, n), Serving(n),
         Agreed(n), toServer'[n] = toServer[n], SP!removeSubscription(n)
  PROVE  Agreed(n)'
<1>. PICK h \in Frame : h = inHand[n]
  BY DEF SystemIInv, SidesInv
<1>. PICK d : d = Server!Details(n)
  OBVIOUS
<1>. PICK s \in Seq(Frame) : s = toServer[n]
  BY ClientTypes DEF ThreadAt
<1>1. /\ h.command = "UNSUBSCRIBE" /\ h.id \in Ids
      /\ Server!Details(n)' = [d EXCEPT ![h.id] = Null]
      /\ dbChannels' = [dbChannels EXCEPT ![d[h.id]] = @ \ {n}]
  BY Removed
<1>2. Fits(h) /\ pc[n] = "removeSubscription"
  BY InHandFits DEF SP!removeSubscription
<1>3. \A ch \in Channel : h.id \notin Known[ch]
  BY <1>1, <1>2 DEF Fits, GivenUp, Known, Holds
<1>4. d \in [Ids -> Channel \cup {Null}]
  BY DatabaseTypes DEF SystemIInv
<1>5. /\ Known' = Known /\ Given' = Given
      /\ UNCHANGED <<asked, subscriptionId>>
  BY ClientKnows DEF ThreadAt
<1>. PICK e : e = [d EXCEPT ![h.id] = Null]
  OBVIOUS
<1>6. Agree(e, FramesOf(s), Known, Given, asked, subscriptionId, n)
  <2>1. Agree(d, FramesOf(s), Known, Given, asked, subscriptionId, n)
    BY DEF Agreed
  <2>. QED
    BY <1>1, <1>3, <1>4, <2>1, AgreeRemoves
<1>7. Once(e, s, Granted(n)')
  <2>1. Once(d, s, FALSE)
    <3>1. Once(d, s, Granted(n)) /\ Granted(n) = FALSE
      BY <1>2 DEF Agreed, Granted
    <3>. QED
      BY <3>1
  <2>2. \A j \in Ids : e[j] # Null => d[j] # Null
    BY <1>4
  <2>. QED
    BY <2>1, <2>2, OnceLess
<1>8. BroadcastTo(n)'
  <2>1. ASSUME NEW ch \in Channel, n \in dbChannels'[ch]
        PROVE  \E i \in Ids : e[i] = ch
    <3>1. n \in dbChannels[ch] /\ ch # d[h.id]
      BY <1>1, <2>1, DatabaseTypes DEF SystemIInv
    <3>2. PICK i \in Ids : d[i] = ch
      BY <3>1 DEF Agreed, BroadcastTo
    <3>3. i # h.id
      BY <3>1, <3>2
    <3>. QED
      BY <1>4, <3>2, <3>3
  <2>. QED
    BY <1>1, <2>1 DEF BroadcastTo
<1>. QED
  BY <1>1, <1>5, <1>6, <1>7, <1>8 DEF Agreed

(* Who is back in its loop has changed nothing on the way.                  *)
LEMMA BackUnchanged ==
  ASSUME SystemIInv, NEW n \in Conn, ThreadAt(n, n), Serving(n), pc'[n] = "loop"
  PROVE  UNCHANGED <<dbChannels, subscriptionsDetails, connectedUsers, idToUser>>
<1>. SP!IInv /\ Server!Step(n)
  BY DEF SystemIInv, ThreadAt
<1>1. ~SP!addSubscription(n) /\ ~SP!removeSubscription(n)
  BY ServerTypes DEF SP!addSubscription, SP!removeSubscription, SP!Reply
<1>2. ~SP!addUser(n) /\ ~SP!setConnected(n)
  BY ServerTypes DEF SP!addUser, SP!setConnected, SP!Reply
<1>3. ~SP!Forgetting(n)
  <2>1. ASSUME SP!Forgetting(n)
        PROVE  pc[n] = "DISCONNECT"
    BY <2>1, HandledCommand DEF SP!Forgetting
  <2>2. ASSUME pc[n] = "DISCONNECT"
        PROVE  pc'[n] # "loop"
    BY <2>2, ThreadSteps
    DEF SP!InHandler, SP!HandlerLabels, SP!Commend, SP!Broadcasts, SP!Finishes,
        SP!Responds, SP!Leaves, SP!Dies, SP!Waits, SP!threadVars
  <2>. QED
    BY <2>1, <2>2
<1>. QED
  BY <1>1, <1>2, <1>3, StepOfDatabase DEF SP!StandsStill

(* ... or has answered: what the frame asked for is done, and what it ended *)
(* is no longer on the way.                                                 *)
LEMMA PopAgreed ==
  ASSUME SystemIInv, NEW n \in Conn, ThreadAt(n, n), Serving(n), Serves,
         sock = n, Agreed(n), HasAnswered(n)
  PROVE  Agreed(n)'
<1>. PICK h \in Frame : h = inHand[n]
  BY DEF SystemIInv, SidesInv
<1>. PICK w \in Seq(Frame) : w = wire[n]
  BY DEF SystemIInv, SidesInv
<1>. PICK d : d = Server!Details(n)
  OBVIOUS
<1>1. /\ toServer[n] = <<h>> \o w /\ toServer'[n] = w /\ pc'[n] = "loop"
      /\ h.command # "SEND" =>
           /\ pc[n] = "respond"
           /\ respond[n] = IF h.command = "CONNECT" THEN "CONNECTED" ELSE "RECEIPT"
  BY DEF HasAnswered
<1>2. pc[n] \notin {"unborn", "loop"}
  BY DEF HasAnswered, Handles, HandlerOf
<1>3. /\ Fits(h) /\ InOrder(<<h>> \o w) /\ \A f \in FramesOf(w) : Fits(f)
  BY <1>1, <1>2, InHandFits
<1>4. /\ h.command = "SUBSCRIBE" => d[h.id] = h.destination
      /\ h.command = "UNSUBSCRIBE" => d[h.id] = Null
  BY <1>1 DEF SystemIInv, AgreementInv, Done, Granted, ChannelOf
<1>5. \A f \in FramesOf(w) : f.command = "SUBSCRIBE" =>
        /\ f.receipt = f.id + 1
        /\ h.command \in {"SUBSCRIBE", "UNSUBSCRIBE"} => h.receipt < f.receipt
  <2>1. \A f \in FramesOf(w) : f \in Frame
    BY DEF FramesOf
  <2>2. \A f \in Frame : Fits(f) /\ f.command \in {"SUBSCRIBE", "UNSUBSCRIBE"}
          => f.receipt # 0
    BY NumberedFrames
  <2>3. \A f \in FramesOf(w) : h.receipt # 0 /\ f.receipt # 0
          => h.receipt < f.receipt
    BY <1>3, ConnectIsFirst
  <2>. QED
    BY <1>3, <2>1, <2>2, <2>3 DEF Fits
<1>6. \A i, j \in Ids : d[i] # Null /\ d[i] = d[j] => i = j
  BY DatabaseTypes DEF SystemIInv
<1>7. /\ h.command = "SUBSCRIBE" => h.receipt = h.id + 1
      /\ h.command = "UNSUBSCRIBE" =>
           h.id \in Nat /\ h.receipt \in Nat /\ h.id + 1 < h.receipt
  BY <1>3, NumberedFrames DEF Fits
<1>8. FramesOf(toServer[n]) = FramesOf(w) \cup {h}
  <2>. PICK s : s = <<h>> \o w
    OBVIOUS
  <2>1. FramesOf(s) = FramesOf(w) \cup {h}
    BY ONLY FramesPushed, h \in Frame, w \in Seq(Frame), s = <<h>> \o w
  <2>. QED
    BY <1>1, <2>1
<1>9. Agree(d, FramesOf(w), Known, Given, asked, subscriptionId, n)
  <2>1. Agree(d, FramesOf(w) \cup {h}, Known, Given, asked, subscriptionId, n)
    BY <1>8 DEF Agreed
  <2>2. Agree(d, FramesOf(w), Known, Given, asked, subscriptionId, n)
    <3>1. /\ h.command = "SUBSCRIBE"
               => h.receipt = h.id + 1 /\ d[h.id] = h.destination
          /\ h.command = "UNSUBSCRIBE"
               => /\ h.id \in Nat /\ h.receipt \in Nat
                  /\ h.id + 1 < h.receipt /\ d[h.id] = Null
      BY <1>4, <1>7
    <3>. QED
      BY ONLY <1>5, <1>6, <2>1, <3>1, AgreePops
  <2>. QED
    BY <2>2
<1>10. Once(d, w, Granted(n)')
  <2>1. Once(d, <<h>> \o w, Granted(n))
    BY <1>1 DEF Agreed
  <2>2. Once(d, w, FALSE)
    BY <2>1, OncePops
  <2>. QED
    BY <2>2, OnceLess
<1>11. Server!Details(n)' = d /\ BroadcastTo(n)'
  <2>1. UNCHANGED <<dbChannels, subscriptionsDetails>>
    BY <1>1, BackUnchanged
  <2>. QED
    BY <2>1 DEF Agreed, BroadcastTo, Server!Details, Server!NoDetails
<1>12. /\ Known' = Known /\ Given' = Given
       /\ UNCHANGED <<asked, subscriptionId>>
  BY ClientKnows DEF ThreadAt
<1>. QED
  BY <1>1, <1>9, <1>10, <1>11, <1>12 DEF Agreed

LEMMA ThreadAgreed ==
  ASSUME SystemIInv, NEW c \in Conn, NEW n \in Conn, ThreadAt(c, n),
         peer'[n] = "serving", sock = n, Live, Agreed(n)
  PROVE  Agreed(n)'
<1>1. CASE c # n
  BY <1>1, OtherAgreed
<1>2. CASE c = n
  <2>1. Serving(n) /\ Serves
    BY ServedOn DEF Live
  <2>2. CASE HasAnswered(n)
    BY <1>2, <2>1, <2>2, PopAgreed
  <2>3. CASE toServer'[n] = toServer[n] /\ ~IsDone(n)
    <3>1. CASE UNCHANGED <<dbChannels, subscriptionsDetails>>
      BY <1>2, <2>3, <3>1, WaitAgreed
    <3>2. CASE SP!addSubscription(n)
      BY <1>2, <2>1, <2>3, <3>2, AddAgreed
    <3>3. CASE SP!removeSubscription(n)
      BY <1>2, <2>1, <2>3, <3>3, RemoveAgreed
    <3>4. ~SP!Forgetting(n)
      BY <2>1, NotForgotten
    <3>5. SP!StandsStill(n) \/ SP!addUser(n) \/ SP!setConnected(n)
            => UNCHANGED <<dbChannels, subscriptionsDetails>>
      BY DEF SP!StandsStill, SP!addUser, SP!addOrUpdateUser, SP!setConnected,
         SP!setNewConnected
    <3>6. SP!IInv /\ Server!Step(n)
      BY <1>2 DEF ThreadAt
    <3>. QED
      BY <3>1, <3>2, <3>3, <3>4, <3>5, <3>6, StepOfDatabase
  <2>. QED
    BY <1>2, <2>2, <2>3, ServedOn
<1>. QED
  BY <1>1, <1>2

-----------------------------------------------------------------------------
(* What a thread leaves of the agreement.                                   *)

LEMMA ThreadsAreBorn ==
  ASSUME SP!IInv, NEW c \in Conn, Server!Step(c)
  PROVE  pc[c] # "unborn" /\ pc'[c] # "unborn"
<1>1. pc[c] # "unborn"
  BY ThreadSteps
<1>2. pc[c] \in {"dbDisconnect", "removeHandler"} => frame[c].commend # "OTHER"
  <2>1. c \in SP!Conn
    BY DEF Conn, SP!Conn
  <2>. QED
    BY <2>1 DEF SP!IInv, SP!ThreadInv, SP!ErrorPathState
<1>3. CASE SP!InHandler(c)
  BY <1>1, <1>3 DEF SP!InHandler, SP!HandlerLabels, SP!Commend
<1>4. CASE SP!Broadcasts(c) \/ SP!Finishes(c) \/ SP!Dies(c)
  BY <1>1, <1>4 DEF SP!Broadcasts, SP!Finishes, SP!Dies
<1>5. CASE SP!Responds(c)
  BY <1>1, <1>5 DEF SP!Responds, SP!ErrorPath
<1>6. CASE SP!Leaves(c)
  BY <1>1, <1>2, <1>6 DEF SP!Leaves, SP!ErrorPath
<1>7. CASE SP!Waits(c)
  BY <1>1, <1>7 DEF SP!Waits, SP!threadVars
<1>. QED
  BY <1>1, <1>3, <1>4, <1>5, <1>6, <1>7, ThreadSteps

LEMMA StaysUnknown ==
  ASSUME SP!IInv, UnbornAreUnknown, NEW c \in Conn, Server!Step(c)
  PROVE  UnbornAreUnknown'
<1>. SUFFICES ASSUME NEW m \in Conn, pc'[m] = "unborn"
              PROVE  Server!HasNoEntry(m)'
  BY DEF UnbornAreUnknown
<1>1. m # c
  BY ThreadsAreBorn
<1>2. Server!HasNoEntry(m)
  BY <1>1, ThreadSteps DEF UnbornAreUnknown
<1>. QED
  BY <1>1, <1>2, OthersKeep DEF Server!HasNoEntry

(* Who is to get a receipt has its login behind it; and the one of a logout *)
(* is written when the logout is done.                                      *)
LEMMA ConfirmedIsDone ==
  ASSUME SystemIInv, NEW n \in Conn, sock = n, BothSides(n), peer[n] # "gone",
         SP!Responds(n), respond[n] = "RECEIPT",
         NEW h, h = inHand[n]
  PROVE  /\ NoLoginComes(n)
         /\ h.receipt # 0 /\ asked[h.receipt].text = LoggedOut
              => idToUser[n] = Null
<1>1. pc[n] = "respond"
  BY DEF SP!Responds
<1>2. peer[n] = "serving" /\ Serving(n)
  BY <1>1 DEF BothSides, Refused
<1>3. /\ h \in Frame /\ Fits(h) /\ wire[n] \in Seq(Frame)
      /\ InOrder(<<h>> \o wire[n])
  BY <1>1, <1>2, InHandFits
<1>4. ASSUME h.receipt # 0, asked[h.receipt].text = LoggedOut
      PROVE  idToUser[n] = Null
  <2>1. /\ \A ch : Joined(ch) # LoggedOut
        /\ LoggedOut.what # "Exited channel"
    <3>1. /\ \A ch : Joined(ch).what = "Joined channel"
          /\ LoggedOut.what = "Logged out"
      BY DEF Joined, LoggedOut
    <3>. QED
      BY <3>1
  <2>2. h.command = "DISCONNECT"
    BY <1>3, <1>4, <2>1 DEF Fits, Frame, Request
  <2>. QED
    BY <1>1, <1>2, <2>2, ClientTypes
    DEF SystemIInv, AgreementInv, Done, Serves, Granted
<1>5. \A k \in DOMAIN wire[n] : wire[n][k].command # "CONNECT"
  BY <1>3, ConnectIsFirst
<1>. QED
  BY <1>1, <1>4, <1>5 DEF NoLoginComes, HandlerOf, Plain

LEMMA ThreadConfirms ==
  ASSUME SystemIInv, NEW c \in Conn, NEW n \in Conn, sock = n, ThreadAt(c, n)
  PROVE  LogoutConfirmedOnlyIfDone'
<1>1. UNCHANGED <<sock, spc, sframe, asked, wire>> /\ SP!IInv /\ Server!Step(c)
      /\ BothSides(n) /\ peer[n] # "gone" /\ n # NoSocket
  BY ClientTypes DEF ThreadAt, clientOnly
<1>2. NoLoginComes(n) => /\ NoLoginComes(n)'
                         /\ idToUser[n] = Null => idToUser'[n] = Null
  BY <1>1, ThreadsLogNobodyIn
<1>3. ASSUME NEW k \in DOMAIN fromServer'[n], NEW a, a = fromServer'[n][k]
      PROVE  /\ a.command = "RECEIPT" => NoLoginComes(n)
             /\ Confirms(a) => idToUser[n] = Null
  <2>. SUFFICES ASSUME a.command = "RECEIPT"
                PROVE  NoLoginComes(n) /\ (Confirms(a) => idToUser[n] = Null)
    BY DEF Confirms
  <2>1. ASSUME NEW j \in DOMAIN fromServer[n],
               a.receiptId = fromServer[n][j].receiptId,
               a.command = fromServer[n][j].command
        PROVE  NoLoginComes(n) /\ (Confirms(a) => idToUser[n] = Null)
    <3>1. Confirms(a) => Confirms(fromServer[n][j])
      BY <2>1 DEF Confirms
    <3>. QED
      BY <1>1, <2>1, <3>1 DEF SystemIInv, AgreementInv, LogoutConfirmedOnlyIfDone
  <2>2. ASSUME c = n, SP!Responds(n), respond[n] = "RECEIPT",
               a.receiptId = inHand[n].receipt
        PROVE  NoLoginComes(n) /\ (Confirms(a) => idToUser[n] = Null)
    BY <1>1, <2>2, ConfirmedIsDone DEF Confirms
  <2>. QED
    BY <1>3, <2>1, <2>2, ReceiptsPassedOn
<1>4. ASSUME spc \in {"receipt", "loggedOut", "close"}
      PROVE  /\ NoLoginComes(n)
             /\ Confirms(sframe) => BrokenOff \/ idToUser[n] = Null
  BY <1>1, <1>4 DEF SystemIInv, AgreementInv, LogoutConfirmedOnlyIfDone
<1>5. ~BrokenOff
  BY <1>1 DEF BrokenOff
<1>6. /\ \A a : Confirms(a)' = Confirms(a)
      /\ Confirms(sframe)' = Confirms(sframe)
  BY <1>1 DEF Confirms
<1>7. ASSUME NEW k \in DOMAIN fromServer'[n], NEW a, a = fromServer'[n][k]
      PROVE  /\ a.command = "RECEIPT" => NoLoginComes(n)'
             /\ Confirms(a)' => idToUser'[n] = Null
  <2>1. Confirms(a)' => a.command = "RECEIPT" /\ Confirms(a)
    BY <1>6 DEF Confirms
  <2>. QED
    BY <1>2, <1>3, <1>7, <2>1
<1>8. ASSUME spc' \in {"receipt", "loggedOut", "close"}
      PROVE  /\ NoLoginComes(n)'
             /\ Confirms(sframe)' => idToUser'[n] = Null
  BY <1>1, <1>2, <1>4, <1>5, <1>6, <1>8
<1>9. sock' = n
  BY <1>1
<1>. QED
  BY <1>7, <1>8, <1>9 DEF LogoutConfirmedOnlyIfDone, Confirms

(* The CONNECT that is answered has logged the client in.                   *)
LEMMA ThreadLogin ==
  ASSUME SystemIInv, ~Ended, NEW c \in Conn, NEW n \in Conn, sock = n,
         ThreadAt(c, n), peer'[n] = "serving", Live,
         LoggedIn(n) \/ ToConnect(FramesOf(toServer[n]))
  PROVE  LoggedIn(n)' \/ ToConnect(FramesOf(toServer'[n]))
<1>1. Serving(n) /\ Server!Step(c) /\ Serves
  BY ServedOn DEF ThreadAt, Live
<1>2. CASE LoggedIn(n)
  BY <1>1, <1>2, LoginStays, NotForgotten
<1>3. CASE ~LoggedIn(n) /\ toServer'[n] = toServer[n]
  BY <1>3
<1>4. CASE ~LoggedIn(n) /\ c = n /\ HasAnswered(n)
  <2>. PICK h \in Frame : h = inHand[n]
    BY DEF SystemIInv, SidesInv
  <2>. PICK w \in Seq(Frame) : w = wire[n]
    BY DEF SystemIInv, SidesInv
  <2>1. /\ toServer[n] = <<h>> \o w /\ toServer'[n] = w
        /\ h.command = "CONNECT" => pc[n] = "respond" /\ respond[n] = "CONNECTED"
    BY <1>4 DEF HasAnswered
  <2>2. h.command # "CONNECT"
    BY <1>1, <1>4, <2>1 DEF SystemIInv, AgreementInv, Done
  <2>. PICK s : s = <<h>> \o w
    OBVIOUS
  <2>3. FramesOf(s) = FramesOf(w) \cup {h}
    BY ONLY FramesPushed, h \in Frame, w \in Seq(Frame), s = <<h>> \o w
  <2>4. ToConnect(FramesOf(s)) => ToConnect(FramesOf(w))
    BY <2>2, <2>3 DEF ToConnect
  <2>. QED
    BY <1>4, <2>1, <2>4
<1>. QED
  BY <1>2, <1>3, <1>4, ServedOn

(* Two connections are never logged in, for who is past the check found     *)
(* nobody in the list, and no other connection has a login under way.       *)
LEMMA OneLoginStays ==
  ASSUME SystemIInv, ~Ended, NEW c \in Conn, Server!Step(c)
  PROVE  OneLogin'
<1>. SP!IInv /\ OneLogin
  BY DEF SystemIInv, AgreementInv, LoginsAgree
<1>1. /\ SP!Step(c) /\ c \in SP!Conn
      /\ \A m \in Conn : m # c => pc'[m] = pc[m]
  BY SameStep, ThreadSteps DEF Conn, SP!Conn
<1>2. HandlerOf(Plain("CONNECT")) = SP!HandlerLabels("CONNECT")
  BY DEF HandlerOf, Plain, SP!HandlerLabels
<1>3. ASSUME PastTheCheck(c)'
      PROVE  /\ pc[c] \in SP!HandlerLabels("CONNECT")
             /\ PastTheCheck(c) \/ "user" \notin connectedUsers
  <2>1. pc'[c] \in SP!HandlerLabels("CONNECT") \ {"CONNECT"}
    BY <1>2, <1>3 DEF PastTheCheck
  <2>2. pc[c] \in SP!HandlerLabels("CONNECT")
    BY <1>1, <2>1, ServerAssumptions, SP!LoginLabelsOnly
  <2>3. CASE pc[c] = "CONNECT"
    <3>1. frame[c].login \in User \ connectedUsers
      BY <1>1, <2>1, <2>3, ServerAssumptions, SP!LoginIsChecked
    <3>. QED
      BY <2>2, <3>1 DEF User
  <2>4. CASE pc[c] # "CONNECT"
    BY <1>2, <2>2, <2>4 DEF PastTheCheck
  <2>. QED
    BY <2>3, <2>4
<1>4. \A m \in Conn : m # c => PastTheCheck(m)' = PastTheCheck(m)
  BY <1>1 DEF PastTheCheck
<1>5. CASE UNCHANGED <<idToUser, connectedUsers>>
  <2>1. \A n \in Conn : idToUser'[n] = idToUser[n] /\ LoggedIn(n)' = LoggedIn(n)
    BY <1>5 DEF LoggedIn
  <2>2. ASSUME NEW n \in Conn, idToUser[n] # Null, NEW m \in Conn \ {n}
        PROVE  ~PastTheCheck(m)'
    <3>1. "user" \in connectedUsers /\ ~PastTheCheck(m)
      BY <2>2 DEF OneLogin, LoggedIn
    <3>. QED
      BY <1>3, <1>4, <3>1
  <2>. QED
    BY <2>1, <2>2 DEF OneLogin
<1>6. CASE SP!Forgetting(c)
  <2>1. ~PastTheCheck(c)'
    BY <1>3, <1>6 DEF SP!Forgetting, SP!HandlerLabels
  <2>2. /\ idToUser' = [idToUser EXCEPT ![c] = Null]
        /\ connectedUsers' = connectedUsers \ {idToUser[c]}
    BY <1>6 DEF SP!Forgetting, SP!dbDisconnect
  <2>3. \A m \in Conn : idToUser'[m] = IF m = c THEN Null ELSE idToUser[m]
    BY <2>2, DatabaseTypes
  <2>4. ASSUME NEW n \in Conn, idToUser'[n] # Null
        PROVE  LoggedIn(n)'
    <3>1. n # c /\ LoggedIn(n) /\ idToUser[c] = Null
      BY <2>3, <2>4 DEF OneLogin
    <3>. QED
      BY <2>2, <2>3, <3>1, SystemAssumption DEF LoggedIn
  <2>. QED
    BY <1>4, <2>1, <2>3, <2>4 DEF OneLogin
<1>7. CASE SP!addUser(c) \/ SP!setConnected(c)
  <2>1. pc[c] \in {"addUser", "setConnected"} /\ PastTheCheck(c)
    BY <1>7 DEF SP!addUser, SP!setConnected, PastTheCheck, HandlerOf, Plain
  <2>2. frame[c].login = "user"
    BY <1>1, <2>1 DEF SP!IInv, SP!ThreadInv, SP!LoginChecked, User
  <2>3. /\ idToUser' = [idToUser EXCEPT ![c] = "user"]
        /\ connectedUsers' = connectedUsers \cup {"user"}
    BY <1>7, <2>2
    DEF SP!addUser, SP!addOrUpdateUser, SP!setConnected, SP!setNewConnected
  <2>4. \A m \in Conn : idToUser'[m] = IF m = c THEN "user" ELSE idToUser[m]
    BY <2>3, DatabaseTypes
  <2>5. \A m \in Conn : m # c => idToUser[m] = Null
    BY <2>1 DEF OneLogin
  <2>6. \A m \in Conn : m # c => ~PastTheCheck(m)
    <3>1. c = sock
      BY <1>7, OthersLogNobodyIn
    <3>. QED
      BY <3>1 DEF SystemIInv, AgreementInv, LoginsAgree, NoLoginComes, PastTheCheck
  <2>. QED
    BY <1>4, <2>3, <2>4, <2>5, <2>6 DEF OneLogin, LoggedIn
<1>. QED
  BY <1>5, <1>6, <1>7, StepOfDatabase
  DEF SP!StandsStill, SP!addSubscription, SP!addChannelSubscription,
      SP!removeSubscription, SP!removeChannelSubscription

LEMMA ThreadAgrees ==
  ASSUME SystemIInv, ~Ended, UNCHANGED clientOnly, NEW c \in Conn, Thread(c)
  PROVE  AgreementInv'
<1>. AgreementInv /\ ClientInv /\ SidesInv /\ SP!IInv
  BY DEF SystemIInv
<1>0. /\ Server!Step(c) /\ UNCHANGED <<wire, inHand>>
      /\ UNCHANGED <<sock, asked, spc, sframe, kpc>>
  BY DEF Thread, clientOnly
<1>1. UnbornAreUnknown'
  BY <1>0, StaysUnknown DEF AgreementInv
<1>2. OneLogin' /\ \A m \in Conn : m # sock => NoLoginComes(m)'
  BY <1>0, ThreadsLogNobodyIn, OneLoginStays DEF AgreementInv, LoginsAgree
<1>3. CASE sock # NoSocket /\ peer[sock] # "gone"
  <2>. PICK n \in Conn : n = sock
    BY <1>3, ClientTypes
  <2>1. ThreadAt(c, n)
    BY <1>0, <1>3 DEF Thread, ThreadAt, SidesInv
  <2>2. LogoutConfirmedOnlyIfDone'
    BY <2>1, ThreadConfirms
  <2>3. CASE peer'[n] = "serving"
    <3>1. Live' = Live
      <4>1. peer[n] = "serving"
        BY <2>1, <2>3, ServedOn
      <4>. QED
        BY <1>0, <2>3, <4>1 DEF Live, Serves
    <3>2. Done'
      <4>1. ASSUME pc'[n] = "respond", NEW h, h = inHand[n]
            PROVE  /\ respond'[n] = "CONNECTED" /\ h.command = "CONNECT"
                        => LoggedIn(n)'
                   /\ respond'[n] = "RECEIPT" =>
                        /\ h.command = "SUBSCRIBE"
                             => Server!Details(n)'[h.id] = h.destination
                        /\ h.command = "UNSUBSCRIBE"
                             => Server!Details(n)'[h.id] = Null
                        /\ h.command = "DISCONNECT" => idToUser'[n] = Null
        BY <2>1, <2>3, <4>1, ThreadDone
      <4>. QED
        BY <1>0, <4>1 DEF Done, Granted, ChannelOf, LoggedIn
    <3>3. SubscriptionsAgree' /\ SubscribedOnce'
      <4>1. CASE Live
        <5>1. Agreed(n)
          BY <4>1, AsValues DEF ValuesFit, AgreementInv
        <5>2. Agreed(n)'
          BY <2>1, <2>3, <4>1, <5>1, ThreadAgreed
        <5>. QED
          BY <1>0, <5>2, AsValuesNext
      <4>. QED
        BY <3>1, <4>1, NotLive
    <3>4. LoginsAgree'
      <4>1. ASSUME Live, kpc \notin {"setConect", "sendConnect"}
            PROVE  \/ LoggedIn(n)'
                   \/ \E k \in DOMAIN toServer'[n] :
                        toServer'[n][k].command = "CONNECT"
        <5>1. LoggedIn(n) \/ ToConnect(FramesOf(toServer[n]))
          BY <4>1 DEF AgreementInv, LoginsAgree, ToConnect, FramesOf
        <5>2. LoggedIn(n)' \/ ToConnect(FramesOf(toServer'[n]))
          BY <2>1, <2>3, <4>1, <5>1, ThreadLogin
        <5>. QED
          BY <5>2 DEF ToConnect, FramesOf
      <4>. QED
        BY <1>0, <1>2, <3>1, <4>1 DEF LoginsAgree, LoggedIn
    <3>. QED
      BY <1>1, <2>2, <3>2, <3>3, <3>4 DEF AgreementInv
  <2>4. CASE peer'[n] # "serving"
    <3>1. ~Serves' /\ ~Live'
      BY <1>0, <2>4 DEF Live, Serves
    <3>. QED
      BY <1>0, <1>1, <1>2, <2>2, <3>1, NotLive DEF AgreementInv, Done, LoginsAgree
  <2>. QED
    BY <2>3, <2>4
<1>4. CASE sock = NoSocket \/ peer[sock] = "gone"
  <2>1. UNCHANGED network
    BY <1>4 DEF Thread
  <2>2. ~Serves' /\ ~Live'
    BY <1>0, <1>4, <2>1 DEF Live, Serves, network
  <2>3. LogoutConfirmedOnlyIfDone'
    <3>1. \A a : Confirms(a)' = Confirms(a)
      BY <1>0 DEF Confirms
    <3>2. sock # NoSocket => sock \in Conn
      BY ClientTypes
    <3>3. ASSUME NEW n \in Conn, n = sock, NoLoginComes(n)
          PROVE  NoLoginComes(n)' /\ (idToUser[n] = Null => idToUser'[n] = Null)
      BY <1>0, <3>3, ThreadsLogNobodyIn
    <3>4. /\ UNCHANGED <<fromServer, peer>> /\ BrokenOff' = BrokenOff
          /\ Confirms(sframe)' = Confirms(sframe)
      BY <1>0, <2>1 DEF network, BrokenOff, Confirms
    <3>5. SUFFICES ASSUME NEW n \in Conn, n = sock
                   PROVE  LogoutConfirmedOnlyIfDone'
      BY <1>0, <3>2 DEF LogoutConfirmedOnlyIfDone
    <3>6. ASSUME NEW k \in DOMAIN fromServer[n], NEW a, a = fromServer[n][k]
          PROVE  /\ a.command = "RECEIPT" => NoLoginComes(n)'
                 /\ Confirms(a)' => idToUser'[n] = Null
      <4>1. /\ a.command = "RECEIPT" => NoLoginComes(n)
            /\ Confirms(a) => idToUser[n] = Null
        BY <3>2, <3>5, <3>6, ClientTypes DEF AgreementInv, LogoutConfirmedOnlyIfDone
      <4>2. Confirms(a) => a.command = "RECEIPT"
        BY DEF Confirms
      <4>. QED
        BY <3>1, <3>3, <3>5, <4>1, <4>2
    <3>7. ASSUME spc \in {"receipt", "loggedOut", "close"}
          PROVE  /\ NoLoginComes(n)'
                 /\ Confirms(sframe) => BrokenOff \/ idToUser'[n] = Null
      <4>1. /\ NoLoginComes(n)
            /\ Confirms(sframe) => BrokenOff \/ idToUser[n] = Null
        BY <3>5, <3>7, ClientTypes DEF AgreementInv, LogoutConfirmedOnlyIfDone
      <4>. QED
        BY <3>3, <3>5, <4>1
    <3>. QED
      BY <1>0, <3>4, <3>5, <3>6, <3>7 DEF LogoutConfirmedOnlyIfDone, Confirms
  <2>. QED
    BY <1>0, <1>1, <1>2, <2>2, <2>3, NotLive DEF AgreementInv, Done, LoginsAgree
<1>. QED
  BY <1>3, <1>4

LEMMA ServerAgreement ==
  ASSUME SystemIInv, ServerStep
  PROVE  AgreementInv'
BY AcceptAgrees, EofAgrees, ReadAgrees, ThreadAgrees DEF ServerStep

-----------------------------------------------------------------------------
(* When nothing is under way, what is left of it is what both sides have.   *)

LEMMA KnownWhenIdle ==
  ASSUME ClientInv, FramesInv, kpc \in {"loop", "getline"}, NEW ch \in Channel
  PROVE  /\ \A i \in Ids : i \in Known[ch] <=> channels[ch] = i
         /\ channels[ch] # 0 => channels[ch] \in Known[ch]
         /\ Given = {}
<1>1. \A i \in Ids : i \in Known[ch] <=> channels[ch] = i
  BY DEF Known, Holds
<1>2. channels[ch] # 0 => channels[ch] \in Ids
  <2>1. /\ channels[ch] \in Nat /\ subscriptionId \in Nat /\ typed \in 0 .. MaxLines
        /\ subscriptionId <= 2 * typed
    BY ChannelNumbers DEF ClientInv, ClientTypeOK, ThreadTypeOK, NumbersAreFresh
  <2>2. channels[ch] # 0 => channels[ch] + 1 <= subscriptionId
    BY DEF FramesInv, Drawn
  <2>. QED
    BY <2>1, <2>2, NumberTypes DEF Ids
<1>3. Given = {}
  BY DEF Given
<1>. QED
  BY <1>1, <1>2, <1>3

LEMMA QuietAgreed ==
  ASSUME SystemIInv, Quiet, NEW n \in Conn, n = sock, NEW d,
         d = Server!Details(n), NEW ch \in Channel
  PROVE  /\ JoinedHere(ch) <=> n \in dbChannels[ch]
         /\ \A i \in Ids : d[i] = ch <=> JoinedHere(ch) /\ channels[ch] = i
<1>. ClientInv /\ FramesInv /\ SP!IInv
  BY DEF SystemIInv
<1>1. kpc \in {"loop", "getline"} /\ Live /\ toServer[n] = <<>>
  BY DEF Quiet, Live, Serves
<1>2. Agreed(n)
  BY <1>1, AsValues DEF SystemIInv, AgreementInv, ValuesFit
<1>3. /\ \A i \in Ids : i \in Known[ch] <=> channels[ch] = i
      /\ channels[ch] # 0 => channels[ch] \in Known[ch]
      /\ Given = {}
  BY <1>1, KnownWhenIdle
<1>4. FramesOf(toServer[n]) = {}
  BY <1>1 DEF FramesOf
<1>5. \A i \in Ids :
        /\ i \in Known[ch] /\ asked[i + 1].conn = n => d[i] = ch
        /\ d[i] = ch => /\ asked[i + 1] = [text |-> Joined(ch), conn |-> n]
                        /\ i \in Known[ch]
  BY <1>2, <1>3, <1>4 DEF Agreed, Agree, IsMade, IsEnding, ToSubscribe, ToEnd
<1>6. \A i \in Ids : d[i] = ch <=> JoinedHere(ch) /\ channels[ch] = i
  BY <1>3, <1>5, NumberTypes DEF JoinedHere
<1>7. n \in dbChannels[ch] <=> \E i \in Ids : d[i] = ch
  <2>1. n \in dbChannels[ch] => \E i \in Ids : d[i] = ch
    BY <1>2 DEF Agreed, BroadcastTo
  <2>2. ASSUME NEW i \in Ids, d[i] = ch
        PROVE  n \in dbChannels[ch]
    <3>1. n \in SP!Conn /\ SP!Details(n)[i] = ch /\ ch # Null
      BY <2>2, ClientAssumption
      DEF Conn, SP!Conn, Server!Details, SP!Details, Server!NoDetails, SP!NoDetails
    <3>. QED
      BY <3>1, NoMinusOne DEF SP!IInv, SP!SubscriptionsAreBroadcastTo
  <2>. QED
    BY <2>1, <2>2
<1>8. JoinedHere(ch) <=> \E i \in Ids : d[i] = ch
  <2>1. JoinedHere(ch) => channels[ch] \in Ids
    BY <1>3 DEF JoinedHere, Known
  <2>. QED
    BY <1>6, <2>1
<1>. QED
  BY <1>6, <1>7, <1>8

LEMMA AgreedIsSessionsAgree == SystemIInv => SessionsAgree
<1>. SUFFICES ASSUME SystemIInv, Quiet
              PROVE  /\ idToUser[sock] = "user" /\ connectedUsers = {"user"}
                     /\ \A ch \in Channel :
                          /\ JoinedHere(ch) <=> sock \in dbChannels[ch]
                          /\ \A i \in Ids : subscriptionsDetails[sock] # Null
                               => (subscriptionsDetails[sock][i] = ch
                                     <=> JoinedHere(ch) /\ channels[ch] = i)
  BY DEF SessionsAgree
<1>. PICK n \in Conn : n = sock
  BY ClientTypes DEF Quiet, SystemIInv
<1>1. LoggedIn(n)
  BY DEF Quiet, SystemIInv, AgreementInv, LoginsAgree, Live, Serves
<1>2. idToUser[n] = "user" /\ connectedUsers = {"user"}
  BY <1>1, DatabaseTypes DEF LoggedIn, SystemIInv
<1>3. subscriptionsDetails[n] # Null => Server!Details(n) = subscriptionsDetails[n]
  BY DEF Server!Details
<1>. QED
  BY <1>2, <1>3, QuietAgreed

-----------------------------------------------------------------------------
(* The invariant of the system.                                             *)

LEMMA AgreementInit ==
  ASSUME SystemInit, ClientInv, SP!IInv
  PROVE  AgreementInv
<1>1. /\ \A n \in Conn : /\ pc[n] = "unborn" /\ idToUser[n] = Null
                          /\ subscriptionsDetails[n] = Null /\ wire[n] = <<>>
      /\ \A ch \in Channel : dbChannels[ch] = {}
      /\ sock = NoSocket
  BY SameConnections
  DEF SystemInit, Init, SP!Init, SP!DbInit, Conn, SP!Conn
<1>2. ~Live /\ ~Serves
  BY <1>1 DEF Live, Serves
<1>3. UnbornAreUnknown
  BY <1>1 DEF UnbornAreUnknown, Server!HasNoEntry
<1>4. LoginsAgree
  BY <1>1, <1>2 DEF LoginsAgree, NoLoginComes, OneLogin, HandlerOf, Plain
<1>. QED
  BY <1>1, <1>2, <1>3, <1>4
  DEF AgreementInv, Done, SubscribedOnce, SubscriptionsAgree,
      LogoutConfirmedOnlyIfDone

LEMMA SystemInvInit == SystemInit => SystemIInv
<1>. SUFFICES ASSUME SystemInit PROVE SystemIInv
  OBVIOUS
<1>1. ClientInv /\ SP!IInv /\ SidesInv
  BY SidesInvInit DEF SidesIInv
<1>2. FramesInv
  BY FramesInit DEF SystemInit
<1>. QED
  BY <1>1, <1>2, AgreementInit DEF SystemIInv

LEMMA StutterAgrees ==
  ASSUME AgreementInv, UNCHANGED systemVars
  PROVE  AgreementInv'
<1>1. UNCHANGED <<vars, serverVars, wire, inHand>>
  BY DEF systemVars
<1>2. UNCHANGED <<kpc, line, kframe, spc, sframe, channels, subscriptionId, sock,
                  toServer, fromServer, peer, asked>> /\ Ended' = Ended
  BY <1>1 DEF vars, maps, Ended
<1>3. /\ UNCHANGED <<pc, respond, dbChannels, subscriptionsDetails, idToUser,
                     connectedUsers>>
      /\ \A n : Server!Details(n)' = Server!Details(n)
  BY <1>1, ServerDataStays
<1>4. UnbornAreUnknown' /\ Done'
  BY <1>1, <1>2, <1>3
  DEF AgreementInv, UnbornAreUnknown, Server!HasNoEntry, Done, Serves, Granted,
      ChannelOf, LoggedIn
<1>5. Live' = Live /\ \A a : Confirms(a)' = Confirms(a)
  BY <1>2 DEF Live, Serves, Confirms
<1>6. SubscribedOnce' /\ SubscriptionsAgree'
  BY <1>2, <1>3, <1>5
  DEF AgreementInv, SubscribedOnce, SubscriptionsAgree, Granted, ChannelOf,
      Made, Subscribing, Holds, Ending
<1>7. LogoutConfirmedOnlyIfDone' /\ LoginsAgree'
  <2>1. NoLoginComes(sock)' = NoLoginComes(sock) /\ BrokenOff' = BrokenOff
    BY <1>1, <1>2, <1>3 DEF NoLoginComes, BrokenOff
  <2>2. OneLogin' = OneLogin
    BY <1>3 DEF OneLogin, LoggedIn, PastTheCheck
  <2>3. \A n \in Conn : NoLoginComes(n)' = NoLoginComes(n)
    BY <1>1, <1>3 DEF NoLoginComes
  <2>4. Confirms(sframe)' = Confirms(sframe)
    BY <1>2 DEF Confirms
  <2>5. LogoutConfirmedOnlyIfDone'
    BY <1>2, <1>3, <1>5, <2>1, <2>4 DEF AgreementInv, LogoutConfirmedOnlyIfDone
  <2>6. LoginsAgree'
    BY <1>2, <1>3, <1>5, <2>2, <2>3 DEF AgreementInv, LoginsAgree, LoggedIn
  <2>. QED
    BY <2>5, <2>6
<1>. QED
  BY <1>4, <1>6, <1>7 DEF AgreementInv

LEMMA SystemInvNext ==
  SystemIInv /\ [SystemNext]_systemVars => SystemIInv'
<1>. SUFFICES ASSUME SystemIInv, [SystemNext]_systemVars PROVE SystemIInv'
  OBVIOUS
<1>1. [Next]_vars /\ SidesInv'
  BY SystemStep DEF SystemIInv, SidesIInv
<1>2. ClientInv' /\ FramesInv'
  BY <1>1, NextKeeps, FramesNext DEF SystemIInv
<1>3. SP!IInv'
  BY SystemServerStep, ServerInvNext DEF SystemIInv
<1>4. AgreementInv'
  <2>1. CASE ClientStep
    BY <1>2, <2>1, ClientAgreement
  <2>2. CASE ServerStep
    BY <2>2, ServerAgreement
  <2>3. CASE UNCHANGED systemVars
    BY <2>3, StutterAgrees DEF SystemIInv
  <2>. QED
    BY <2>1, <2>2, <2>3 DEF SystemNext, SystemOver
<1>. QED
  BY <1>1, <1>2, <1>3, <1>4 DEF SystemIInv

LEMMA SystemIInvariance == SystemSpec => []SystemIInv
BY SystemInvInit, SystemInvNext, PTL DEF SystemSpec

(* The program and the threads that serve it agree at every moment, with    *)
(* what is under way between them: the frames of the client fit what it     *)
(* keeps, what a thread answers is done, and every subscription is made, or *)
(* about to be, and known to the client, or about to end.                   *)
THEOREM SystemHolds == SystemSpec => []SystemInv
<1>1. SystemIInv => SystemInv
  BY DEF SystemIInv, SystemInv
<1>. QED
  BY <1>1, SystemIInvariance, PTL

(* Whenever nothing is under way, StompProtocol and StompDataBase agree on  *)
(* who is logged in and on every subscription made over this connection.    *)
THEOREM SessionsAlwaysAgree == SystemSpec => []SessionsAgree
BY AgreedIsSessionsAgree, SystemIInvariance, PTL
=============================================================================
