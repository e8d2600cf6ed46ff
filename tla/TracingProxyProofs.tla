------------------------- MODULE TracingProxyProofs -------------------------
(***************************************************************************)
(* Proofs about TracingProxy, for any payloads, any number of frames and   *)
(* any window.                                                             *)
(***************************************************************************)
EXTENDS TracingProxy, DsmsgCodecProofs

-----------------------------------------------------------------------------
(* Beginnings *)

\* A beginning and what it leaves.
LEMMA BeginningSplits ==
  ASSUME NEW x \in Text, NEW w \in Beginnings(x)
  PROVE  /\ w \in Text
         /\ SubSeq(x, Len(w) + 1, Len(x)) \in Text
         /\ x = Cat(w, SubSeq(x, Len(w) + 1, Len(x)))
<1>1. PICK l \in 0..Len(x) : w = SubSeq(x, 1, l)
  BY DEF Beginnings
<1>2. Len(x) \in Nat /\ \A i \in 1..Len(x) : x[i] \in Octet
  BY LenProperties DEF Text
<1>3. w \in Text /\ Len(w) = l
  BY <1>1, <1>2, SubSeqProperties DEF Text
<1>4. SubSeq(x, l + 1, Len(x)) \in Text
  BY <1>2, SubSeqProperties DEF Text
<1>5. SubSeq(x, 1, l) \o SubSeq(x, l + 1, Len(x)) = SubSeq(x, 1, Len(x))
  BY <1>2, ConcatAdjacentSubSeq, 1 \in 1..Len(x) + 1, l \in 1 - 1..Len(x),
     Len(x) \in l..Len(x), Zenon DEF Text
<1>6. SubSeq(x, 1, Len(x)) = x
  BY SubSeqFull DEF Text
<1> QED
  BY <1>1, <1>3, <1>4, <1>5, <1>6, Zenon DEF Cat

\* How a text begins is one of its beginnings.
LEMMA BeforeBegins ==
  ASSUME NEW a \in Text, NEW b \in Text, Before(a, b)
  PROVE  a \in Beginnings(b)
<1>1. PICK r \in Text : b = a \o r
  BY Zenon DEF Before, Cat
<1>2. Len(b) = Len(a) + Len(r) /\ Len(r) \in Nat /\ Len(a) \in Nat
  BY <1>1, ConcatProperties, LenProperties DEF Text
<1>3. SubSeq(a, 1, Len(a)) = a
  BY SubSeqFull DEF Text
<1>4. SubSeq(b, 1, Len(a)) = a
  <2>1. \A i \in 1..Len(a) : b[i] = a[i] /\ b[i] \in Octet
    BY <1>1, <1>2, ConcatProperties, LenProperties DEF Text
  <2> DEFINE t == SubSeq(b, 1, Len(a))
  <2>2. t \in Text /\ Len(t) = Len(a) /\ \A i \in 1..Len(a) : t[i] = b[i]
    <3>1. /\ t \in Seq(Octet)
          /\ Len(t) = IF 1 <= Len(a) THEN Len(a) - 1 + 1 ELSE 0
          /\ \A i \in 1..(Len(a) - 1 + 1) : t[i] = b[1 + i - 1]
      BY <1>2, <2>1, SubSeqProperties
    <3> HIDE DEF t
    <3> QED
      BY <1>2, <3>1 DEF Text
  <2> HIDE DEF t
  <2>3. \A i \in 1..Len(t) : t[i] = a[i]
    BY <2>1, <2>2
  <2>4. t = a
    BY <2>2, <2>3, SeqEqual DEF Text
  <2> QED
    BY <2>4 DEF t
<1>5. Len(a) \in 0..Len(b)
  BY <1>2
<1> QED
  BY <1>4, <1>5, Zenon DEF Beginnings

\* The whole and nothing are beginnings; nothing has no other.
LEMMA SomeBeginnings ==
  /\ \A x \in Text : x \in Beginnings(x) /\ <<>> \in Beginnings(x)
  /\ \A w \in Beginnings(<<>>) : w = <<>>
<1>1. ASSUME NEW x \in Text PROVE x \in Beginnings(x) /\ <<>> \in Beginnings(x)
  <2>1. Len(x) \in Nat /\ SubSeq(x, 1, Len(x)) = x
    BY SubSeqFull, LenProperties DEF Text
  <2>2. SubSeq(x, 1, 0) = <<>>
    BY SubSeqEmpty DEF Text
  <2>3. 0 \in 0..Len(x) /\ Len(x) \in 0..Len(x)
    BY <2>1
  <2> QED
    BY <2>1, <2>2, <2>3, Zenon DEF Beginnings
<1>2. ASSUME NEW w \in Beginnings(<<>>) PROVE w = <<>>
  <2>1. PICK l \in 0..0 : w = SubSeq(<<>>, 1, l)
    BY DEF Beginnings
  <2>2. l = 0
    BY <2>1
  <2>3. SubSeq(<<>>, 1, 0) = <<>>
    BY SubSeqEmpty, EmptyText DEF Text
  <2> QED
    BY <2>1, <2>2, <2>3
<1> QED
  BY <1>1, <1>2

-----------------------------------------------------------------------------
(* One direction of the traffic *)

Link == {"up", "down"}

\* Of all that was sent, `was' has arrived, and `out', `held' and `in' are on
\* their way, in this order.  Nothing is out of place while there is a receiver,
\* and nothing is missing while the sender is listened to as well.
Flow(was, out, held, in, all, receiver, sender) ==
  /\ Before(Cat(was, out), all)
  /\ receiver = "up" => Before(Cat(Cat(Cat(was, out), held), in), all)
  /\ receiver = "up" /\ sender = "up" => all = Cat(Cat(Cat(was, out), held), in)

\* More is sent, and queued.
LEMMA FlowGrows ==
  ASSUME NEW g \in Text, NEW o \in Text, NEW c \in Text, NEW i \in Text, NEW a \in Text,
         NEW f \in Text, NEW r \in Link, NEW s \in Link, s = "up", Flow(g, o, c, i, a, r, s)
  PROVE  Flow(g, o, c, Cat(i, f), Cat(a, f), r, s)
<1>1. /\ Cat(g, o) \in Text /\ Cat(i, f) \in Text /\ Cat(a, f) \in Text
      /\ Cat(Cat(g, o), c) \in Text /\ Cat(Cat(Cat(g, o), c), i) \in Text
  BY CatText, Zenon
<1>2. Before(Cat(g, o), Cat(a, f))
  BY <1>1, BeforeExtend DEF Flow
<1>3. r = "up" => Cat(a, f) = Cat(Cat(Cat(g, o), c), Cat(i, f))
  BY <1>1, CatText DEF Flow
<1>4. r = "up" => Before(Cat(Cat(Cat(g, o), c), Cat(i, f)), Cat(a, f))
  BY <1>1, <1>3, BeforeSelf
<1> QED
  BY <1>2, <1>3, <1>4 DEF Flow

\* More is sent, and lost.
LEMMA FlowLoses ==
  ASSUME NEW g \in Text, NEW o \in Text, NEW c \in Text, NEW i \in Text, NEW a \in Text,
         NEW f \in Text, NEW r \in Link, NEW s \in Link, s = "down", Flow(g, o, c, i, a, r, s)
  PROVE  Flow(g, o, c, i, Cat(a, f), r, s)
<1>1. Cat(g, o) \in Text /\ Cat(Cat(Cat(g, o), c), i) \in Text
  BY CatText, Zenon
<1> QED
  BY <1>1, BeforeExtend DEF Flow

\* The end of what is queued is lost.
LEMMA FlowCutIn ==
  ASSUME NEW g \in Text, NEW o \in Text, NEW c \in Text, NEW i \in Text, NEW a \in Text,
         NEW w \in Beginnings(i), NEW r \in Link, NEW s \in Link, NEW s2 \in Link, s2 = "down",
         Flow(g, o, c, i, a, r, s)
  PROVE  Flow(g, o, c, w, a, r, s2)
<1>1. w \in Text /\ \E x \in Text : i = Cat(w, x)
  BY BeginningSplits
<1>2. PICK x \in Text : i = Cat(w, x)
  BY <1>1
<1>3. Cat(Cat(g, o), c) \in Text /\ Cat(Cat(Cat(g, o), c), w) \in Text
  BY <1>1, CatText, Zenon
<1>4. Cat(Cat(Cat(g, o), c), i) = Cat(Cat(Cat(Cat(g, o), c), w), x)
  BY <1>1, <1>2, <1>3, CatText
<1>5. r = "up" => Before(Cat(Cat(Cat(g, o), c), w), a)
  BY <1>3, <1>4, BeforeCut DEF Flow
<1> QED
  BY <1>5 DEF Flow

\* The end of what was passed on is lost, and there is no receiver any more.
LEMMA FlowCutOut ==
  ASSUME NEW g \in Text, NEW o \in Text, NEW c \in Text, NEW i \in Text, NEW a \in Text,
         NEW w \in Beginnings(o), NEW c2, NEW i2, NEW r \in Link, NEW s \in Link,
         NEW r2 \in Link, NEW s2 \in Link, r2 = "down", Flow(g, o, c, i, a, r, s)
  PROVE  Flow(g, w, c2, i2, a, r2, s2)
<1>1. w \in Text /\ \E x \in Text : o = Cat(w, x)
  BY BeginningSplits
<1>2. PICK x \in Text : o = Cat(w, x)
  BY <1>1
<1>3. Cat(g, w) \in Text /\ Cat(g, o) = Cat(Cat(g, w), x)
  BY <1>1, <1>2, CatText
<1>4. Before(Cat(g, w), a)
  BY <1>3, BeforeCut DEF Flow
<1> QED
  BY <1>4 DEF Flow

\* What was passed on arrives.
LEMMA FlowArrives ==
  ASSUME NEW g \in Text, NEW o \in Text, NEW c \in Text, NEW i \in Text, NEW a \in Text,
         NEW r \in Link, NEW s \in Link, Flow(g, o, c, i, a, r, s)
  PROVE  Flow(Cat(g, o), <<>>, c, i, a, r, s)
<1>1. Cat(Cat(g, o), <<>>) = Cat(g, o)
  BY CatText
<1> QED
  BY <1>1 DEF Flow

\* Some of what is queued is taken up.
LEMMA FlowTaken ==
  ASSUME NEW g \in Text, NEW o \in Text, NEW a \in Text, NEW w \in Text, NEW x \in Text,
         NEW r \in Link, NEW s \in Link,
         Flow(g, o, <<>>, Cat(w, x), a, r, s)
  PROVE  Flow(g, o, w, x, a, r, s)
<1>1. Cat(g, o) \in Text /\ Cat(Cat(g, o), <<>>) = Cat(g, o)
  BY CatText
<1>2. Cat(Cat(Cat(g, o), <<>>), Cat(w, x)) = Cat(Cat(Cat(g, o), w), x)
  BY <1>1, CatText
<1> QED
  BY <1>2 DEF Flow

\* It is passed on.
LEMMA FlowPassed ==
  ASSUME NEW g \in Text, NEW o \in Text, NEW c \in Text, NEW i \in Text, NEW a \in Text,
         NEW r \in Link, NEW s \in Link, r = "up", Flow(g, o, c, i, a, r, s)
  PROVE  Flow(g, Cat(o, c), <<>>, i, a, r, s)
<1>1. Cat(g, o) \in Text /\ Cat(Cat(g, o), c) \in Text /\ Cat(g, Cat(o, c)) = Cat(Cat(g, o), c)
  BY CatText
<1>2. Cat(Cat(Cat(g, o), c), <<>>) = Cat(Cat(g, o), c)
  BY <1>1, CatText
<1>3. Before(Cat(Cat(g, o), c), a)
  BY <1>1, BeforeCut DEF Flow
<1> QED
  BY <1>1, <1>2, <1>3 DEF Flow

-----------------------------------------------------------------------------
(* The inductive invariant *)

Queues ==
  /\ inbox \in [Sides -> Text] /\ outbox \in [Sides -> Text] /\ chunk \in [Sides -> Text]
  /\ sent \in [Sides -> Text] /\ got \in [Sides -> Text]
  /\ wrote \in [Sides -> Seq(UNION {Payloads[s] : s \in Sides})]

\* Before the target answers nothing moves; without it nothing ever does.
DialInv ==
  /\ dial = "dialing" =>
       /\ open = [s \in Sides |-> s = "client"]
       /\ inbox["target"] = <<>> /\ sent["target"] = <<>>
       /\ \A s \in Sides : got[s] = <<>> /\ outbox[s] = <<>>
  /\ dial # "up" => \A s \in Sides : pump[s] = "done"

\* A pump that has ended has closed the other side's socket, and it ended because
\* a side did.
SocketInv ==
  dial = "up" => \A s \in Sides :
    /\ open[Peer(s)] = (pump[s] # "done")
    /\ pump[s] = "done" => ended[s] # "no" \/ ended[Peer(s)] # "no"
    /\ pump[s] = "done" /\ ended[s] = "no" => pump[Peer(s)] = "done"

Listening(s) ==
  IF (open[s] \/ dial = "dialing") /\ ended[s] # "gone" THEN "up" ELSE "down"

FlowFrom(s) ==
  Flow(got[Peer(s)], outbox[Peer(s)], chunk[s], inbox[s], sent[s], Listening(Peer(s)), Listening(s))

FlowInv == \A s \in Sides : FlowFrom(s)

SilentInv == \A s \in Sides : wrote[s] = <<>> => sent[s] = <<>> /\ inbox[s] = <<>>

\* What was sent when the pump ended is there or on its way.
Complete(s) ==
  /\ pump[s] = "done" /\ dial = "up" /\ ended[s] = "eof"
  /\ ended[Peer(s)] = "no" /\ wrote[Peer(s)] = <<>>
  => sent[s] = Cat(got[Peer(s)], outbox[Peer(s)])

LastInv == \A s \in Sides : Complete(s)

IInv == TypeOK /\ Queues /\ DialInv /\ SocketInv /\ FlowInv /\ SilentInv /\ LastInv

-----------------------------------------------------------------------------
(* Steps *)

\* The other side is a side, and its other side is this one.
LEMMA PeerFacts ==
  /\ "client" \in Sides /\ "target" \in Sides
  /\ \A s \in Sides : /\ Peer(s) \in Sides /\ Peer(s) # s /\ Peer(Peer(s)) = s
                      /\ \A t \in Sides : t = s \/ t = Peer(s)
BY DEF Sides, Peer

\* A side puts on the wire the frame of its payload, which is a text.
LEMMA FramedType ==
  ASSUME NEW s \in Sides, NEW p \in Payloads[s]
  PROVE  /\ Framed[p] \in Text /\ p \in UNION {Payloads[t] : t \in Sides}
         /\ p \in Text /\ Framed[p] = frame(p)
<1>1. p \in Text /\ p \in UNION {Payloads[t] : t \in Sides}
  BY ProxyAssumption DEF Text, Octet
<1>2. Framed[p] = frame(p)
  BY <1>1 DEF Framed
<1> QED
  BY <1>1, <1>2, InsideType

\* A direction is listened to or it is not.
LEMMA ListeningType == ASSUME NEW s PROVE Listening(s) \in Link
BY DEF Listening, Link

\* The types of all that a direction is made of.
LEMMA FlowTypes ==
  ASSUME IInv, NEW s \in Sides
  PROVE  /\ got[Peer(s)] \in Text /\ outbox[Peer(s)] \in Text /\ chunk[s] \in Text
         /\ inbox[s] \in Text /\ sent[s] \in Text
         /\ Listening(Peer(s)) \in Link /\ Listening(s) \in Link
         /\ FlowFrom(s)
BY PeerFacts, ListeningType DEF IInv, Queues, FlowInv

\* The same of the other direction.
LEMMA PeerFlow ==
  ASSUME IInv, NEW s \in Sides
  PROVE  /\ got[s] \in Text /\ outbox[s] \in Text /\ chunk[Peer(s)] \in Text
         /\ inbox[Peer(s)] \in Text /\ sent[Peer(s)] \in Text /\ Peer(Peer(s)) = s
         /\ Listening(Peer(s)) \in Link /\ Listening(s) \in Link
         /\ FlowFrom(Peer(s))
         /\ Flow(got[s], outbox[s], chunk[Peer(s)], inbox[Peer(s)], sent[Peer(s)],
                 Listening(s), Listening(Peer(s)))
<1>1. Peer(s) \in Sides /\ Peer(Peer(s)) = s
  BY PeerFacts, Zenon
<1>2. /\ got[s] \in Text /\ outbox[s] \in Text /\ chunk[Peer(s)] \in Text
      /\ inbox[Peer(s)] \in Text /\ sent[Peer(s)] \in Text
      /\ Listening(s) \in Link /\ Listening(Peer(s)) \in Link /\ FlowFrom(Peer(s))
  BY <1>1, FlowTypes, Zenon
<1> QED
  BY <1>1, <1>2, Zenon DEF FlowFrom

\* A side writes a frame: it is at the end of what was sent, and lost for good
\* if the proxy does not listen any more.
LEMMA WritesStep ==
  ASSUME IInv, NEW s \in Sides, NEW p \in Payloads[s], s = "client" \/ dial = "up", Writes(s, p)
  PROVE  IInv'
<1>1. Framed[p] \in Text /\ p \in UNION {Payloads[t] : t \in Sides}
  BY FramedType
<1>2. PICK w \in Beginnings(outbox[s]) :
        IF open[s]
        THEN inbox' = [inbox EXCEPT ![s] = @ \o Framed[p]] /\ UNCHANGED outbox
        ELSE outbox' = [outbox EXCEPT ![s] = w] /\ UNCHANGED inbox
  <2>1. outbox[s] \in Beginnings(outbox[s])
    BY SomeBeginnings DEF IInv, Queues
  <2> QED
    BY <2>1, Zenon DEF Writes
<1>3. w \in Text
  BY BeginningSplits DEF IInv, Queues
<1>4. sent' = [sent EXCEPT ![s] = Cat(@, Framed[p])]
  BY DEF Writes, Cat
<1>5. IF open[s] THEN inbox' = [inbox EXCEPT ![s] = Cat(@, Framed[p])] /\ outbox' = outbox
                 ELSE outbox' = [outbox EXCEPT ![s] = w] /\ inbox' = inbox
  BY <1>2, Zenon DEF Cat
<1>6. ended[s] = "no" /\ UNCHANGED <<dial, open, ended, chunk, pump, got>>
  BY DEF Writes
<1>7. wrote' = [wrote EXCEPT ![s] = Append(@, p)]
  BY DEF Writes
<1>8. Queues'
  <2>1. Append(wrote[s], p) \in Seq(UNION {Payloads[t] : t \in Sides})
    BY <1>1 DEF IInv, Queues
  <2>2. Cat(sent[s], Framed[p]) \in Text /\ Cat(inbox[s], Framed[p]) \in Text
    BY <1>1, CatText, Zenon DEF IInv, Queues
  <2> QED
    BY <1>1, <1>3, <1>4, <1>5, <1>6, <1>7, <2>1, <2>2, ZenonT(30)
       DEF IInv, Queues
<1>9. TypeOK'
  BY <1>4, <1>5, <1>6 DEF IInv, TypeOK, Queues
<1>10. open[s] \/ dial # "dialing"
  BY Zenon DEF IInv, DialInv, Sides
<1>11. DialInv'
  BY <1>4, <1>5, <1>6, <1>10, PeerFacts DEF IInv, DialInv, Queues
<1>12. SocketInv'
  BY <1>6 DEF IInv, SocketInv
<1>13. /\ Listening(s)' = Listening(s) /\ Listening(Peer(s))' = Listening(Peer(s))
       /\ (Listening(s) = IF open[s] THEN "up" ELSE "down")
  BY <1>6, <1>10 DEF Listening, IInv, TypeOK
<1>14. FlowFrom(s)'
  <2>2. /\ sent'[s] = Cat(sent[s], Framed[p]) /\ got'[Peer(s)] = got[Peer(s)]
        /\ chunk'[s] = chunk[s] /\ outbox'[Peer(s)] = outbox[Peer(s)]
        /\ inbox'[s] = IF open[s] THEN Cat(inbox[s], Framed[p]) ELSE inbox[s]
    BY <1>4, <1>5, <1>6, PeerFacts, SMT, SMTT(30) DEF IInv, Queues
  <2>1. /\ got[Peer(s)] \in Text /\ outbox[Peer(s)] \in Text /\ chunk[s] \in Text
        /\ inbox[s] \in Text /\ sent[s] \in Text
        /\ Listening(Peer(s)) \in Link /\ Listening(s) \in Link
        /\ FlowFrom(s)
    BY FlowTypes
  <2>3. CASE open[s]
    <3>0. Listening(s) = "up"
      BY <1>13, <2>3
    <3>1. Flow(got[Peer(s)], outbox[Peer(s)], chunk[s], Cat(inbox[s], Framed[p]),
               Cat(sent[s], Framed[p]), Listening(Peer(s)), Listening(s))
      BY <1>1, <3>0, <2>1, FlowGrows, Zenon DEF FlowFrom
    <3> QED
      BY <3>1, <1>13, <2>2, <2>3 DEF FlowFrom
  <2>4. CASE ~open[s]
    <3>0. Listening(s) = "down"
      BY <1>13, <2>4
    <3>1. Flow(got[Peer(s)], outbox[Peer(s)], chunk[s], inbox[s],
               Cat(sent[s], Framed[p]), Listening(Peer(s)), Listening(s))
      BY <1>1, <3>0, <2>1, FlowLoses, Zenon DEF FlowFrom
    <3> QED
      BY <3>1, <1>13, <2>2, <2>4, Zenon DEF FlowFrom
  <2> QED
    BY <2>3, <2>4, Zenon
<1>15. FlowFrom(Peer(s))'
  <2>2. /\ sent'[Peer(s)] = sent[Peer(s)] /\ got'[s] = got[s]
        /\ chunk'[Peer(s)] = chunk[Peer(s)] /\ inbox'[Peer(s)] = inbox[Peer(s)]
        /\ outbox'[s] = IF open[s] THEN outbox[s] ELSE w
    BY <1>4, <1>5, <1>6, PeerFacts DEF IInv, Queues
  <2>3. CASE open[s]
    BY <1>13, <2>2, <2>3, PeerFlow, Zenon DEF FlowFrom
  <2>4. CASE ~open[s]
    <3>1. Listening(s) = "down" /\ outbox'[s] = w
      BY <1>13, <2>2, <2>4, Zenon
    <3>2. Flow(got[s], w, chunk[Peer(s)], inbox[Peer(s)], sent[Peer(s)],
               Listening(s), Listening(Peer(s)))
      BY <3>1, PeerFlow, FlowCutOut, Zenon
    <3> QED
      BY <1>13, <2>2, <3>1, <3>2, PeerFlow, Zenon DEF FlowFrom
  <2> QED
    BY <2>3, <2>4
<1>16. FlowInv'
  BY <1>14, <1>15, PeerFacts DEF FlowInv
<1>17. wrote'[s] # <<>>
  BY <1>7 DEF IInv, Queues
<1>18. SilentInv'
  <2>1. /\ SilentInv /\ inbox \in [Sides -> Text] /\ sent \in [Sides -> Text]
        /\ wrote \in [Sides -> Seq(UNION {Payloads[t] : t \in Sides})]
    BY Zenon DEF IInv, Queues
  <2> QED
    BY <1>4, <1>5, <1>7, <1>17, <2>1, PeerFacts, SMT, SMTT(30) DEF SilentInv
<1>19. LastInv'
  BY <1>4, <1>5, <1>6, <1>7, <1>17, PeerFacts DEF IInv, LastInv, Complete, Queues
<1> QED
  BY <1>8, <1>9, <1>11, <1>12, <1>16, <1>18, <1>19 DEF IInv

\* A side that stops writing loses nothing.
LEMMA ShutsStep ==
  ASSUME IInv, NEW s \in Sides, Shuts(s)
  PROVE  IInv'
<1>1. /\ ended[s] = "no" /\ ended' = [ended EXCEPT ![s] = "eof"]
      /\ UNCHANGED <<dial, open, inbox, outbox, chunk, pump, wrote, sent, got>>
  BY DEF Shuts, netVars
<1>2. TypeOK' /\ Queues' /\ DialInv' /\ SilentInv'
  BY <1>1 DEF IInv, TypeOK, Queues, DialInv, SilentInv
<1>3. SocketInv'
  BY <1>1, PeerFacts DEF IInv, SocketInv, TypeOK
<1>4. \A t \in Sides : Listening(t)' = Listening(t)
  BY <1>1 DEF IInv, TypeOK, Listening
<1>5. FlowInv'
  BY <1>1, <1>4, PeerFacts DEF IInv, FlowInv, FlowFrom
<1>6. LastInv'
  BY <1>1, PeerFacts DEF IInv, LastInv, Complete, SocketInv, TypeOK
<1> QED
  BY <1>2, <1>3, <1>5, <1>6 DEF IInv

\* What a vanished side leaves behind is a beginning of what was under way.
LEMMA VanishesStep ==
  ASSUME IInv, NEW s \in Sides, Vanishes(s)
  PROVE  IInv'
<1>1. PICK w \in Beginnings(inbox[s]) : inbox' = [inbox EXCEPT ![s] = w]
  BY Zenon DEF Vanishes
<1>2. /\ ended' = [ended EXCEPT ![s] = "gone"] /\ outbox' = [outbox EXCEPT ![s] = <<>>]
      /\ UNCHANGED <<dial, open, chunk, pump, wrote, sent, got>>
  BY DEF Vanishes
<1>3. w \in Text /\ (inbox[s] = <<>> => w = <<>>)
  BY BeginningSplits, SomeBeginnings DEF IInv, Queues
<1>4. Queues'
  BY <1>1, <1>2, <1>3, EmptyText, Zenon DEF IInv, Queues
<1>5. TypeOK' /\ DialInv' /\ SilentInv'
  BY <1>1, <1>2, <1>3, PeerFacts, SMT, SMTT(30)
     DEF IInv, TypeOK, Queues, DialInv, SilentInv
<1>6. SocketInv'
  BY <1>2, PeerFacts DEF IInv, SocketInv, TypeOK
<1>7. Listening(s)' = "down" /\ Listening(Peer(s))' = Listening(Peer(s))
  BY <1>2, PeerFacts DEF IInv, TypeOK, Listening
<1>8. "down" \in Link
  BY Zenon DEF Link
<1>9. FlowFrom(s)'
  <2>1. /\ sent'[s] = sent[s] /\ got'[Peer(s)] = got[Peer(s)] /\ chunk'[s] = chunk[s]
        /\ outbox'[Peer(s)] = outbox[Peer(s)] /\ inbox'[s] = w
    BY <1>1, <1>2, PeerFacts, Zenon DEF IInv, Queues
  <2>2. Flow(got[Peer(s)], outbox[Peer(s)], chunk[s], w, sent[s], Listening(Peer(s)), "down")
    BY <1>8, FlowTypes, FlowCutIn, Zenon DEF FlowFrom
  <2> QED
    BY <1>7, <2>1, <2>2, Zenon DEF FlowFrom
<1>10. FlowFrom(Peer(s))'
  <2>1. /\ sent'[Peer(s)] = sent[Peer(s)] /\ got'[s] = got[s]
        /\ chunk'[Peer(s)] = chunk[Peer(s)]
        /\ inbox'[Peer(s)] = inbox[Peer(s)] /\ outbox'[s] = <<>>
    BY <1>1, <1>2, PeerFacts DEF IInv, Queues
  <2>2. <<>> \in Beginnings(outbox[s])
    BY SomeBeginnings DEF IInv, Queues
  <2>3. Flow(got[s], <<>>, chunk[Peer(s)], inbox[Peer(s)], sent[Peer(s)],
             "down", Listening(Peer(s)))
    BY <1>8, <2>2, PeerFlow, FlowCutOut, Zenon
  <2> QED
    BY <1>7, <2>1, <2>3, PeerFlow, Zenon DEF FlowFrom
<1>11. FlowInv'
  BY <1>9, <1>10, PeerFacts, Zenon DEF FlowInv
<1>12. LastInv'
  BY <1>2, PeerFacts DEF IInv, LastInv, Complete, TypeOK
<1> QED
  BY <1>4, <1>5, <1>6, <1>11, <1>12 DEF IInv

\* What is received was under way.
LEMMA ReceivesStep ==
  ASSUME IInv, NEW s \in Sides, Receives(s)
  PROVE  IInv'
<1>1. /\ got' = [got EXCEPT ![s] = Cat(@, outbox[s])] /\ outbox' = [outbox EXCEPT ![s] = <<>>]
      /\ outbox[s] # <<>> /\ UNCHANGED <<dial, open, inbox, ended, chunk, pump, wrote, sent>>
  BY DEF Receives, Cat
<1>2. Cat(got[s], outbox[s]) \in Text
  BY CatText DEF IInv, Queues
<1>3. Queues'
  BY <1>1, <1>2, EmptyText, Zenon DEF IInv, Queues
<1>4. TypeOK' /\ SocketInv' /\ SilentInv'
  BY <1>1, Zenon DEF IInv, TypeOK, SocketInv, SilentInv
<1>5. DialInv'
  BY <1>1 DEF IInv, DialInv
<1>6. \A t \in Sides : Listening(t)' = Listening(t)
  BY <1>1 DEF Listening
<1>7. FlowFrom(s)'
  BY <1>1, <1>6, PeerFacts, ZenonT(30) DEF IInv, FlowInv, FlowFrom, Queues
<1>8. FlowFrom(Peer(s))'
  <2>1. /\ sent'[Peer(s)] = sent[Peer(s)] /\ got'[s] = Cat(got[s], outbox[s])
        /\ chunk'[Peer(s)] = chunk[Peer(s)]
        /\ inbox'[Peer(s)] = inbox[Peer(s)] /\ outbox'[s] = <<>>
    BY <1>1, PeerFacts DEF IInv, Queues
  <2>2. Flow(Cat(got[s], outbox[s]), <<>>, chunk[Peer(s)], inbox[Peer(s)], sent[Peer(s)],
             Listening(s), Listening(Peer(s)))
    BY PeerFacts, FlowTypes, FlowArrives, Zenon DEF FlowFrom
  <2> QED
    BY <1>6, <2>1, <2>2, PeerFacts DEF FlowFrom
<1>9. FlowInv'
  BY <1>7, <1>8, PeerFacts DEF FlowInv
<1>10. LastInv'
  <2>1. Complete(s)'
    BY <1>1, PeerFacts DEF IInv, LastInv, Complete, Queues
  <2>2. Cat(Cat(got[s], outbox[s]), <<>>) = Cat(got[s], outbox[s])
    BY <1>2, CatText
  <2>3. got'[s] = Cat(got[s], outbox[s]) /\ outbox'[s] = <<>>
    BY <1>1, Zenon DEF IInv, Queues
  <2>4. Complete(Peer(s))'
    BY <1>1, <2>2, <2>3, PeerFacts DEF IInv, LastInv, Complete
  <2> QED
    BY <2>1, <2>4, PeerFacts, Zenon DEF LastInv
<1> QED
  BY <1>3, <1>4, <1>5, <1>9, <1>10, Zenon DEF IInv

\* The dial is over before a pump runs.
LEMMA DialsStep ==
  ASSUME IInv, NEW ok \in BOOLEAN, Dials(ok)
  PROVE  IInv'
<1>1. dial = "dialing" /\ UNCHANGED <<outbox, ended, chunk, wrote, sent, got>>
  BY DEF Dials
<1>2. \A s \in Sides : pump[s] = "done" /\ got[s] = <<>> /\ outbox[s] = <<>>
  BY <1>1 DEF IInv, DialInv
<1>3. CASE ok
  <2>1. /\ dial' = "up" /\ pump' = [s \in Sides |-> "read"]
        /\ open' = [s \in Sides |-> TRUE] /\ inbox' = inbox
    BY <1>3 DEF Dials
  <2>2. TypeOK' /\ Queues' /\ DialInv' /\ SilentInv' /\ SocketInv' /\ LastInv'
    BY <1>1, <1>2, <2>1, PeerFacts, Zenon
       DEF IInv, TypeOK, Queues, DialInv, SilentInv, SocketInv, LastInv, Complete
  <2>3. \A t \in Sides : Listening(t)' = Listening(t)
    BY <1>1, <2>1 DEF Listening
  <2>4. FlowInv'
    BY <1>1, <2>1, <2>3, PeerFacts, Zenon DEF IInv, FlowInv, FlowFrom
  <2> QED
    BY <2>2, <2>4 DEF IInv
<1>4. CASE ~ok
  <2>1. /\ dial' = "failed" /\ open' = [s \in Sides |-> FALSE] /\ pump' = pump
        /\ inbox' = [inbox EXCEPT !["client"] = <<>>]
    BY <1>4 DEF Dials
  <2>2. inbox["target"] = <<>>
    BY <1>1 DEF IInv, DialInv
  <2>3. TypeOK' /\ Queues' /\ DialInv' /\ SilentInv'
    BY <1>1, <1>2, <2>1, <2>2, PeerFacts, EmptyText, ZenonT(30)
       DEF IInv, TypeOK, Queues, DialInv, SilentInv, Sides
  <2>4. SocketInv' /\ LastInv'
    BY <2>1 DEF SocketInv, LastInv, Complete
  <2>5. \A t \in Sides : Listening(t)' = "down"
    BY <2>1 DEF Listening
  <2>6. ASSUME NEW s \in Sides PROVE FlowFrom(s)'
    <3>1. outbox[Peer(s)] \in Beginnings(outbox[Peer(s)]) /\ "down" \in Link
      BY SomeBeginnings, PeerFacts, ZenonT(30) DEF IInv, Queues, Link
    <3>2. Flow(got[Peer(s)], outbox[Peer(s)], chunk'[s], inbox'[s], sent[s], "down", "down")
      BY <3>1, FlowTypes, FlowCutOut, SMTT(30) DEF FlowFrom
    <3> QED
      BY <1>1, <2>5, <3>2, PeerFacts DEF FlowFrom
  <2> QED
    BY <2>3, <2>4, <2>6 DEF IInv, FlowInv
<1> QED
  BY <1>3, <1>4

\* While a pump runs, the target is there.
LEMMA PumpRuns ==
  ASSUME IInv, NEW s \in Sides, pump[s] # "done"
  PROVE  dial = "up" /\ open[Peer(s)]
BY Zenon DEF IInv, DialInv, SocketInv

\* A chunk that is read was the beginning of what was under way.
LEMMA ReadsStep ==
  ASSUME IInv, NEW s \in Sides, Reads(s)
  PROVE  IInv'
<1>1. /\ pump[s] = "read" /\ open[s] /\ pump' = [pump EXCEPT ![s] = "write"]
      /\ UNCHANGED <<dial, open, outbox, ended, wrote, sent, got>>
  BY DEF Reads
<1>2. PICK w \in Beginnings(inbox[s]) \ {<<>>} :
        /\ chunk' = [chunk EXCEPT ![s] = w]
        /\ inbox' = [inbox EXCEPT ![s] = SubSeq(@, Len(w) + 1, Len(@))]
  BY Zenon DEF Reads
<1> DEFINE x == SubSeq(inbox[s], Len(w) + 1, Len(inbox[s]))
<1>3. w \in Text /\ x \in Text /\ inbox[s] = Cat(w, x) /\ inbox[s] # <<>> /\ w # <<>>
  BY BeginningSplits, SomeBeginnings DEF IInv, Queues
<1>4. inbox' = [inbox EXCEPT ![s] = x] /\ chunk' = [chunk EXCEPT ![s] = w]
  BY <1>2
<1> HIDE DEF x
<1>5. dial = "up" /\ chunk[s] = <<>>
  BY <1>1, PumpRuns DEF IInv, TypeOK
<1>6. Queues' /\ TypeOK'
  <2>1. Queues'
    BY <1>1, <1>3, <1>4, Zenon DEF IInv, Queues
  <2>2. TypeOK'
    BY <1>1, <1>3, <1>4, ZenonT(30) DEF IInv, TypeOK, Queues
  <2> QED
    BY <2>1, <2>2, Zenon
<1>7. DialInv' /\ SocketInv' /\ SilentInv'
  BY <1>1, <1>3, <1>4, <1>5, PeerFacts, SMT, SMTT(30)
     DEF IInv, DialInv, SocketInv, SilentInv, TypeOK, Queues
<1>8. \A t \in Sides : Listening(t)' = Listening(t)
  BY <1>1, ZenonT(30) DEF Listening
<1>9. FlowFrom(s)'
  <2>1. Flow(got[Peer(s)], outbox[Peer(s)], w, x, sent[s], Listening(Peer(s)), Listening(s))
    <3>1. Flow(got[Peer(s)], outbox[Peer(s)], <<>>, Cat(w, x), sent[s],
               Listening(Peer(s)), Listening(s))
      BY <1>3, <1>5, FlowTypes DEF FlowFrom
    <3> QED
      BY <1>3, <3>1, FlowTypes, FlowTaken, ZenonT(30)
  <2>2. chunk'[s] = w /\ inbox'[s] = x
    BY <1>4, ZenonT(30) DEF IInv, Queues
  <2> QED
    BY <1>1, <1>8, <2>1, <2>2, PeerFacts DEF FlowFrom
<1>10. FlowFrom(Peer(s))'
  <2>1. chunk'[Peer(s)] = chunk[Peer(s)] /\ inbox'[Peer(s)] = inbox[Peer(s)]
    BY <1>4, PeerFacts DEF IInv, Queues
  <2> QED
    BY <1>1, <1>8, <2>1, PeerFacts, FlowTypes, SMT, SMTT(30) DEF FlowFrom
<1>11. FlowInv'
  BY <1>9, <1>10, PeerFacts, ZenonT(30) DEF FlowInv
<1>12. LastInv'
  BY <1>1, PeerFacts DEF IInv, LastInv, Complete, TypeOK
<1> QED
  BY <1>6, <1>7, <1>11, <1>12 DEF IInv

\* A chunk that is passed on goes behind all that was passed on before it.
LEMMA ForwardsStep ==
  ASSUME IInv, NEW s \in Sides, Forwards(s)
  PROVE  IInv'
<1>1. /\ pump[s] = "write" /\ pump' = [pump EXCEPT ![s] = "read"]
      /\ chunk' = [chunk EXCEPT ![s] = <<>>]
      /\ UNCHANGED <<dial, open, inbox, ended, wrote, sent, got>>
  BY DEF Forwards
<1>2. outbox' = [outbox EXCEPT ![Peer(s)] =
                   IF open[Peer(s)] /\ ended[Peer(s)] # "gone" THEN Cat(@, chunk[s]) ELSE @]
  BY DEF Forwards, Cat
<1>3. dial = "up"
  BY <1>1, PumpRuns
<1>4. Cat(outbox[Peer(s)], chunk[s]) \in Text
  BY FlowTypes, CatText
<1>5. Queues'
  BY <1>1, <1>2, <1>4, EmptyText, PeerFacts, Zenon DEF IInv, Queues
<1>6. TypeOK'
  BY <1>1, Zenon DEF IInv, TypeOK, Queues
<1>7. DialInv' /\ SocketInv' /\ SilentInv'
  BY <1>1, <1>3, PeerFacts, SMT, SMTT(30)
     DEF IInv, DialInv, SocketInv, SilentInv, TypeOK
<1>8. \A t \in Sides : Listening(t)' = Listening(t)
  BY <1>1, Zenon DEF Listening
<1>9. FlowFrom(s)'
  <2>1. chunk'[s] = <<>>
    BY <1>1 DEF IInv, Queues
  <2>2. CASE open[Peer(s)] /\ ended[Peer(s)] # "gone"
    <3>1. Listening(Peer(s)) = "up"
      BY <2>2, Zenon DEF Listening
    <3>2. Flow(got[Peer(s)], Cat(outbox[Peer(s)], chunk[s]), <<>>, inbox[s], sent[s],
               Listening(Peer(s)), Listening(s))
      BY <3>1, FlowTypes, FlowPassed, Zenon DEF FlowFrom
    <3>3. outbox'[Peer(s)] = Cat(outbox[Peer(s)], chunk[s])
      BY <1>2, <2>2, PeerFacts DEF IInv, Queues
    <3> QED
      BY <1>1, <1>8, <2>1, <3>2, <3>3, PeerFacts DEF FlowFrom
  <2>3. CASE ~(open[Peer(s)] /\ ended[Peer(s)] # "gone")
    <3>1. Listening(Peer(s)) = "down"
      BY <1>3, <2>3 DEF Listening
    <3>2. outbox[Peer(s)] \in Beginnings(outbox[Peer(s)])
      BY FlowTypes, SomeBeginnings, Zenon
    <3>3. Flow(got[Peer(s)], outbox[Peer(s)], <<>>, inbox[s], sent[s],
               Listening(Peer(s)), Listening(s))
      BY <3>1, <3>2, FlowTypes, FlowCutOut, ZenonT(30) DEF FlowFrom
    <3>4. outbox'[Peer(s)] = outbox[Peer(s)]
      BY <1>2, <2>3, PeerFacts DEF IInv, Queues
    <3> QED
      BY <1>1, <1>8, <2>1, <3>3, <3>4, PeerFacts DEF FlowFrom
  <2> QED
    BY <2>2, <2>3
<1>10. outbox'[s] = outbox[s] /\ chunk'[Peer(s)] = chunk[Peer(s)]
  BY <1>1, <1>2, PeerFacts, ZenonT(30) DEF IInv, Queues
<1>11. FlowFrom(Peer(s))'
  BY <1>1, <1>8, <1>10, PeerFacts, FlowTypes, SMT, SMTT(30) DEF FlowFrom
<1>12. FlowInv'
  BY <1>9, <1>11, PeerFacts DEF FlowInv
<1>13. LastInv'
  BY <1>1, <1>10, PeerFacts, SMT, SMTT(30) DEF IInv, LastInv, Complete, TypeOK
<1> QED
  BY <1>5, <1>6, <1>7, <1>12, <1>13, ZenonT(30) DEF IInv

\* A pump ends after the last byte of its side, or because the other pump ended.
LEMMA EndsStep ==
  ASSUME IInv, NEW s \in Sides, Ends(s)
  PROVE  IInv'
<1>1. /\ pump[s] = "read" /\ AtEnd(s) /\ pump' = [pump EXCEPT ![s] = "done"]
      /\ open' = [open EXCEPT ![Peer(s)] = FALSE] /\ inbox' = [inbox EXCEPT ![Peer(s)] = <<>>]
      /\ UNCHANGED <<dial, ended, chunk, wrote, sent, got>>
  BY DEF Ends, Closes
<1>2. PICK w \in IF inbox[Peer(s)] = <<>> THEN {outbox[Peer(s)]}
                 ELSE Beginnings(outbox[Peer(s)]) :
        outbox' = [outbox EXCEPT ![Peer(s)] = w]
  BY Zenon DEF Ends, Closes
<1>3. w \in Beginnings(outbox[Peer(s)]) /\ w \in Text
  BY <1>2, FlowTypes, SomeBeginnings, BeginningSplits, ZenonT(30)
<1>4. dial = "up" /\ open[Peer(s)]
  BY <1>1, PumpRuns
<1>5. Queues'
  BY <1>1, <1>2, <1>3, EmptyText, PeerFacts, ZenonT(30) DEF IInv, Queues
<1>6. TypeOK'
  <2>1. TypeOK /\ inbox \in [Sides -> Text] /\ Peer(s) \in Sides
    BY PeerFacts, Zenon DEF IInv, Queues
  <2> QED
    BY <1>1, <1>4, <2>1, SMT, SMTT(30) DEF TypeOK
<1>7. DialInv' /\ SilentInv'
  <2>1. DialInv'
    BY <1>1, <1>4, Zenon DEF DialInv
  <2>2. SilentInv /\ inbox \in [Sides -> Text]
    BY Zenon DEF IInv, Queues
  <2>3. SilentInv'
    BY <1>1, <2>2, SMT, SMTT(30) DEF SilentInv
  <2> QED
    BY <2>1, <2>3
<1>8. SocketInv'
  <2>1. /\ pump'[s] = "done" /\ pump'[Peer(s)] = pump[Peer(s)]
        /\ open'[s] = open[s] /\ open'[Peer(s)] = FALSE
    <3>1. /\ open \in [Sides -> BOOLEAN] /\ pump \in [Sides -> {"read", "write", "done"}]
          /\ Peer(s) \in Sides /\ Peer(s) # s
      BY PeerFacts, Zenon DEF IInv, TypeOK
    <3> QED
      BY <1>1, <3>1, ZenonT(30)
  <2>2. /\ open[s] = (pump[Peer(s)] # "done")
        /\ pump[Peer(s)] = "done" => ended[Peer(s)] # "no" \/ ended[s] # "no"
        /\ pump[Peer(s)] # "done" => ended[s] # "no"
    BY <1>1, <1>4, PeerFacts DEF IInv, SocketInv, AtEnd
  <2> DEFINE Ok(t) ==
                     /\ open'[Peer(t)] = (pump'[t] # "done")
                     /\ pump'[t] = "done" => ended'[t] # "no" \/ ended'[Peer(t)] # "no"
                     /\ pump'[t] = "done" /\ ended'[t] = "no" => pump'[Peer(t)] = "done"
  <2>3. Ok(s)
    BY <1>1, <2>1, <2>2, Zenon
  <2>4. Ok(Peer(s))
    BY <1>1, <2>1, <2>2, PeerFacts, ZenonT(30)
  <2> HIDE DEF Ok
  <2>5. \A t \in Sides : Ok(t)
    BY <2>3, <2>4, PeerFacts
  <2> QED
    BY <2>5 DEF SocketInv, Ok
<1>9. Listening(Peer(s))' = "down" /\ Listening(s)' = Listening(s) /\ "down" \in Link
  BY <1>1, <1>4, PeerFacts DEF IInv, TypeOK, Listening, Link
<1>10. /\ inbox'[s] = inbox[s] /\ outbox'[Peer(s)] = w
       /\ inbox'[Peer(s)] = <<>> /\ outbox'[s] = outbox[s]
  BY <1>1, <1>2, PeerFacts, Zenon DEF IInv, Queues
<1>11. FlowFrom(s)'
  <2>1. Flow(got[Peer(s)], w, chunk[s], inbox[s], sent[s], "down", Listening(s))
    BY <1>3, <1>9, FlowTypes, FlowCutOut, ZenonT(30) DEF FlowFrom
  <2> QED
    BY <1>1, <1>9, <1>10, <2>1, PeerFacts, Zenon DEF FlowFrom
<1>12. FlowFrom(Peer(s))'
  <2>1. <<>> \in Beginnings(inbox[Peer(s)])
    BY SomeBeginnings, PeerFacts DEF IInv, Queues
  <2>2. Flow(got[s], outbox[s], chunk[Peer(s)], <<>>, sent[Peer(s)], Listening(s), "down")
    BY <1>9, <2>1, PeerFlow, FlowCutIn, Zenon
  <2> QED
    BY <1>1, <1>9, <1>10, <2>2, PeerFacts, ZenonT(30) DEF FlowFrom
<1>13. FlowInv'
  BY <1>11, <1>12, PeerFacts DEF FlowInv
<1>14. Complete(s)'
  <2>1. SUFFICES ASSUME ended[s] = "eof", ended[Peer(s)] = "no", wrote[Peer(s)] = <<>>
                 PROVE  sent[s] = Cat(got[Peer(s)], w)
    BY <1>1, <1>10, PeerFacts, Zenon DEF Complete
  <2>2. open[s] /\ inbox[s] = <<>> /\ chunk[s] = <<>>
    BY <1>1, <1>4, <2>1, PeerFacts, ZenonT(30)
       DEF IInv, SocketInv, AtEnd, TypeOK
  <2>3. Listening(s) = "up" /\ Listening(Peer(s)) = "up"
    BY <1>4, <2>1, <2>2, Zenon DEF Listening
  <2>4. sent[s] = Cat(Cat(Cat(got[Peer(s)], outbox[Peer(s)]), <<>>), <<>>)
    BY <2>2, <2>3, FlowTypes, Zenon DEF FlowFrom, Flow
  <2>5. w = outbox[Peer(s)]
    BY <1>2, <2>1, PeerFacts, ZenonT(30) DEF IInv, SilentInv
  <2> QED
    BY <2>4, <2>5, FlowTypes, CatText, Zenon
<1>15. Complete(Peer(s))'
  BY <1>1, <1>10, PeerFacts, SMT, SMTT(30) DEF IInv, LastInv, Complete, TypeOK
<1>16. LastInv'
  BY <1>14, <1>15, PeerFacts DEF LastInv
<1> QED
  BY <1>5, <1>6, <1>7, <1>8, <1>13, <1>16, ZenonT(30) DEF IInv

-----------------------------------------------------------------------------
(* Theorems *)

\* Nothing is under way at the start.
LEMMA InitIInv == Init => IInv
<1> SUFFICES ASSUME Init PROVE IInv
  OBVIOUS
<1>1. TypeOK /\ DialInv /\ SocketInv /\ SilentInv /\ LastInv
  BY PeerFacts DEF Init, TypeOK, DialInv, SocketInv, SilentInv, LastInv, Complete
<1>2. Queues
  BY EmptyText, SMT, SMTT(30) DEF Init, Queues
<1>3. ASSUME NEW s \in Sides PROVE FlowFrom(s)
  <2>1. /\ got[Peer(s)] = <<>> /\ outbox[Peer(s)] = <<>> /\ chunk[s] = <<>>
        /\ inbox[s] = <<>> /\ sent[s] = <<>>
    BY PeerFacts DEF Init
  <2>2. Cat(<<>>, <<>>) = <<>> /\ Before(<<>>, <<>>)
    BY EmptyText, CatText, BeforeSelf, Zenon
  <2> QED
    BY <2>1, <2>2, Zenon DEF FlowFrom, Flow
<1> QED
  BY <1>1, <1>2, <1>3 DEF IInv, FlowInv

\* Every step of the proxy and of the two ends keeps the invariant.
LEMMA NextIInv == IInv /\ [Next]_vars => IInv'
<1> SUFFICES ASSUME IInv, [Next]_vars PROVE IInv'
  OBVIOUS
<1>1. CASE UNCHANGED vars
  BY <1>1 DEF vars, netVars, IInv, TypeOK, Queues, DialInv, SocketInv, FlowInv, FlowFrom,
     Listening, SilentInv, LastInv, Complete
<1>2. CASE Connects
  BY <1>2, DialsStep DEF Connects
<1>3. ASSUME NEW s \in Sides, Pump(s) PROVE IInv'
  BY <1>3, ReadsStep, ForwardsStep, EndsStep, Zenon DEF Pump
<1>4. ASSUME NEW s \in Sides, Shuts(s) \/ Vanishes(s) \/ Receives(s) PROVE IInv'
  BY <1>4, ShutsStep, VanishesStep, ReceivesStep
<1>5. ASSUME NEW s \in Sides, NEW p \in Payloads[s],
             (s = "client" \/ dial = "up") /\ Writes(s, p)
      PROVE  IInv'
  BY <1>5, WritesStep
<1> QED
  BY <1>1, <1>2, <1>3, <1>4, <1>5, ZenonT(30) DEF Next

\* The invariant holds in every reachable state.
LEMMA Invariance == Spec => []IInv
BY InitIInv, NextIInv, PTL DEF Spec

\* The state of a session has its type: a pump holds a chunk exactly while it
\* writes it, and a closed socket has nothing left to be read (pump, handle).
THEOREM TypeCorrect == Spec => []TypeOK
<1>1. IInv => TypeOK
  BY DEF IInv
<1> QED
  BY <1>1, Invariance, PTL

\* Each side receives a prefix of what the other one wrote, and while both
\* sockets are open every byte is received, on its way, or held (pump).
THEOREM BytesVerbatim == Spec => []Verbatim
<1>1. IInv => Verbatim
  <2> SUFFICES ASSUME IInv, NEW s \in Sides
               PROVE  /\ got[Peer(s)] \o outbox[Peer(s)] \in Beginnings(sent[s])
                      /\ open[s] /\ open[Peer(s)] /\ "gone" \notin {ended[s], ended[Peer(s)]} =>
                           sent[s] = got[Peer(s)] \o outbox[Peer(s)] \o chunk[s] \o inbox[s]
    BY Zenon DEF Verbatim
  <2>1. Cat(got[Peer(s)], outbox[Peer(s)]) \in Beginnings(sent[s])
    BY FlowTypes, CatText, BeforeBegins, Zenon DEF FlowFrom, Flow
  <2>2. ASSUME open[s], open[Peer(s)], "gone" \notin {ended[s], ended[Peer(s)]}
        PROVE  sent[s] = Cat(Cat(Cat(got[Peer(s)], outbox[Peer(s)]), chunk[s]), inbox[s])
    <3>1. Listening(s) = "up" /\ Listening(Peer(s)) = "up"
      BY <2>2, ZenonT(30) DEF Listening
    <3> QED
      BY <3>1, FlowTypes, Zenon DEF FlowFrom, Flow
  <2> QED
    BY <2>1, <2>2, Zenon DEF Cat
<1> QED
  BY <1>1, Invariance, PTL

\* A side that stops writing is heard to the end by a peer that stays and has
\* said nothing: the pump closes the peer's socket only after the last chunk.
THEOREM LastWords == Spec => []LastWordsArrive
<1>1. IInv => LastWordsArrive
  <2> SUFFICES ASSUME IInv, NEW s \in Sides,
                      pump[s] = "done", dial = "up", ended[s] = "eof", ended[Peer(s)] = "no",
                      wrote[Peer(s)] = <<>>, outbox[Peer(s)] = <<>>
               PROVE  got[Peer(s)] = sent[s]
    BY DEF LastWordsArrive
  <2>1. sent[s] = Cat(got[Peer(s)], <<>>)
    BY DEF IInv, LastInv, Complete
  <2> QED
    BY <2>1, FlowTypes, CatText, ZenonT(30)
<1> QED
  BY <1>1, Invariance, PTL

-----------------------------------------------------------------------------
(* The trace *)

\* x is what the pump of s has passed on, and its scanner has been fed just that.
\* It does not matter here whether the other side still listens.
Traced(s, x) ==
  /\ Len(x) = seen[s]
  /\ Flow(x, <<>>, chunk[s], inbox[s], sent[s], "up", Listening(s))
  /\ Feed(x) = [buf |-> buf[s], raws |-> logged[s]]

TraceFrom(s) == \E x \in Text : Traced(s, x)

TraceInv ==
  /\ seen \in [Sides -> Nat] /\ buf \in [Sides -> Text] /\ logged \in [Sides -> Seq(Text)]
  /\ \A s \in Sides : sent[s] = Stream(wrote[s]) /\ TraceFrom(s)

\* The payloads of a side are texts, and its bytes are their stream.
LEMMA WroteTexts ==
  /\ UNION {Payloads[s] : s \in Sides} \subseteq Text
  /\ \A ps \in Seq(UNION {Payloads[s] : s \in Sides}) : ps \in Seq(Text) /\ Written(ps) = Stream(ps)
<1> DEFINE U == UNION {Payloads[s] : s \in Sides}
<1>1. \A p \in U : p \in Text /\ Framed[p] = frame(p)
  BY FramedType
<1> HIDE DEF U
<1>2. ASSUME NEW ps \in Seq(U) PROVE ps \in Seq(Text) /\ Written(ps) = Stream(ps)
  <2>1. Len(ps) \in Nat /\ DOMAIN ps = 1..Len(ps) /\ ps \in [1..Len(ps) -> U]
    BY LenProperties
  <2>2. ps \in [1..Len(ps) -> Text]
    BY <1>1, <2>1
  <2>3. ps \in Seq(Text)
    BY <2>1, <2>2, SeqDef
  <2>4. \A i \in DOMAIN ps : Framed[ps[i]] = frame(ps[i])
    BY <1>1, <2>1
  <2>5. [i \in DOMAIN ps |-> Framed[ps[i]]] = [i \in DOMAIN ps |-> frame(ps[i])]
    BY <2>4, Zenon
  <2> QED
    BY <2>3, <2>5 DEF Written, Stream
<1> QED
  BY <1>1, <1>2 DEF U

\* A step that does not touch a direction.
LEMMA TraceKept ==
  ASSUME NEW s \in Sides, TraceFrom(s), Listening(s)' = Listening(s),
         seen'[s] = seen[s], chunk'[s] = chunk[s], inbox'[s] = inbox[s], sent'[s] = sent[s],
         buf'[s] = buf[s], logged'[s] = logged[s]
  PROVE  TraceFrom(s)'
BY Zenon DEF TraceFrom, Traced

\* A step that cuts a direction off.
LEMMA TraceCut ==
  ASSUME IInv, NEW s \in Sides, TraceFrom(s), Listening(s)' = "down",
         inbox'[s] \in Beginnings(inbox[s]),
         seen'[s] = seen[s], chunk'[s] = chunk[s], sent'[s] = sent[s],
         buf'[s] = buf[s], logged'[s] = logged[s]
  PROVE  TraceFrom(s)'
<1>1. PICK x \in Text : Traced(s, x)
  BY Zenon DEF TraceFrom
<1>2. /\ chunk[s] \in Text /\ inbox[s] \in Text /\ sent[s] \in Text /\ Listening(s) \in Link
      /\ "up" \in Link /\ "down" \in Link
  BY FlowTypes, Zenon DEF Link
<1>3. Flow(x, <<>>, chunk[s], inbox'[s], sent[s], "up", "down")
  <2>1. Flow(x, <<>>, chunk[s], inbox[s], sent[s], "up", Listening(s))
    BY <1>1, Zenon DEF Traced
  <2> QED
    BY <1>2, <2>1, EmptyText, FlowCutIn, Zenon
<1>4. Traced(s, x)'
  BY <1>1, <1>3, Zenon DEF Traced
<1> QED
  BY <1>4, Zenon DEF TraceFrom

\* A frame that is written comes last in the stream that the scanner sees.
LEMMA TraceWrites ==
  ASSUME IInv, TraceInv, NEW s \in Sides, NEW p \in Payloads[s], s = "client" \/ dial = "up",
         Writes(s, p)
  PROVE  TraceInv'
<1>1. Framed[p] = frame(p) /\ frame(p) \in Text /\ p \in Text
  BY FramedType, InsideType, Zenon
<1>2. /\ wrote' = [wrote EXCEPT ![s] = Append(@, p)] /\ sent' = [sent EXCEPT ![s] = Cat(@, frame(p))]
      /\ ended[s] = "no" /\ UNCHANGED <<dial, open, ended, chunk, buf, logged, seen>>
  BY <1>1, ZenonT(30) DEF Writes, Cat
<1>3. IF open[s] THEN inbox' = [inbox EXCEPT ![s] = Cat(@, frame(p))] ELSE inbox' = inbox
  BY <1>1 DEF Writes, Cat
<1>4. open[s] \/ dial # "dialing"
  BY Zenon DEF IInv, DialInv, Sides
<1>5. /\ \A t \in Sides : Listening(t)' = Listening(t)
      /\ Listening(s) = IF open[s] THEN "up" ELSE "down"
  BY <1>2, <1>4, ZenonT(30) DEF Listening, IInv, TypeOK
<1>6. sent'[s] = Stream(wrote'[s])
  <2>1. wrote[s] \in Seq(Text)
    BY WroteTexts, Zenon DEF IInv, Queues
  <2>2. Stream(Append(wrote[s], p)) = Cat(Stream(wrote[s]), frame(p))
    BY <1>1, <2>1, StreamAppend
  <2>3. sent'[s] = Cat(sent[s], frame(p)) /\ wrote'[s] = Append(wrote[s], p)
    BY <1>2 DEF IInv, Queues
  <2> QED
    BY <2>2, <2>3 DEF TraceInv
<1>7. TraceFrom(s)'
  <2>1. PICK x \in Text : Traced(s, x)
    BY Zenon DEF TraceInv, TraceFrom
  <2>2. Flow(x, <<>>, chunk[s], inbox[s], sent[s], "up", Listening(s))
    BY <2>1, Zenon DEF Traced
  <2>3. /\ chunk[s] \in Text /\ inbox[s] \in Text /\ sent[s] \in Text /\ Listening(s) \in Link
        /\ "up" \in Link
    BY FlowTypes, ZenonT(30) DEF Link
  <2>4. CASE open[s]
    <3>1. Flow(x, <<>>, chunk[s], Cat(inbox[s], frame(p)), Cat(sent[s], frame(p)), "up", Listening(s))
      BY <1>1, <1>5, <2>2, <2>3, <2>4, EmptyText, FlowGrows, ZenonT(30)
    <3>2. inbox'[s] = Cat(inbox[s], frame(p)) /\ sent'[s] = Cat(sent[s], frame(p))
      BY <1>2, <1>3, <2>4, ZenonT(30) DEF IInv, Queues
    <3>3. Traced(s, x)'
      BY <1>2, <1>5, <2>1, <3>1, <3>2, ZenonT(30) DEF Traced
    <3> QED
      BY <3>3 DEF TraceFrom
  <2>5. CASE ~open[s]
    <3>1. Flow(x, <<>>, chunk[s], inbox[s], Cat(sent[s], frame(p)), "up", Listening(s))
      BY <1>1, <1>5, <2>2, <2>3, <2>5, EmptyText, FlowLoses, ZenonT(30)
    <3>2. inbox'[s] = inbox[s] /\ sent'[s] = Cat(sent[s], frame(p))
      BY <1>2, <1>3, <2>5, ZenonT(30) DEF IInv, Queues
    <3>3. Traced(s, x)'
      BY <1>2, <1>5, <2>1, <3>1, <3>2, ZenonT(30) DEF Traced
    <3> QED
      BY <3>3 DEF TraceFrom
  <2> QED
    BY <2>4, <2>5, Zenon
<1>8. ASSUME NEW t \in Sides, t # s PROVE TraceFrom(t)' /\ sent'[t] = Stream(wrote'[t])
  <2>1. inbox'[t] = inbox[t] /\ sent'[t] = sent[t] /\ wrote'[t] = wrote[t]
    BY <1>2, <1>3, <1>8, Zenon DEF IInv, Queues
  <2>2. TraceFrom(t)'
    BY <1>2, <1>5, <2>1, TraceKept, Zenon DEF TraceInv
  <2> QED
    BY <2>1, <2>2, Zenon DEF TraceInv
<1> QED
  BY <1>2, <1>6, <1>7, <1>8, Zenon DEF TraceInv

\* Feeding a chunk adds it to what the scanner has seen.
LEMMA TraceForwards ==
  ASSUME IInv, TraceInv, NEW s \in Sides, Forwards(s)
  PROVE  TraceInv'
<1> DEFINE f == Feed(Cat(buf[s], chunk[s]))
<1>1. /\ buf' = [buf EXCEPT ![s] = f.buf] /\ logged' = [logged EXCEPT ![s] = Cat(@, f.raws)]
      /\ seen' = [seen EXCEPT ![s] = @ + Len(chunk[s])] /\ chunk' = [chunk EXCEPT ![s] = <<>>]
      /\ UNCHANGED <<dial, open, inbox, ended, wrote, sent>>
  BY Zenon DEF Forwards, Cat
<1>2. /\ chunk[s] \in Text /\ inbox[s] \in Text /\ sent[s] \in Text /\ Listening(s) \in Link
      /\ "up" \in Link /\ buf[s] \in Text /\ logged[s] \in Seq(Text) /\ Len(chunk[s]) \in Nat
  BY FlowTypes, LenProperties, Zenon DEF Link, TraceInv, Text
<1>3. \A t \in Sides : Listening(t)' = Listening(t)
  BY <1>1, Zenon DEF Listening
<1>4. f \in Result
  BY <1>2, CatText, FeedType, ZenonT(30)
<1> HIDE DEF f
<1>5. f.buf \in Text /\ f.raws \in Seq(Text) /\ Cat(logged[s], f.raws) \in Seq(Text)
  <2>1. \A a, b \in Seq(Text) : Cat(a, b) \in Seq(Text)
    BY CatSeq, ZenonT(30)
  <2> QED
    BY <1>2, <1>4, <2>1 DEF Result
<1>6. /\ buf'[s] = f.buf /\ logged'[s] = Cat(logged[s], f.raws)
      /\ seen'[s] = seen[s] + Len(chunk[s]) /\ chunk'[s] = <<>>
  BY <1>1 DEF IInv, Queues, TraceInv
<1>7. TraceFrom(s)'
  <2>1. PICK x \in Text : Traced(s, x)
    BY Zenon DEF TraceInv, TraceFrom
  <2>2. PICK y \in Text : y = Cat(x, chunk[s]) /\ Len(y) = Len(x) + Len(chunk[s])
    BY <1>2, CatBytes, ZenonT(30)
  <2>3. Feed(y) = [buf |-> f.buf, raws |-> Cat(logged[s], f.raws)]
    <3>1. Feed(x) = [buf |-> buf[s], raws |-> logged[s]]
      BY <2>1, Zenon DEF Traced
    <3>2. Feed(y) = Then(Feed(x), Feed(Cat(Feed(x).buf, chunk[s])))
      BY <1>2, <2>2, FeedInPieces, ZenonT(30)
    <3>3. Feed(x).buf = buf[s] /\ Feed(x).raws = logged[s]
      BY <3>1
    <3>4. Feed(Cat(Feed(x).buf, chunk[s])) = f
      BY <3>3 DEF f
    <3>5. Feed(y) = Then(Feed(x), f)
      BY <3>2, <3>4
    <3> QED
      BY <3>3, <3>5, Zenon DEF Then
  <2>4. Flow(y, <<>>, <<>>, inbox[s], sent[s], "up", Listening(s))
    <3>1. Flow(x, <<>>, chunk[s], inbox[s], sent[s], "up", Listening(s))
      BY <2>1 DEF Traced
    <3>2. Flow(x, Cat(<<>>, chunk[s]), <<>>, inbox[s], sent[s], "up", Listening(s))
      BY <1>2, <3>1, EmptyText, FlowPassed, ZenonT(30)
    <3>3. Cat(<<>>, chunk[s]) = chunk[s]
      BY <1>2, CatText, Zenon
    <3>4. Flow(x, chunk[s], <<>>, inbox[s], sent[s], "up", Listening(s))
      BY <3>2, <3>3, Zenon
    <3> QED
      BY <1>2, <2>2, <3>4, EmptyText, FlowArrives, ZenonT(30)
  <2>5. Len(y) = seen'[s]
    BY <1>6, <2>1, <2>2, Zenon DEF Traced
  <2>6. Traced(s, y)'
    BY <1>1, <1>3, <1>6, <2>3, <2>4, <2>5, ZenonT(30) DEF Traced
  <2> QED
    BY <2>6, Zenon DEF TraceFrom
<1>8. ASSUME NEW t \in Sides, t # s PROVE TraceFrom(t)'
  <2>1. /\ seen'[t] = seen[t] /\ chunk'[t] = chunk[t] /\ buf'[t] = buf[t] /\ logged'[t] = logged[t]
        /\ inbox'[t] = inbox[t] /\ sent'[t] = sent[t]
    BY <1>1, <1>8, ZenonT(30) DEF IInv, Queues, TraceInv
  <2> QED
    BY <1>3, <2>1, TraceKept, Zenon DEF TraceInv
<1>9. seen' \in [Sides -> Nat] /\ buf' \in [Sides -> Text] /\ logged' \in [Sides -> Seq(Text)]
  BY <1>1, <1>2, <1>5, SMTT(30), SMTT(60) DEF TraceInv
<1> QED
  BY <1>1, <1>7, <1>8, <1>9, Zenon DEF TraceInv

\* A chunk that is read moves towards the scanner.
LEMMA TraceReads ==
  ASSUME IInv, TraceInv, NEW s \in Sides, Reads(s)
  PROVE  TraceInv'
<1>1. pump[s] = "read" /\ UNCHANGED <<dial, open, ended, wrote, sent, buf, logged, seen>>
  BY DEF Reads
<1>2. PICK w \in Beginnings(inbox[s]) \ {<<>>} :
        /\ chunk' = [chunk EXCEPT ![s] = w]
        /\ inbox' = [inbox EXCEPT ![s] = SubSeq(@, Len(w) + 1, Len(@))]
  BY Zenon DEF Reads
<1> DEFINE i == SubSeq(inbox[s], Len(w) + 1, Len(inbox[s]))
<1>3. w \in Text /\ i \in Text /\ inbox[s] = Cat(w, i)
  BY BeginningSplits DEF IInv, Queues
<1>4. inbox' = [inbox EXCEPT ![s] = i] /\ chunk' = [chunk EXCEPT ![s] = w]
  BY <1>2, ZenonT(30)
<1> HIDE DEF i
<1>5. chunk[s] = <<>>
  BY <1>1 DEF IInv, TypeOK
<1>6. \A t \in Sides : Listening(t)' = Listening(t)
  BY <1>1 DEF Listening
<1>7. TraceFrom(s)'
  <2>1. PICK x \in Text : Traced(s, x)
    BY DEF TraceInv, TraceFrom
  <2>2. sent[s] \in Text /\ Listening(s) \in Link /\ "up" \in Link
    BY FlowTypes, Zenon DEF Link
  <2>3. Flow(x, <<>>, <<>>, Cat(w, i), sent[s], "up", Listening(s))
    BY <1>3, <1>5, <2>1, ZenonT(30) DEF Traced
  <2>4. Flow(x, <<>>, w, i, sent[s], "up", Listening(s))
    BY <1>3, <2>2, <2>3, EmptyText, FlowTaken, ZenonT(30)
  <2>5. chunk'[s] = w /\ inbox'[s] = i
    BY <1>4, Zenon DEF IInv, Queues
  <2>6. Traced(s, x)'
    BY <1>1, <1>6, <2>1, <2>4, <2>5, ZenonT(30) DEF Traced
  <2> QED
    BY <2>6 DEF TraceFrom
<1>8. ASSUME NEW t \in Sides, t # s PROVE TraceFrom(t)'
  <2>1. chunk'[t] = chunk[t] /\ inbox'[t] = inbox[t]
    BY <1>4, <1>8, Zenon DEF IInv, Queues
  <2> QED
    BY <1>1, <1>6, <2>1, TraceKept, Zenon DEF TraceInv
<1> QED
  BY <1>1, <1>7, <1>8 DEF TraceInv

\* The steps that neither write nor read nor scan.
LEMMA TraceOthers ==
  ASSUME IInv, TraceInv, UNCHANGED <<chunk, wrote, sent, buf, logged, seen>>,
         \A t \in Sides : \/ inbox'[t] = inbox[t] /\ Listening(t)' = Listening(t)
                          \/ inbox'[t] \in Beginnings(inbox[t]) /\ Listening(t)' = "down"
  PROVE  TraceInv'
<1>1. ASSUME NEW t \in Sides PROVE TraceFrom(t)'
  <2>1. CASE inbox'[t] = inbox[t] /\ Listening(t)' = Listening(t)
    BY <2>1, TraceKept, Zenon DEF TraceInv
  <2>2. CASE inbox'[t] \in Beginnings(inbox[t]) /\ Listening(t)' = "down"
    BY <2>2, TraceCut, ZenonT(30) DEF TraceInv
  <2> QED
    BY <2>1, <2>2, Zenon
<1> QED
  BY <1>1, Zenon DEF TraceInv

\* Every step keeps the scanner in line with the stream.
LEMMA NextTraceInv == IInv /\ TraceInv /\ [Next]_vars => TraceInv'
<1> SUFFICES ASSUME IInv, TraceInv, [Next]_vars PROVE TraceInv'
  OBVIOUS
<1> DEFINE Untouched == UNCHANGED <<chunk, wrote, sent, buf, logged, seen>>
           Kept(t) == inbox'[t] = inbox[t] /\ Listening(t)' = Listening(t)
           CutOff(t) == inbox'[t] \in Beginnings(inbox[t]) /\ Listening(t)' = "down"
<1>1. \A t \in Sides : inbox[t] \in Text /\ <<>> \in Beginnings(inbox[t])
  BY SomeBeginnings DEF IInv, Queues
<1>2. CASE UNCHANGED vars
  <2>1. Untouched /\ \A t \in Sides : Kept(t)
    BY <1>2 DEF vars, netVars, Listening
  <2> QED
    BY <2>1, TraceOthers
<1>3. ASSUME NEW ok \in BOOLEAN, Dials(ok) PROVE TraceInv'
  <2>1. Untouched
    BY <1>3 DEF Dials
  <2>2. CASE ok
    <3>1. \A t \in Sides : Kept(t)
      BY <1>3, <2>2 DEF Dials, Listening
    <3> QED
      BY <2>1, <3>1, TraceOthers
  <2>3. CASE ~ok
    <3>1. \A t \in Sides : Listening(t)' = "down"
      BY <1>3, <2>3 DEF Dials, Listening
    <3>2. inbox["target"] = <<>> /\ inbox' = [inbox EXCEPT !["client"] = <<>>]
      BY <1>3, <2>3 DEF Dials, IInv, DialInv
    <3>3. \A t \in Sides : inbox'[t] = <<>>
      BY <3>2 DEF Sides, IInv, Queues
    <3>4. \A t \in Sides : CutOff(t)
      BY <1>1, <3>1, <3>3, ZenonT(30)
    <3> QED
      BY <2>1, <3>4, TraceOthers, Zenon
  <2> QED
    BY <2>2, <2>3
<1>4. ASSUME NEW s \in Sides, Ends(s) PROVE TraceInv'
  <2>1. Untouched
    BY <1>4 DEF Ends
  <2>2. CutOff(Peer(s)) /\ Kept(s)
    <3>1. /\ open' = [open EXCEPT ![Peer(s)] = FALSE] /\ inbox' = [inbox EXCEPT ![Peer(s)] = <<>>]
          /\ UNCHANGED <<dial, ended>> /\ dial = "up"
      BY <1>4, PumpRuns DEF Ends, Closes
    <3>2. inbox'[Peer(s)] = <<>> /\ inbox'[s] = inbox[s]
      BY <3>1, PeerFacts, Zenon DEF IInv, Queues
    <3>3. Listening(Peer(s))' = "down" /\ Listening(s)' = Listening(s)
      BY <3>1, PeerFacts, ZenonT(30) DEF Listening, IInv, TypeOK
    <3> QED
      BY <1>1, <3>2, <3>3, PeerFacts, ZenonT(30)
  <2>3. \A t \in Sides : Kept(t) \/ CutOff(t)
    BY <2>2, PeerFacts
  <2> QED
    BY <2>1, <2>3, TraceOthers
<1>5. ASSUME NEW s \in Sides, Shuts(s) PROVE TraceInv'
  <2>1. Untouched /\ \A t \in Sides : Kept(t)
    BY <1>5, ZenonT(30) DEF Shuts, netVars, Listening, IInv, TypeOK
  <2> QED
    BY <2>1, TraceOthers, Zenon
<1>6. ASSUME NEW s \in Sides, Vanishes(s) PROVE TraceInv'
  <2>1. Untouched
    BY <1>6 DEF Vanishes
  <2>2. PICK w \in Beginnings(inbox[s]) : inbox' = [inbox EXCEPT ![s] = w]
    BY <1>6, Zenon DEF Vanishes
  <2>3. inbox'[s] = w /\ \A t \in Sides : t # s => inbox'[t] = inbox[t]
    BY <2>2, Zenon DEF IInv, Queues
  <2>4. Listening(s)' = "down" /\ \A t \in Sides : t # s => Listening(t)' = Listening(t)
    BY <1>6 DEF Vanishes, Listening, IInv, TypeOK
  <2>5. \A t \in Sides : Kept(t) \/ CutOff(t)
    BY <2>2, <2>3, <2>4, ZenonT(30)
  <2> QED
    BY <2>1, <2>5, TraceOthers
<1>7. ASSUME NEW s \in Sides, Receives(s) PROVE TraceInv'
  <2>1. Untouched /\ \A t \in Sides : Kept(t)
    BY <1>7 DEF Receives, Listening
  <2> QED
    BY <2>1, TraceOthers
<1>8. ASSUME NEW s \in Sides, NEW p \in Payloads[s],
             (s = "client" \/ dial = "up") /\ Writes(s, p)
      PROVE  TraceInv'
  BY <1>8, TraceWrites
<1>9. ASSUME NEW s \in Sides, Pump(s) PROVE TraceInv'
  BY <1>4, <1>9, TraceReads, TraceForwards, Zenon DEF Pump
<1> QED
  BY <1>2, <1>3, <1>5, <1>6, <1>7, <1>8, <1>9 DEF Next, Connects

\* The scanner has seen nothing at the start.
LEMMA InitTraceInv == Init => TraceInv
<1> SUFFICES ASSUME Init PROVE TraceInv
  OBVIOUS
<1>1. Feed(<<>>) = [buf |-> <<>>, raws |-> <<>>] /\ Stream(<<>>) = <<>>
  <2>1. <<>> \in Seq(Text)
    OBVIOUS
  <2>2. Feed(Stream(<<>>)) = [buf |-> <<>>, raws |-> Contents(<<>>)]
    BY <2>1, FeedStream, Zenon
  <2>3. Contents(<<>>) = <<>>
    BY DEF Contents
  <2> QED
    BY <2>2, <2>3, StreamAppend
<1>2. Cat(<<>>, <<>>) = <<>> /\ Before(<<>>, <<>>) /\ <<>> \in Text /\ <<>> \in Seq(Text)
  BY EmptyText, CatText, BeforeSelf, SMT, SMTT(30)
<1>3. ASSUME NEW s \in Sides PROVE TraceFrom(s)
  <2>1. /\ chunk[s] = <<>> /\ inbox[s] = <<>> /\ sent[s] = <<>>
        /\ seen[s] = 0 /\ buf[s] = <<>> /\ logged[s] = <<>>
    BY Zenon DEF Init
  <2>2. Traced(s, <<>>)
    BY <1>1, <1>2, <2>1, Len(<<>>) = 0, Zenon DEF Traced, Flow
  <2> QED
    BY <1>2, <2>2, Zenon DEF TraceFrom
<1> QED
  BY <1>1, <1>2, <1>3, Zenon DEF Init, TraceInv

\* However a direction is cut into reads, its log holds exactly the payloads whose
\* frames have passed, in order, each of them whole (FrameScanner.Feed, pump).
THEOREM TraceCorrect == Spec => []TraceIsTraffic
<1>1. IInv /\ TraceInv => TraceIsTraffic
  <2> SUFFICES ASSUME IInv, TraceInv, NEW s \in Sides
               PROVE  LET whole == {n \in 0..Len(wrote[s]) :
                                      Len(Written(SubSeq(wrote[s], 1, n))) <= seen[s]}
                      IN [i \in DOMAIN logged[s] |-> payload(logged[s][i])]
                           = SubSeq(wrote[s], 1, CHOOSE n \in whole : \A m \in whole : m <= n)
    BY Zenon DEF TraceIsTraffic
  <2> DEFINE ps == wrote[s]
             whole == {n \in 0..Len(ps) : Len(Written(SubSeq(ps, 1, n))) <= seen[s]}
             N == CHOOSE n \in whole : \A m \in whole : m <= n
  <2>1. PICK x \in Text : Traced(s, x)
    BY Zenon DEF TraceInv, TraceFrom
  <2>2. ps \in Seq(Text) /\ ps \in Seq(UNION {Payloads[t] : t \in Sides}) /\ Len(ps) \in Nat
    BY WroteTexts, LenProperties DEF IInv, Queues
  <2>3. \A n \in 0..Len(ps) : Written(SubSeq(ps, 1, n)) = Stream(SubSeq(ps, 1, n))
    BY <2>2, FirstFew, WroteTexts, ZenonT(30)
  <2>4. Before(x, Stream(ps)) /\ Len(x) = seen[s] /\ Feed(x).raws = logged[s]
    <3>1. Cat(x, <<>>) = x
      BY CatText
    <3> QED
      BY <2>1, <3>1, SMT, SMTT(30) DEF Traced, Flow, TraceInv
  <2>5. Len(x) \in Nat
    BY LenProperties DEF Text
  <2> HIDE DEF ps
  <2>6. 0 \in whole
    <3>1. SubSeq(ps, 1, 0) = <<>>
      BY SubSeqEmpty
    <3>2. Len(Written(SubSeq(ps, 1, 0))) = 0
      <4>1. Written(SubSeq(ps, 1, 0)) = Stream(SubSeq(ps, 1, 0))
        BY <2>2, <2>3, 0 \in 0..Len(ps)
      <4>2. Stream(<<>>) = <<>>
        BY StreamAppend
      <4> QED
        BY <3>1, <4>1, <4>2, Len(<<>>) = 0, Zenon
    <3> QED
      BY <2>2, <2>4, <2>5, <3>2, SMT, SMTT(30)
  <2>7. N \in whole /\ \A m \in whole : m <= N
    <3>1. whole \in SUBSET (0..Len(ps))
      OBVIOUS
    <3> HIDE DEF whole
    <3>2. \E n \in whole : \A m \in whole : m <= n
      BY <2>2, <2>6, <3>1, GreatestNumber, Zenon
    <3> QED
      BY <3>2
  <2> HIDE DEF N
  <2>8. N \in 0..Len(ps) /\ Len(Stream(SubSeq(ps, 1, N))) <= Len(x)
    BY <2>3, <2>4, <2>7, Zenon
  <2>9. N < Len(ps) => Len(x) < Len(Stream(SubSeq(ps, 1, N + 1)))
    <3>1. SUFFICES ASSUME N < Len(ps) PROVE Len(x) < Len(Stream(SubSeq(ps, 1, N + 1)))
      OBVIOUS
    <3>2. N + 1 \in 0..Len(ps) /\ N + 1 \notin whole
      BY <2>2, <2>7, <2>8, <3>1, SMT, SMTT(30)
    <3>3. ~(Len(Stream(SubSeq(ps, 1, N + 1))) <= Len(x))
      BY <2>3, <2>4, <3>2
    <3>4. Stream(SubSeq(ps, 1, N + 1)) \in Text
      BY <2>2, <3>2, FirstFew, StreamAppend, Zenon
    <3>5. Len(Stream(SubSeq(ps, 1, N + 1))) \in Nat
      BY <3>4, LenProperties, Zenon DEF Text
    <3> QED
      BY <2>5, <3>3, <3>5
  <2>10. logged[s] = Contents(SubSeq(ps, 1, N))
    BY <2>2, <2>4, <2>8, <2>9, FeedCut, Zenon
  <2>11. [i \in DOMAIN logged[s] |-> payload(logged[s][i])] = SubSeq(ps, 1, N)
    <3> DEFINE qs == SubSeq(ps, 1, N)
    <3>1. qs \in Seq(Text)
      BY <2>2, <2>8, FirstFew
    <3> HIDE DEF qs
    <3>2. DOMAIN qs = 1..Len(qs) /\ Len(qs) \in Nat /\ \A i \in DOMAIN qs : qs[i] \in Text
      BY <3>1, LenProperties
    <3>3. DOMAIN Contents(qs) = DOMAIN qs /\ \A i \in DOMAIN qs : Contents(qs)[i] = Inside(qs[i])
      BY Zenon DEF Contents
    <3>4. \A i \in DOMAIN qs : payload(Contents(qs)[i]) = qs[i]
      BY <3>2, <3>3, InsideType, Zenon
    <3>5. [i \in DOMAIN qs |-> payload(Contents(qs)[i])] = qs
      <4>1. qs = [i \in DOMAIN qs |-> qs[i]]
        BY <3>1
      <4> QED
        BY <3>4, <4>1
    <3> QED
      BY <2>10, <3>3, <3>5, Zenon DEF qs
  <2> QED
    BY <2>11, Zenon DEF N, ps
<1>2. Spec => []TraceInv
  BY InitTraceInv, NextTraceInv, Invariance, PTL DEF Spec
<1> QED
  BY <1>1, <1>2, Invariance, PTL

=============================================================================
