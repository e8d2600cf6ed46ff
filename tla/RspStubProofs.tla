---------------------------- MODULE RspStubProofs ----------------------------
(***************************************************************************)
(* Proofs about RspClient, for any commands, any number of transmissions   *)
(* and any number of mishaps: the inductive invariant, what reading and    *)
(* writing do to the two streams, and the steps of the stub and of the     *)
(* connection.  RspClientProofs has the client's steps and the theorems.   *)
(***************************************************************************)
EXTENDS RspClient, TLAPS

Commands == {"qSupported", "vAttach", "Hg", "?", "qfThreadInfo", "qsThreadInfo",
             "QStartNoAckMode", "D", "k"} \cup Plain
Frames == [n : Nat, cmd : Commands]
Written == Frames \cup {Nak}
Signals == [b : {"+", "-", "$"}, in : BOOLEAN]
Closings == [b : {"#"}, in : {TRUE}, re : Nat, rc : {"ok", "err"}, good : BOOLEAN]
Marks == Signals \cup Closings
Answer == [re : Nat, rc : {"ok", "err"}, signs : Signs]

-----------------------------------------------------------------------------
(* The inductive invariant *)

\* Values, and the commands and answers on their way: each has the number of
\* a command that was sent.  A packet is there to be sent again once one was
\* damaged.
Shape ==
  /\ cmd \in Commands \cup {"none"}
  /\ noAck \in BOOLEAN /\ pid \in BOOLEAN /\ attached \in BOOLEAN
  /\ stray \in BOOLEAN /\ twice \in BOOLEAN
  /\ toD \in Seq(Written)
  /\ toC \in Seq(Marks)
  /\ pending \in Frames \cup {None}
  /\ last \in Answer
  /\ stage \in Waiting => cmd # "none" /\ sent > 0
  /\ cmd = "vAttach" => op = "attach"
  /\ pending # None => pending.n > 0
  /\ \A i \in 1..Len(toD) : toD[i] # Nak => toD[i].n > 0
  /\ last.re <= sent
  /\ last.re = 0 => \A i \in 1..Len(toD) : toD[i] # Nak
  /\ last.re = 0 => \A i \in 1..Len(toC) : toC[i].b = "#" => toC[i].good

IsAck(m) == m.b \in {"+", "-"} /\ ~m.in

\* No acknowledgement is on its way; one is, the k-th mark.
Quiet(s) == \A i \in 1..Len(s) : ~IsAck(s[i])
OneAck(s, k) ==
  k \in 1..Len(s) /\ IsAck(s[k]) /\ \A i \in 1..Len(s) : i # k => ~IsAck(s[i])

\* From the k-th mark on: no packet ends; at most one does, the answer to n.
Mute(s, k) == \A i \in k..Len(s) : s[i].b # "#"
Fits(s, k, n) ==
  \A i \in k..Len(s) :
    s[i].b = "#" => s[i].re = n /\ \A j \in k..Len(s) : s[j].b = "#" => i = j

Current == [n |-> sent, cmd |-> cmd]

\* Every frame on its way is c; the last one is f and the others are c.
All(s, c) == \A i \in 1..Len(s) : s[i].cmd = c
Behind(s, f, c) ==
  s # <<>> /\ s[Len(s)] = f /\ \A i \in 1..(Len(s) - 1) : s[i].cmd = c

\* While readAck waits, the acknowledgement of the command is either still to
\* come or the only one on its way, and no answer overtakes it.
AckInv ==
  stage = "ack" =>
    /\ ~noAck
    /\ \/ /\ Quiet(toC)
          /\ conn = "up" => Behind(toD, Current, "nak") /\ pending.n < sent /\ done < sent
       \/ \E k \in 1..Len(toC) :
            /\ OneAck(toC, k) /\ toD = <<>>
            /\ toC[k].b = "-" => pending = None /\ done < sent
            /\ toC[k].b = "+" => /\ Fits(toC, k, sent)
                                 /\ ~Mute(toC, k) => pending = None
                                 /\ pending # None => pending.n = sent

\* While ReadPacket waits, the only answer on its way is to this command.
HearInv ==
  stage \in {"start", "body"} =>
    /\ ~noAck => Quiet(toC) /\ toD = <<>>
    /\ cmd # "k"
    /\ Fits(toC, 1, sent)
    /\ ~Mute(toC, 1) => toD = <<>> /\ pending = None
    /\ toD # <<>> => Behind(toD, Current, "k")
    /\ conn = "up" /\ pending # None /\ pending.cmd # "k"
         => pending.n = sent /\ toD = <<>>

\* What a method may leave behind when it returns; s are the marks left.
\* With acknowledgements late answers do no harm, without them there are none.
Settled(s, quick) ==
  /\ ~quick => Quiet(s) /\ All(toD, "nak")
  /\ quick => /\ Mute(s, 1) /\ All(toD, "k")
              /\ conn = "up" /\ pending # None => pending.cmd = "k"

RestInv == stage \in {"fresh", "idle"} => Settled(toC, noAck)

DownInv == conn = "down" /\ stage # "closed" => toD = <<>>

\* What the stub has still to carry out is in order and new.
FreshInv ==
  /\ pending # None => pending.n > done
  /\ \A i \in 1..Len(toD) : toD[i] # Nak => toD[i].n > done /\ toD[i].n > pending.n
  /\ \A i, j \in 1..Len(toD) :
       i < j /\ toD[i] # Nak /\ toD[j] # Nak => toD[i].n < toD[j].n

TrustInv ==
  Trust => AckInv /\ HearInv /\ RestInv /\ DownInv /\ FreshInv /\ ~stray /\ ~twice

\* Nothing has gone wrong so far.
Calm == mishaps = 0 /\ faults = {}

Clean(s) ==
  \A i \in 1..Len(s) : (s[i].b = "-" => s[i].in) /\ (s[i].b = "#" => s[i].good)

CalmRest ==
  stage \in {"fresh", "idle"} =>
    Mute(toC, 1) /\ All(toD, "k") /\ pending.cmd \in {"none", "k"} /\ (attached => pid)

CalmWait ==
  stage \in Waiting =>
    /\ Fits(toC, 1, sent)
    /\ ~Mute(toC, 1) => toD = <<>> /\ pending = None /\ (cmd = "D" => ~attached)
    /\ cmd = "k" => Mute(toC, 1)
    /\ toD # <<>> => Behind(toD, Current, "k")
    /\ pending = Current => toD = <<>>
    /\ pending.cmd \in {"none", "k"} \/ pending = Current
    /\ op \in {"close", "detach"} => cmd = "D"
    /\ attached /\ ~pid =>
         /\ op = "attach" /\ cmd = "vAttach" /\ pending = None /\ toD = <<>>
         /\ \A i \in 1..Len(toC) : toC[i].b = "#" => toC[i].rc = "ok"

CalmClosed ==
  stage = "closed" => All(toD, "k") /\ pending.cmd \in {"none", "k"} /\ ~attached

CalmDown ==
  conn = "down" /\ stage # "closed" => pending = None /\ toD = <<>> /\ ~attached

CalmInv ==
  Calm => Clean(toC) /\ CalmRest /\ CalmWait /\ CalmClosed /\ CalmDown

IInv == TypeOK /\ Shape /\ TrustInv /\ CalmInv

-----------------------------------------------------------------------------
(* Marks *)

\* What the client has left when it has read one mark.
LEMMA TailMarks ==
  ASSUME NEW s \in Seq(Marks), s # <<>>
  PROVE  /\ Head(s) = s[1] /\ Head(s) \in Marks
         /\ Tail(s) \in Seq(Marks)
         /\ Len(s) \in Nat \ {0} /\ Len(Tail(s)) = Len(s) - 1
         /\ \A i \in 1..(Len(s) - 1) : i + 1 \in 1..Len(s) /\ Tail(s)[i] = s[i + 1]
  OBVIOUS

\* Where no acknowledgement is on its way, reading a mark finds none.
LEMMA TailQuiet ==
  ASSUME NEW s \in Seq(Marks), s # <<>>, Quiet(s)
  PROVE  Quiet(Tail(s)) /\ ~IsAck(Head(s))
  BY TailMarks DEF Quiet

\* Reading a mark that ends no packet changes nothing for the answers.
LEMMA TailMute ==
  ASSUME NEW s \in Seq(Marks), s # <<>>
  PROVE  /\ Mute(s, 1) => Mute(Tail(s), 1) /\ Head(s).b # "#"
         /\ Head(s).b # "#" /\ Mute(Tail(s), 1) => Mute(s, 1)
<1>1. Mute(s, 1) => Mute(Tail(s), 1) /\ Head(s).b # "#"
  BY TailMarks DEF Mute
<1>2. ASSUME Head(s).b # "#", Mute(Tail(s), 1), NEW i \in 1..Len(s)
      PROVE  s[i].b # "#"
  <2>1. CASE i = 1
    BY <1>2, <2>1, TailMarks
  <2>2. CASE i # 1
    <3>1. i - 1 \in 1..(Len(s) - 1) /\ (i - 1) + 1 = i
      BY <2>2, TailMarks
    <3>2. Tail(s)[i - 1] = s[i] /\ i - 1 \in 1..Len(Tail(s))
      BY <3>1, TailMarks
    <3> QED BY <1>2, <3>2, Zenon DEF Mute
  <2> QED BY <2>1, <2>2
<1> QED BY <1>1, <1>2 DEF Mute

\* Once the answer is read, no other is on its way.
LEMMA TailFits ==
  ASSUME NEW s \in Seq(Marks), s # <<>>, NEW n, Fits(s, 1, n)
  PROVE  /\ Fits(Tail(s), 1, n)
         /\ Head(s).b = "#" => Head(s).re = n /\ Mute(Tail(s), 1)
<1>1. Fits(Tail(s), 1, n)
  BY TailMarks DEF Fits
<1>2. ASSUME Head(s).b = "#" PROVE Head(s).re = n /\ Mute(Tail(s), 1)
  <2>1. 1 \in 1..Len(s) /\ s[1].b = "#"
    BY <1>2, TailMarks
  <2>2. s[1].re = n /\ \A j \in 1..Len(s) : s[j].b = "#" => 1 = j
    BY <2>1 DEF Fits
  <2> QED BY <2>2, TailMarks DEF Mute
<1> QED BY <1>1, <1>2

\* Where nothing is damaged, reading a mark finds it sound.
LEMMA TailClean ==
  ASSUME NEW s \in Seq(Marks), s # <<>>, Clean(s)
  PROVE  /\ Clean(Tail(s))
         /\ Head(s).b = "-" => Head(s).in
         /\ Head(s).b = "#" => Head(s).good
  BY TailMarks DEF Clean

\* The acknowledgement comes one closer, or is read.
LEMMA TailAck ==
  ASSUME NEW s \in Seq(Marks), s # <<>>, NEW k, OneAck(s, k), NEW n
  PROVE  /\ IsAck(Head(s)) => k = 1 /\ Quiet(Tail(s))
         /\ ~IsAck(Head(s)) =>
              /\ OneAck(Tail(s), k - 1) /\ Tail(s)[k - 1] = s[k]
              /\ k - 1 \in 1..Len(Tail(s))
              /\ Mute(s, k) => Mute(Tail(s), k - 1)
              /\ Mute(Tail(s), k - 1) => Mute(s, k)
              /\ Fits(s, k, n) => Fits(Tail(s), k - 1, n)
<1>1. ASSUME IsAck(Head(s)) PROVE k = 1 /\ Quiet(Tail(s))
  BY <1>1, TailMarks DEF OneAck, Quiet
<1>2. ASSUME ~IsAck(Head(s))
      PROVE  /\ OneAck(Tail(s), k - 1) /\ Tail(s)[k - 1] = s[k]
             /\ k - 1 \in 1..Len(Tail(s))
             /\ Mute(s, k) => Mute(Tail(s), k - 1)
             /\ Mute(Tail(s), k - 1) => Mute(s, k)
             /\ Fits(s, k, n) => Fits(Tail(s), k - 1, n)
  <2>1. k \in 1..Len(s) /\ k # 1
    BY <1>2, TailMarks DEF OneAck
  <2>2. k - 1 \in 1..Len(Tail(s)) /\ Tail(s)[k - 1] = s[k]
    BY <2>1, TailMarks
  <2>3. OneAck(Tail(s), k - 1)
    BY <2>1, <2>2, TailMarks DEF OneAck
  <2>4. Mute(s, k) => Mute(Tail(s), k - 1)
    BY <2>1, TailMarks DEF Mute
  <2>5. ASSUME Mute(Tail(s), k - 1), NEW i \in k..Len(s) PROVE s[i].b # "#"
    <3>1. i - 1 \in (k - 1)..Len(Tail(s)) /\ Tail(s)[i - 1] = s[i]
      BY <2>1, TailMarks
    <3> QED BY <2>5, <3>1, Zenon DEF Mute
  <2>6. Fits(s, k, n) => Fits(Tail(s), k - 1, n)
    BY <2>1, TailMarks DEF Fits
  <2> QED BY <2>2, <2>3, <2>4, <2>5, <2>6 DEF Mute
<1> QED BY <1>1, <1>2

\* What the client has before it when more marks arrive.
LEMMA CatMarks ==
  ASSUME NEW s \in Seq(Marks), NEW t \in Seq(Marks)
  PROVE  /\ s \o t \in Seq(Marks)
         /\ Len(s) \in Nat /\ Len(t) \in Nat /\ Len(s \o t) = Len(s) + Len(t)
         /\ \A i \in 1..Len(s) : i \in 1..Len(s \o t) /\ (s \o t)[i] = s[i]
         /\ \A i \in 1..Len(s \o t) :
              i \notin 1..Len(s) => /\ i - Len(s) \in 1..Len(t)
                                    /\ (s \o t)[i] = t[i - Len(s)]
  OBVIOUS

\* A packet carries no acknowledgement and ends in the only `#'.
LEMMA PacketMarks ==
  ASSUME NEW a \in Answer, NEW good \in BOOLEAN
  PROVE  LET p == Packet(a, good) IN
         /\ p \in Seq(Marks)
         /\ Len(p) \in Nat \ {0}
         /\ \A i \in 1..Len(p) : p[i].in /\ (p[i].b = "#" => i = Len(p))
         /\ p[Len(p)] = End(a, good)
<1> DEFINE f == [i \in 1..Len(a.signs) |-> Byte(a.signs[i], TRUE)]
           o == <<Byte("$", TRUE)>>
           e == <<End(a, good)>>
<1>1. o \in Seq(Marks) /\ Len(o) = 1 /\ o[1].in /\ o[1].b # "#"
  BY DEF Marks, Signals, Byte
<1>2. e \in Seq(Marks) /\ Len(e) = 1 /\ e[1] = End(a, good) /\ e[1].in
  BY DEF Marks, Closings, End, Answer
<1>3. /\ Len(a.signs) \in Nat
      /\ \A i \in 1..Len(a.signs) : a.signs[i] \in {"+", "-"}
  BY DEF Answer, Signs
<1>4. \A i \in 1..Len(a.signs) :
        Byte(a.signs[i], TRUE) \in Marks /\ Byte(a.signs[i], TRUE).in
        /\ Byte(a.signs[i], TRUE).b # "#"
  BY <1>3 DEF Marks, Signals, Byte
<1>5. /\ f \in Seq(Marks) /\ Len(f) = Len(a.signs)
      /\ \A i \in 1..Len(f) : f[i].in /\ f[i].b # "#"
  <2>1. PICK n \in Nat : n = Len(a.signs)
    BY <1>3
  <2>2. f \in [1..n -> Marks]
    BY <1>4, <2>1, Zenon
  <2> HIDE DEF f
  <2>3. f \in Seq(Marks) /\ Len(f) = n
    BY <2>2
  <2> USE DEF f
  <2>4. \A i \in 1..n : f[i] = Byte(a.signs[i], TRUE)
    BY <2>1, Zenon
  <2> QED BY <1>4, <2>1, <2>3, <2>4, Zenon
<1> HIDE DEF f, o, e
<1>6. /\ o \o f \in Seq(Marks) /\ Len(o \o f) \in Nat
      /\ \A i \in 1..Len(o \o f) : (o \o f)[i].in /\ (o \o f)[i].b # "#"
  <2>1. /\ o \o f \in Seq(Marks) /\ Len(o \o f) \in Nat
        /\ \A i \in 1..Len(o) : (o \o f)[i] = o[i]
        /\ \A i \in 1..Len(o \o f) :
             i \notin 1..Len(o) => /\ i - Len(o) \in 1..Len(f)
                                   /\ (o \o f)[i] = f[i - Len(o)]
    <3>1. o \in Seq(Marks) /\ f \in Seq(Marks)
      BY <1>1, <1>5, Zenon
    <3> QED BY <3>1, CatMarks, Zenon
  <2>2. ASSUME NEW i \in 1..Len(o \o f)
        PROVE  (o \o f)[i].in /\ (o \o f)[i].b # "#"
    <3>1. CASE i \in 1..Len(o)
      <4>1. i = 1
        BY <1>1, <3>1
      <4> QED BY <1>1, <2>1, <3>1, <4>1, Zenon
    <3>2. CASE i \notin 1..Len(o)
      BY <1>5, <2>1, <2>2, <3>2, Zenon
    <3> QED BY <3>1, <3>2
  <2> QED BY <2>1, <2>2, Zenon
<1> DEFINE g == o \o f
<1> HIDE DEF g
<1>7. /\ g \in Seq(Marks) /\ Len(g) \in Nat
      /\ \A i \in 1..Len(g) : g[i].in /\ g[i].b # "#"
  BY <1>6 DEF g
<1>8. /\ g \o e \in Seq(Marks)
      /\ Len(g \o e) = Len(g) + 1
      /\ \A i \in 1..Len(g) : (g \o e)[i] = g[i]
      /\ (g \o e)[Len(g) + 1] = e[1]
  <2>1. /\ Len(g) + 1 \in 1..(Len(g) + 1) /\ Len(g) + 1 \notin 1..Len(g)
        /\ (Len(g) + 1) - Len(g) = 1
    BY <1>7
  <2>2. /\ g \o e \in Seq(Marks)
        /\ Len(g \o e) = Len(g) + Len(e)
        /\ \A i \in 1..Len(g) : (g \o e)[i] = g[i]
        /\ \A i \in 1..Len(g \o e) :
             i \notin 1..Len(g) => (g \o e)[i] = e[i - Len(g)]
    <3>1. g \in Seq(Marks) /\ e \in Seq(Marks)
      BY <1>2, <1>7
    <3> QED BY <3>1, CatMarks
  <2>3. Len(g \o e) = Len(g) + 1
    BY <1>2, <2>2
  <2>4. PICK j \in 1..Len(g \o e) : j = Len(g) + 1 /\ j \notin 1..Len(g) /\ j - Len(g) = 1
    BY <2>1, <2>3
  <2>5. (g \o e)[j] = e[j - Len(g)]
    BY <2>2, <2>4, Zenon
  <2> QED BY <2>2, <2>3, <2>4, <2>5
<1>9. Packet(a, good) = g \o e
  BY DEF Packet, g, o, f, e
<1> QED BY <1>2, <1>7, <1>8, <1>9

\* t is s with a packet of the answer a behind it.
Followed(s, t, a, good) ==
  /\ t \in Seq(Marks)
  /\ Quiet(s) => Quiet(t)
  /\ Mute(s, 1) => Fits(t, 1, a.re)
  /\ ~Mute(t, 1)
  /\ Clean(s) /\ good => Clean(t)
  /\ \A i \in 1..Len(t) :
       \/ i \in 1..Len(s) /\ t[i] = s[i]
       \/ t[i].b = "#" => t[i] = End(a, good)
  /\ \A k : OneAck(s, k) => /\ OneAck(t, k) /\ t[k] = s[k] /\ k \in 1..Len(t)
                            /\ Mute(s, k) => Fits(t, k, a.re)

\* A packet arrives behind s.
LEMMA CatPacket ==
  ASSUME NEW s \in Seq(Marks), NEW a \in Answer, NEW good \in BOOLEAN
  PROVE  Followed(s, s \o Packet(a, good), a, good)
<1> DEFINE p == Packet(a, good)
           t == s \o p
<1>1. /\ p \in Seq(Marks) /\ Len(p) \in Nat \ {0}
      /\ \A i \in 1..Len(p) : p[i].in /\ (p[i].b = "#" => i = Len(p))
      /\ p[Len(p)] = End(a, good)
  BY PacketMarks
<1>2. End(a, good).b = "#" /\ End(a, good).re = a.re /\ End(a, good).good = good
  BY DEF End
<1> HIDE DEF p
<1>3. /\ t \in Seq(Marks) /\ Len(s) \in Nat /\ Len(t) = Len(s) + Len(p)
      /\ \A i \in 1..Len(s) : i \in 1..Len(t) /\ t[i] = s[i]
      /\ \A i \in 1..Len(t) :
           i \notin 1..Len(s) => i - Len(s) \in 1..Len(p) /\ t[i] = p[i - Len(s)]
  BY <1>1, CatMarks
<1> HIDE DEF t
<1>4. \A i \in 1..Len(t) :
        i \notin 1..Len(s) =>
          /\ t[i].in
          /\ t[i].b = "#" => i = Len(t) /\ t[i] = End(a, good)
  <2> SUFFICES ASSUME NEW i \in 1..Len(t), i \notin 1..Len(s)
               PROVE  /\ t[i].in
                      /\ t[i].b = "#" => i = Len(t) /\ t[i] = End(a, good)
    OBVIOUS
  <2>1. PICK j \in 1..Len(p) : j = i - Len(s) /\ t[i] = p[j]
    BY <1>3
  <2>2. j = Len(p) => i = Len(t)
    BY <1>1, <1>3, <2>1
  <2> QED BY <1>1, <2>1, <2>2, Zenon
<1>5. t[Len(t)] = End(a, good) /\ Len(t) \in 1..Len(t) /\ Len(t) \notin 1..Len(s)
  BY <1>1, <1>3
<1>6. Quiet(s) => Quiet(t)
  BY <1>3, <1>4 DEF Quiet, IsAck
<1>7. Mute(s, 1) => Fits(t, 1, a.re)
  BY <1>2, <1>3, <1>4, ZenonT(30) DEF Mute, Fits
<1>8. ~Mute(t, 1)
  BY <1>2, <1>5 DEF Mute
<1>9. Clean(s) /\ good => Clean(t)
  BY <1>2, <1>3, <1>4, Zenon DEF Clean
<1>10. \A i \in 1..Len(t) :
         \/ i \in 1..Len(s) /\ t[i] = s[i]
         \/ t[i].b = "#" => t[i] = End(a, good)
  BY <1>3, <1>4
<1>11. ASSUME NEW k, OneAck(s, k)
       PROVE  /\ OneAck(t, k) /\ t[k] = s[k] /\ k \in 1..Len(t)
              /\ Mute(s, k) => Fits(t, k, a.re)
  <2>1. k \in 1..Len(s) /\ t[k] = s[k] /\ k \in 1..Len(t)
    BY <1>3, <1>11 DEF OneAck
  <2>2. OneAck(t, k)
    BY <1>3, <1>4, <1>11, <2>1, Zenon DEF OneAck, IsAck
  <2>3. ASSUME Mute(s, k) PROVE Fits(t, k, a.re)
    <3>1. ASSUME NEW i \in k..Len(t), t[i].b = "#"
          PROVE  i = Len(t) /\ t[i].re = a.re
      <4>1. i \notin 1..Len(s)
        BY <1>3, <2>1, <2>3, <3>1 DEF Mute
      <4> QED BY <1>2, <1>3, <1>4, <2>1, <3>1, <4>1
    <3> QED BY <3>1 DEF Fits
  <2> QED BY <2>1, <2>2, <2>3
<1>12. Followed(s, t, a, good)
  BY <1>3, <1>6, <1>7, <1>8, <1>9, <1>10, <1>11, Zenon DEF Followed
<1> QED BY <1>12 DEF t, p

\* An acknowledgement arrives behind s.
LEMMA CatAck ==
  ASSUME NEW s \in Seq(Marks), NEW b \in {"+", "-"}
  PROVE  LET t == s \o <<Byte(b, FALSE)>> IN
         /\ t \in Seq(Marks)
         /\ \A i \in 1..Len(t) : (i \in 1..Len(s) /\ t[i] = s[i]) \/ t[i].b # "#"
         /\ Quiet(s) => /\ OneAck(t, Len(t)) /\ t[Len(t)].b = b
                        /\ Len(t) \in 1..Len(t)
                        /\ Mute(t, Len(t)) /\ \A n : Fits(t, Len(t), n)
         /\ Mute(s, 1) => Mute(t, 1)
         /\ Mute(t, 1) => Mute(s, 1)
         /\ \A n : Fits(s, 1, n) => Fits(t, 1, n)
         /\ Clean(s) /\ b = "+" => Clean(t)
<1> DEFINE m == Byte(b, FALSE)
           e == <<m>>
           t == s \o e
<1>1. m.b = b /\ ~m.in /\ m \in Marks
  BY DEF Byte, Marks, Signals
<1> HIDE DEF m
<1>2. e \in Seq(Marks) /\ Len(e) = 1 /\ e[1] = m
  BY <1>1
<1> HIDE DEF e
<1>3. /\ t \in Seq(Marks) /\ Len(s) \in Nat /\ Len(t) = Len(s) + Len(e)
      /\ \A i \in 1..Len(s) : i \in 1..Len(t) /\ t[i] = s[i]
      /\ \A i \in 1..Len(t) :
           i \notin 1..Len(s) => i - Len(s) \in 1..Len(e) /\ t[i] = e[i - Len(s)]
  <2>1. e \in Seq(Marks)
    BY <1>2
  <2> QED BY <2>1, CatMarks
<1> HIDE DEF t
<1>4. Len(t) = Len(s) + 1 /\ Len(t) \in 1..Len(t) /\ Len(t) \notin 1..Len(s)
  BY <1>2, <1>3
<1>5. \A i \in 1..Len(t) : i \notin 1..Len(s) => i = Len(t) /\ t[i] = m
  <2> SUFFICES ASSUME NEW i \in 1..Len(t), i \notin 1..Len(s)
               PROVE  i = Len(t) /\ t[i] = m
    OBVIOUS
  <2>1. i = Len(t) /\ i - Len(s) = 1
    BY <1>3, <1>4
  <2> QED BY <1>2, <1>3, <2>1
<1>6. t[Len(t)] = m
  BY <1>4, <1>5
<1>7. \A i \in 1..Len(t) :
        (i \in 1..Len(s) /\ t[i] = s[i]) \/ (i = Len(t) /\ t[i] = m)
  BY <1>3, <1>5
<1>8. \A i \in Len(t)..Len(t) : i = Len(t)
  BY <1>4, <1>3
<1>9. m.b # "#"
  BY <1>1
<1>10. ASSUME Quiet(s) PROVE OneAck(t, Len(t))
  BY <1>1, <1>4, <1>6, <1>7, <1>10 DEF Quiet, OneAck, IsAck
<1>11. Mute(t, Len(t)) /\ \A n : Fits(t, Len(t), n)
  BY <1>6, <1>8, <1>9 DEF Mute, Fits
<1>12. (Mute(s, 1) => Mute(t, 1)) /\ (Mute(t, 1) => Mute(s, 1))
  BY <1>3, <1>7, <1>9, Zenon DEF Mute
<1>13. \A n : Fits(s, 1, n) => Fits(t, 1, n)
  BY <1>3, <1>7, <1>9, Zenon DEF Fits
<1>14. Clean(s) /\ b = "+" => Clean(t)
  BY <1>1, <1>7, <1>9 DEF Clean
<1> QED
  BY <1>1, <1>3, <1>4, <1>6, <1>7, <1>9, <1>10, <1>11, <1>12, <1>13, <1>14, Zenon DEF t, e, m

\* The connection breaks after k marks of s.
LEMMA CutMarks ==
  ASSUME NEW s \in Seq(Marks), NEW c \in 0..Len(s)
  PROVE  LET t == SubSeq(s, 1, c) IN
         /\ t \in Seq(Marks) /\ Len(t) = c
         /\ \A i \in 1..c : i \in 1..Len(s) /\ t[i] = s[i]
         /\ Quiet(s) => Quiet(t)
         /\ Mute(s, 1) => Mute(t, 1)
         /\ \A n : Fits(s, 1, n) => Fits(t, 1, n)
         /\ \A k, n :
              OneAck(s, k) =>
                \/ Quiet(t)
                \/ /\ k \in 1..Len(t) /\ OneAck(t, k) /\ t[k] = s[k]
                   /\ Mute(s, k) => Mute(t, k)
                   /\ Fits(s, k, n) => Fits(t, k, n)
<1> DEFINE t == SubSeq(s, 1, c)
<1>1. /\ t \in Seq(Marks) /\ Len(t) = c /\ Len(s) \in Nat /\ c \in Nat
      /\ \A i \in 1..c : i \in 1..Len(s) /\ t[i] = s[i]
  OBVIOUS
<1> HIDE DEF t
<1>2. Quiet(s) => Quiet(t)
  BY <1>1 DEF Quiet
<1>3. Mute(s, 1) => Mute(t, 1)
  BY <1>1 DEF Mute
<1>4. \A n : Fits(s, 1, n) => Fits(t, 1, n)
  BY <1>1, SMTT(30) DEF Fits
<1>5. ASSUME NEW k, NEW n, OneAck(s, k)
      PROVE  \/ Quiet(t)
             \/ /\ k \in 1..Len(t) /\ OneAck(t, k) /\ t[k] = s[k]
                /\ Mute(s, k) => Mute(t, k)
                /\ Fits(s, k, n) => Fits(t, k, n)
  <2>1. k \in 1..Len(s)
    BY <1>5 DEF OneAck
  <2>2. CASE k > c
    BY <1>1, <1>5, <2>1, <2>2 DEF OneAck, Quiet
  <2>3. CASE k <= c
    <3>1. k \in 1..Len(t) /\ t[k] = s[k]
      BY <1>1, <2>1, <2>3
    <3>2. OneAck(t, k)
      BY <1>1, <1>5, <3>1 DEF OneAck
    <3>3. \A i \in k..Len(t) : i \in k..Len(s) /\ t[i] = s[i]
      BY <1>1, <3>1
    <3> QED BY <3>1, <3>2, <3>3, Zenon DEF Mute, Fits
  <2> QED BY <1>1, <2>1, <2>2, <2>3
<1> QED BY <1>1, <1>2, <1>3, <1>4, <1>5, Zenon DEF t

\* Nothing is on its way.
LEMMA NoMarks ==
  /\ <<>> \in Seq(Marks) /\ Quiet(<<>>) /\ Mute(<<>>, 1) /\ Clean(<<>>)
  /\ \A n : Fits(<<>>, 1, n)
  /\ \A c : All(<<>>, c)
  BY DEF Quiet, Mute, Clean, Fits, All

\* Where no packet ends, any answer would be the only one.
LEMMA MuteFits ==
  ASSUME NEW s, NEW k, NEW n, Mute(s, k)
  PROVE  Fits(s, k, n)
  BY DEF Mute, Fits

-----------------------------------------------------------------------------
(* Frames *)

\* A NAK is none of the commands.
LEMMA FrameKinds ==
  /\ "nak" \notin Commands /\ "none" \notin Commands
  /\ \A f \in Frames \cup {Nak, None} :
       /\ f.n \in Nat
       /\ f = [n |-> f.n, cmd |-> f.cmd]
       /\ f.cmd = "nak" => f = Nak
       /\ f.cmd = "none" => f = None
       /\ f # Nak /\ f # None => f \in Frames /\ f.cmd \in Commands
  /\ Nak.cmd = "nak" /\ Nak.n = 0 /\ None.cmd = "none" /\ None.n = 0
  BY RspAssumption DEF Commands, Frames, Nak, None

\* Only the empty sequence has no elements.
LEMMA EmptyLen ==
  ASSUME NEW S
  PROVE  /\ Len(<<>>) = 0
         /\ \A seq \in Seq(S) : (seq # <<>>) <=> (Len(seq) \in Nat \ {0})
OBVIOUS

\* The stub reads one frame.
LEMMA TailFrames ==
  ASSUME NEW s \in Seq(Written), s # <<>>
  PROVE  /\ Head(s) = s[1] /\ Head(s) \in Written
         /\ Tail(s) \in Seq(Written)
         /\ Len(s) \in Nat \ {0} /\ Len(Tail(s)) = Len(s) - 1
         /\ \A i \in 1..(Len(s) - 1) : i + 1 \in 1..Len(s) /\ Tail(s)[i] = s[i + 1]
  OBVIOUS

\* The stub reads one of several frames of the same command.
LEMMA TailAll ==
  ASSUME NEW s \in Seq(Written), s # <<>>, NEW c, All(s, c)
  PROVE  Head(s).cmd = c /\ All(Tail(s), c)
  BY TailFrames DEF All

\* The stub reads an old frame, or the last, which is the current command.
LEMMA TailBehind ==
  ASSUME NEW s \in Seq(Written), NEW f, NEW c, Behind(s, f, c)
  PROVE  /\ s # <<>>
         /\ Head(s) # f => Head(s).cmd = c
         /\ Head(s).cmd # c => Head(s) = f /\ Tail(s) = <<>>
         /\ Tail(s) # <<>> => /\ Behind(Tail(s), f, c) /\ Head(s).cmd = c
                              /\ Len(s) > 1 /\ s[Len(s)] = f
<1>0. s # <<>>
  BY DEF Behind
<1>1. /\ Head(s) = s[1] /\ Tail(s) \in Seq(Written)
      /\ Len(s) \in Nat \ {0} /\ Len(Tail(s)) = Len(s) - 1
      /\ \A i \in 1..(Len(s) - 1) : i + 1 \in 1..Len(s) /\ Tail(s)[i] = s[i + 1]
  BY <1>0, TailFrames
<1>2. CASE Len(s) = 1
  <2>1. Len(Tail(s)) = 0
    BY <1>1, <1>2
  <2>2. Tail(s) = <<>>
    BY <1>1, <2>1, EmptyLen, Zenon
  <2>3. Head(s) = f
    BY <1>1, <1>2 DEF Behind
  <2> QED BY <1>0, <2>2, <2>3
<1>3. CASE Len(s) # 1
  <2>1. Head(s).cmd = c /\ s[Len(s)] = f /\ Len(s) > 1
    BY <1>1, <1>3 DEF Behind
  <2>2. Len(s) - 1 \in 1..(Len(s) - 1) /\ (Len(s) - 1) + 1 = Len(s)
    BY <1>1, <1>3
  <2>3. Tail(s)[Len(Tail(s))] = f
    <3>1. Tail(s)[Len(s) - 1] = s[(Len(s) - 1) + 1]
      BY <1>1, <2>2
    <3> QED BY <1>1, <2>1, <2>2, <3>1
  <2>4. Len(Tail(s)) # 0
    BY <1>1, <1>3
  <2>6. Tail(s) # <<>>
    BY <2>4, EmptyLen, Zenon
  <2>5. \A i \in 1..(Len(Tail(s)) - 1) : Tail(s)[i].cmd = c
    BY <1>1 DEF Behind
  <2> QED BY <1>0, <2>1, <2>3, <2>5, <2>6 DEF Behind
<1> QED BY <1>2, <1>3

\* A NAK may go out before a command, or alone.
Preludes == {<<>>, <<Nak>>}
Sends(s, before, f) == s \o Append(before, f)

\* A frame is written, after the NAK of a damaged packet if there is one.
LEMMA CatFrames ==
  ASSUME NEW s \in Seq(Written), NEW before \in Preludes, NEW f \in Frames
  PROVE  LET t == Sends(s, before, f) IN
         /\ t \in Seq(Written) /\ t # <<>>
         /\ Len(t) \in 1..Len(t) /\ t[Len(t)] = f
         /\ Len(s) \in Nat /\ Len(t) > Len(s)
         /\ \A i \in 1..Len(t) :
              \/ i \in 1..Len(s) /\ t[i] = s[i]
              \/ t[i] = Nak /\ before # <<>> /\ i # Len(t)
              \/ i = Len(t)
<1>1. Nak \in Written /\ f \in Written
  BY DEF Written
<1>2. /\ before \in Seq(Written) /\ Len(before) \in Nat
      /\ \A i \in 1..Len(before) : before[i] = Nak
      /\ Len(before) # 0 => before # <<>>
  <2>1. CASE before = <<>>
    BY <2>1
  <2>2. CASE before = <<Nak>>
    BY <1>1, <2>2
  <2> QED BY <2>1, <2>2 DEF Preludes
<1> DEFINE z == Append(before, f)
<1>3. /\ z \in Seq(Written) /\ Len(z) = Len(before) + 1
      /\ \A i \in 1..Len(before) : z[i] = before[i]
      /\ z[Len(before) + 1] = f
  BY <1>1, <1>2
<1> HIDE DEF z
<1>4. /\ s \o z \in Seq(Written) /\ Len(s) \in Nat
      /\ Len(s \o z) = Len(s) + Len(z)
      /\ \A i \in 1..Len(s) : (s \o z)[i] = s[i]
      /\ \A i \in 1..Len(z) : (s \o z)[Len(s) + i] = z[i]
  BY <1>3, SMTT(30)
<1>5. (s \o z)[Len(s \o z)] = f /\ Len(s \o z) > Len(s) /\ s \o z # <<>>
  <2>1. Len(z) \in 1..Len(z)
    BY <1>2, <1>3
  <2>2. (s \o z)[Len(s) + Len(z)] = z[Len(z)]
    BY <1>4, <2>1
  <2>3. Len(s \o z) > Len(s)
    BY <1>2, <1>3, <1>4
  <2> QED BY <1>3, <1>4, <2>2, <2>3, EmptyLen
<1>6. ASSUME NEW i \in 1..Len(s \o z), i \notin 1..Len(s), i # Len(s \o z)
      PROVE  (s \o z)[i] = Nak /\ before # <<>>
  <2>0. Len(s) \in Nat /\ Len(before) \in Nat /\ Len(s \o z) = Len(s) + (Len(before) + 1)
    BY <1>2, <1>3, <1>4
  <2>4. i \in 1..(Len(s) + (Len(before) + 1)) /\ i # Len(s) + (Len(before) + 1)
    BY <1>6, <2>0
  <2>5. i - Len(s) \in 1..Len(before)
    BY <1>6, <2>0, <2>4
  <2>1. PICK j \in 1..Len(before) : j = i - Len(s)
    BY <2>5, Zenon
  <2>2. j \in 1..Len(z) /\ Len(s) + j = i
    BY <1>2, <1>3, <1>4, <2>1
  <2>3. (s \o z)[i] = z[j]
    BY <1>4, <2>2
  <2>6. 1..Len(before) # {}
    BY <2>5, Zenon
  <2>7. before # <<>>
    BY <2>6
  <2> QED BY <1>2, <1>3, <2>1, <2>3, <2>7, Zenon
<1>7. PICK t : t = s \o z
  BY Zenon
<1>8. t = Sends(s, before, f)
  BY <1>7 DEF Sends, z
<1>9. /\ t \in Seq(Written) /\ t # <<>>
      /\ Len(t) \in 1..Len(t) /\ t[Len(t)] = f
      /\ Len(s) \in Nat /\ Len(t) > Len(s)
  BY <1>2, <1>3, <1>4, <1>5, <1>7
<1>10. \A i \in 1..Len(t) :
         \/ i \in 1..Len(s) /\ t[i] = s[i]
         \/ t[i] = Nak /\ before # <<>> /\ i # Len(t)
         \/ i = Len(t)
  BY <1>4, <1>6, <1>7
<1> QED BY <1>8, <1>9, <1>10

\* Nothing is written but the NAK of a damaged packet, if there is one.
LEMMA CatNak ==
  ASSUME NEW s \in Seq(Written), NEW before \in Preludes
  PROVE  LET t == s \o before IN
         /\ t \in Seq(Written)
         /\ before = <<>> => t = s
         /\ Len(s) \in Nat /\ Len(t) \in Nat
         /\ \A i \in 1..Len(t) :
              \/ i \in 1..Len(s) /\ t[i] = s[i]
              \/ t[i] = Nak /\ before # <<>>
<1>0. Nak \in Written
  BY DEF Written
<1>1. CASE before = <<>>
  BY <1>1
<1>2. CASE before = <<Nak>>
  BY <1>0, <1>2
<1> QED BY <1>1, <1>2 DEF Preludes

-----------------------------------------------------------------------------
(* The stub *)

\* A frame is acknowledged or refused.
LEMMA StubReadsStep ==
  ASSUME IInv, StubReads
  PROVE  IInv'
<1>1. TypeOK /\ Shape /\ TrustInv /\ CalmInv
  BY DEF IInv
<1>2. PICK f \in Written : f = Head(toD)
  BY <1>1, TailFrames DEF StubReads, Shape
<1>3. PICK b \in {"+", "-"} :
        /\ Emit(<<Byte(b, FALSE)>>)
        /\ b = "+" => pending' = f /\ mishaps' = mishaps
        /\ b = "-" => pending' = None /\ mishaps < MaxMishaps /\ mishaps' = mishaps + 1
  BY <1>2 DEF StubReads
<1>4. /\ toD # <<>> /\ f # Nak /\ pending = None /\ toD' = Tail(toD)
      /\ UNCHANGED <<conn, last, attached, done, twice, faults>>
      /\ UNCHANGED <<stage, op, cmd, tries, sent, noAck, pid, stray>>
      /\ Current' = Current /\ toD \in Seq(Written) /\ toC \in Seq(Marks)
      /\ sent \in Nat /\ done \in 0..sent /\ conn \in {"up", "down"}
  BY <1>1, <1>2 DEF StubReads, clientVars, Current, Shape, TypeOK
<1>5. f \in Frames /\ f.cmd \in Commands /\ f.n \in 0..sent /\ f.n > 0 /\ f # None
      /\ f.cmd # "nak" /\ f.cmd # "none"
  <2>1. f = toD[1] /\ 1 \in 1..Len(toD)
    BY <1>2, <1>4, TailFrames
  <2>2. f.n \in 0..sent /\ f.n > 0
    BY <1>1, <1>4, <2>1 DEF TypeOK, Shape
  <2>3. f \in Frames /\ f.cmd \in Commands
    BY <1>2, <1>4 DEF Written, Frames
  <2> QED BY <2>2, <2>3, FrameKinds
<1>6. /\ toD' \in Seq(Written) /\ Len(toD') = Len(toD) - 1 /\ Len(toD) \in Nat \ {0}
      /\ toD[1] = f /\ 1 \in 1..Len(toD)
      /\ \A i \in 1..Len(toD') : i + 1 \in 1..Len(toD) /\ toD'[i] = toD[i + 1]
  BY <1>2, <1>4, TailFrames
<1>7. PICK t : t = toC \o <<Byte(b, FALSE)>>
  BY Zenon
<1>8. /\ t \in Seq(Marks)
      /\ \A i \in 1..Len(t) : (i \in 1..Len(toC) /\ t[i] = toC[i]) \/ t[i].b # "#"
      /\ Quiet(toC) => /\ OneAck(t, Len(t)) /\ t[Len(t)].b = b /\ Len(t) \in 1..Len(t)
                       /\ Mute(t, Len(t)) /\ \A n : Fits(t, Len(t), n)
      /\ Mute(toC, 1) => Mute(t, 1)
      /\ Mute(t, 1) => Mute(toC, 1)
      /\ \A n : Fits(toC, 1, n) => Fits(t, 1, n)
      /\ Clean(toC) /\ b = "+" => Clean(t)
  BY <1>3, <1>4, <1>7, CatAck, Zenon
<1>9. toC' = IF conn = "up" THEN t ELSE toC
  BY <1>3, <1>7 DEF Emit
<1>10. TypeOK' /\ Shape'
  <2>1. /\ toC' \in Seq(Marks)
        /\ \A i \in 1..Len(toC') : (i \in 1..Len(toC) /\ toC'[i] = toC[i]) \/ toC'[i].b # "#"
    BY <1>4, <1>8, <1>9
  <2>2. /\ pending' \in Frames \cup {None} /\ pending'.n \in 0..sent
        /\ pending' # None => pending'.n > 0
    BY <1>3, <1>4, <1>5, FrameKinds
  <2>3. \A i \in 1..Len(toD') :
          /\ toD'[i].n \in 0..sent /\ (toD'[i] # Nak => toD'[i].n > 0)
          /\ last.re = 0 => toD'[i] # Nak
    BY <1>1, <1>6, Zenon DEF TypeOK, Shape
  <2>4. mishaps' \in 0..MaxMishaps
    BY <1>1, <1>3, RspAssumption DEF TypeOK
  <2>5. /\ \A i \in 1..Len(toC') : toC'[i].b = "#" => toC'[i].re \in 1..sent
        /\ last.re = 0 => \A i \in 1..Len(toC') : toC'[i].b = "#" => toC'[i].good
    <3>1. \A i \in 1..Len(toC) : toC[i].b = "#" => toC[i].re \in 1..sent
      BY <1>1 DEF TypeOK
    <3>2. last.re = 0 => \A i \in 1..Len(toC) : toC[i].b = "#" => toC[i].good
      BY <1>1 DEF Shape
    <3> QED BY <2>1, <3>1, <3>2, Zenon
  <2>6. TypeOK'
    BY <1>1, <1>4, <2>2, <2>3, <2>4, <2>5, Zenon DEF TypeOK
  <2>7. Shape'
    BY <1>1, <1>4, <1>6, <2>1, <2>2, <2>3, <2>5 DEF Shape
  <2> QED BY <2>6, <2>7
<1>11. ASSUME Trust' PROVE AckInv' /\ HearInv' /\ RestInv' /\ DownInv' /\ FreshInv'
                           /\ ~stray' /\ ~twice'
  <2>1. AckInv /\ HearInv /\ RestInv /\ DownInv /\ FreshInv /\ ~stray /\ ~twice
    BY <1>1, <1>4, <1>11 DEF Trust, TrustInv
  <2>2. stage # "closed" => conn = "up" /\ toC' = t
    BY <1>4, <1>9, <2>1 DEF DownInv
  <2>3. FreshInv'
    <3>1. f.n > done /\ pending'.n \in {0, f.n} /\ (pending' # None => pending' = f)
      BY <1>3, <1>4, <1>5, <1>6, <2>1, FrameKinds, SMTT(30) DEF FreshInv
    <3>2. \A i \in 1..Len(toD') :
            toD'[i] # Nak => toD'[i].n > done /\ toD'[i].n > f.n /\ toD'[i].n \in Nat
      BY <1>1, <1>4, <1>5, <1>6, <2>1, SMTT(30) DEF FreshInv, TypeOK
    <3>3. \A i, j \in 1..Len(toD') :
            i < j /\ toD'[i] # Nak /\ toD'[j] # Nak => toD'[i].n < toD'[j].n
      BY <1>4, <1>6, <2>1 DEF FreshInv
    <3>4. \A i \in 1..Len(toD') : toD'[i] # Nak => toD'[i].n > done' /\ toD'[i].n > pending'.n
      BY <1>4, <3>1, <3>2
    <3> QED BY <1>4, <3>1, <3>3, <3>4, SMTT(30) DEF FreshInv
  <2>4. DownInv'
    BY <1>4, <2>2 DEF DownInv
  <2>5. AckInv'
    <3>1. CASE stage # "ack"
      BY <1>4, <3>1 DEF AckInv
    <3>2. CASE stage = "ack"
      <4>1. /\ ~noAck /\ Quiet(toC) /\ Behind(toD, Current, "nak") /\ done < sent
        BY <1>4, <2>1, <2>2, <3>2 DEF AckInv
      <4>2. f = Current /\ toD' = <<>>
        BY <1>2, <1>4, <1>5, <4>1, TailBehind
      <4>3. /\ OneAck(t, Len(t)) /\ t[Len(t)].b = b /\ Len(t) \in 1..Len(t)
            /\ Mute(t, Len(t)) /\ Fits(t, Len(t), sent)
        BY <1>8, <4>1
      <4>4. b = "-" => pending' = None /\ done' < sent'
        BY <1>3, <1>4, <4>1
      <4>5. b = "+" => pending'.n = sent'
        BY <1>3, <1>4, <4>2 DEF Current
      <4>6. \E k \in 1..Len(toC') :
              /\ OneAck(toC', k) /\ toD' = <<>>
              /\ toC'[k].b = "-" => pending' = None /\ done' < sent'
              /\ toC'[k].b = "+" => /\ Fits(toC', k, sent')
                                    /\ ~Mute(toC', k) => pending' = None
                                    /\ pending' # None => pending'.n = sent'
        BY <1>4, <2>2, <3>2, <4>2, <4>3, <4>4, <4>5
      <4> QED BY <1>4, <4>1, <4>6, Zenon DEF AckInv
    <3> QED BY <3>1, <3>2
  <2>6. HearInv'
    <3>1. CASE stage \notin {"start", "body"}
      BY <1>4, <3>1 DEF HearInv
    <3>2. CASE stage \in {"start", "body"}
      <4>1. /\ noAck /\ cmd # "k" /\ Fits(toC, 1, sent) /\ Mute(toC, 1)
            /\ Behind(toD, Current, "k")
        BY <1>1, <1>4, <2>1, <3>2, Zenon DEF HearInv, Shape
      <4>2. toC' = t /\ Mute(toC', 1) /\ Fits(toC', 1, sent')
        BY <1>4, <1>8, <2>2, <3>2, <4>1
      <4>3. toD' # <<>> => Behind(toD', Current', "k")
        BY <1>4, <4>1, TailBehind
      <4>4. f.cmd # "k" => f = Current /\ toD' = <<>>
        BY <1>2, <1>4, <4>1, TailBehind
      <4>5. pending' # None /\ pending'.cmd # "k" => pending'.n = sent' /\ toD' = <<>>
        BY <1>3, <1>4, <4>4 DEF Current
      <4> QED BY <1>4, <4>1, <4>2, <4>3, <4>5, Zenon DEF HearInv
    <3> QED BY <3>1, <3>2
  <2>7. RestInv'
    <3>1. CASE stage \notin {"fresh", "idle"}
      BY <1>4, <3>1 DEF RestInv
    <3>2. CASE stage \in {"fresh", "idle"}
      <4>1. noAck /\ Mute(toC, 1) /\ All(toD, "k")
        <5>1. ~All(toD, "nak")
          BY <1>5, <1>6 DEF All
        <5> QED BY <1>1, <2>1, <3>2, <5>1 DEF RestInv, Settled, Shape
      <4>2. f.cmd = "k" /\ All(toD', "k")
        BY <1>2, <1>4, <4>1, TailAll
      <4>3. Mute(toC', 1)
        BY <1>8, <2>2, <3>2, <4>1
      <4> QED BY <1>3, <1>4, <4>1, <4>2, <4>3 DEF RestInv, Settled
    <3> QED BY <3>1, <3>2
  <2> QED BY <1>4, <2>1, <2>3, <2>4, <2>5, <2>6, <2>7
<1>12. ASSUME Calm' PROVE Clean(toC') /\ CalmRest' /\ CalmWait' /\ CalmClosed' /\ CalmDown'
  <2>1. Calm /\ b = "+" /\ pending' = f /\ Trust
    BY <1>1, <1>3, <1>4, <1>12 DEF Calm, Trust, TypeOK
  <2>2. Clean(toC) /\ CalmRest /\ CalmWait /\ CalmClosed /\ CalmDown /\ FreshInv
    BY <1>1, <2>1 DEF CalmInv, TrustInv
  <2>3. Clean(toC')
    BY <1>8, <1>9, <2>1, <2>2
  <2>4. stage # "closed" => conn = "up" /\ toC' = t
    BY <1>4, <1>9, <2>2 DEF CalmDown
  <2>5. CalmRest'
    <3>1. ASSUME stage \in {"fresh", "idle"} PROVE f.cmd = "k" /\ All(toD', "k") /\ Mute(toC', 1)
      BY <1>2, <1>4, <1>8, <2>2, <2>4, <3>1, TailAll DEF CalmRest
    <3> QED BY <1>4, <2>1, <2>2, <3>1, Zenon DEF CalmRest
  <2>6. CalmClosed'
    <3>1. ASSUME stage = "closed" PROVE f.cmd = "k" /\ All(toD', "k")
      BY <1>2, <1>4, <2>2, <3>1, TailAll DEF CalmClosed
    <3> QED BY <1>4, <2>1, <2>2, <3>1 DEF CalmClosed
  <2>7. CalmWait'
    <3>1. CASE stage \notin Waiting
      BY <1>4, <3>1 DEF CalmWait
    <3>2. CASE stage \in Waiting
      <4>1. /\ Fits(toC, 1, sent) /\ Mute(toC, 1) /\ Behind(toD, Current, "k")
            /\ attached => pid
            /\ op \in {"close", "detach"} => cmd = "D"
        BY <1>4, <2>2, <3>2, ZenonT(30) DEF CalmWait
      <4>2. toC' = t /\ Mute(toC', 1) /\ Fits(toC', 1, sent')
        BY <1>4, <1>8, <2>4, <3>2, <4>1 DEF Waiting
      <4>3. toD' # <<>> => Behind(toD', Current', "k")
        BY <1>4, <4>1, TailBehind
      <4>4. f.cmd = "k" \/ f = Current
        BY <1>2, <1>4, <4>1, TailBehind
      <4>5. ASSUME toD' # <<>> PROVE f # Current
        <5>1. Len(toD) > 1 /\ toD[Len(toD)] = Current
          BY <1>4, <4>1, <4>5, TailBehind, Zenon
        <5>2. Current # Nak
          BY <1>1, <3>2, FrameKinds DEF Current, Shape
        <5>3. f.n < Current.n
          BY <1>4, <1>6, <2>2, <5>1, <5>2 DEF FreshInv
        <5> QED BY <1>5, <5>3
      <4> QED BY <1>4, <2>1, <4>1, <4>2, <4>3, <4>4, <4>5, Zenon DEF CalmWait
    <3> QED BY <3>1, <3>2
  <2>8. CalmDown'
    BY <1>4, <2>4 DEF CalmDown
  <2> QED BY <2>3, <2>5, <2>6, <2>7, <2>8
<1> QED BY <1>10, <1>11, <1>12 DEF IInv, TrustInv, CalmInv

\* A packet is sent again, ahead of the acknowledgement of the next command.
LEMMA StubNakedStep ==
  ASSUME IInv, NEW again \in BOOLEAN, StubNaked(again)
  PROVE  IInv'
<1>1. TypeOK /\ Shape /\ TrustInv /\ CalmInv
  BY Zenon DEF IInv
<1>2. /\ toD # <<>> /\ Head(toD) = Nak /\ pending = None /\ toD' = Tail(toD)
      /\ UNCHANGED <<conn, stubVars, mishaps, faults>>
      /\ UNCHANGED <<stage, op, cmd, tries, sent, noAck, pid, stray>>
      /\ Current' = Current /\ toD \in Seq(Written) /\ toC \in Seq(Marks)
      /\ sent \in Nat /\ conn \in {"up", "down"} /\ last \in Answer
  BY <1>1 DEF StubNaked, clientVars, Current, Shape, TypeOK
<1>3. /\ toD' \in Seq(Written) /\ Len(toD') = Len(toD) - 1 /\ Len(toD) \in Nat \ {0}
      /\ toD[1] = Nak /\ 1 \in 1..Len(toD)
      /\ \A i \in 1..Len(toD') : i + 1 \in 1..Len(toD) /\ toD'[i] = toD[i + 1]
  BY <1>2, TailFrames
<1>4. last.re > 0 /\ last.re \in 1..sent
  BY <1>1, <1>2, <1>3 DEF Shape, Answer
<1>5. /\ toC' \in Seq(Marks)
      /\ \A i \in 1..Len(toC') :
           \/ i \in 1..Len(toC) /\ toC'[i] = toC[i]
           \/ toC'[i].b = "#" => toC'[i] = End(last, TRUE)
      /\ Quiet(toC) => Quiet(toC')
  <2>1. CASE toC' = toC
    BY <1>2, <2>1, Zenon
  <2>2. CASE toC' = toC \o Packet(last, TRUE)
    <3>1. PICK t : t = toC \o Packet(last, TRUE)
      BY Zenon
    <3>2. /\ t \in Seq(Marks)
          /\ \A i \in 1..Len(t) :
               \/ i \in 1..Len(toC) /\ t[i] = toC[i]
               \/ t[i].b = "#" => t[i] = End(last, TRUE)
          /\ Quiet(toC) => Quiet(t)
      BY <1>2, <3>1, CatPacket, Zenon DEF Followed
    <3> QED BY <2>2, <3>1, <3>2, Zenon
  <2>3. toC \o <<>> = toC
    BY <1>2
  <2> QED BY <2>1, <2>2, <2>3, Zenon DEF StubNaked, Emit
<1>6. TypeOK' /\ Shape'
  <2>1. End(last, TRUE).re = last.re /\ End(last, TRUE).good
    BY DEF End
  <2>2. \A i \in 1..Len(toD') :
          /\ toD'[i].n \in 0..sent /\ (toD'[i] # Nak => toD'[i].n > 0)
          /\ last.re = 0 => toD'[i] # Nak
    BY <1>1, <1>3, Zenon DEF TypeOK, Shape
  <2>3. /\ \A i \in 1..Len(toC') : toC'[i].b = "#" => toC'[i].re \in 1..sent
        /\ last.re = 0 => \A i \in 1..Len(toC') : toC'[i].b = "#" => toC'[i].good
    BY <1>1, <1>4, <1>5, <2>1, Zenon DEF TypeOK, Shape
  <2>4. TypeOK'
    BY <1>1, <1>2, <2>2, <2>3 DEF TypeOK, stubVars
  <2>5. Shape'
    BY <1>1, <1>2, <1>3, <1>5, <2>2, <2>3 DEF Shape, stubVars
  <2> QED BY <2>4, <2>5
<1>7. ASSUME Trust' PROVE AckInv' /\ HearInv' /\ RestInv' /\ DownInv' /\ FreshInv'
                          /\ ~stray' /\ ~twice'
  <2>1. AckInv /\ HearInv /\ RestInv /\ DownInv /\ FreshInv /\ ~stray /\ ~twice
    BY <1>1, <1>2, <1>7 DEF Trust, TrustInv
  <2>2. stage # "closed" => conn = "up"
    BY <1>2, <2>1 DEF DownInv
  <2>3. DownInv'
    BY <1>2, <2>2, Zenon DEF DownInv
  <2>4. FreshInv'
    BY <1>2, <1>3, <2>1 DEF FreshInv, stubVars
  <2>5. ~Behind(toD, Current, "k") \/ cmd = "none"
    <3>1. Nak.cmd # "k" /\ Nak.cmd = "nak"
      BY FrameKinds
    <3>2. Nak = Current => cmd = "nak"
      BY <3>1 DEF Current
    <3>3. cmd # "nak"
      BY <1>1, FrameKinds, Zenon DEF Shape
    <3> QED BY <1>2, <3>1, <3>2, <3>3, TailBehind
  <2>6. stage \notin {"start", "body"}
    BY <1>1, <1>2, <2>1, <2>5 DEF HearInv, Shape, Waiting
  <2>7. AckInv'
    <3>1. CASE stage # "ack"
      BY <1>2, <3>1, Zenon DEF AckInv
    <3>2. CASE stage = "ack"
      <4>1. /\ ~noAck /\ Quiet(toC) /\ Behind(toD, Current, "nak")
            /\ pending.n < sent /\ done < sent
        BY <1>2, <2>1, <2>2, <3>2 DEF AckInv
      <4>2. Current # Nak
        BY <1>1, <3>2, FrameKinds DEF Current, Shape
      <4>3. Behind(toD', Current', "nak")
        <5>1. Tail(toD) # <<>>
          <6>1. Len(toD) # 1
            BY <1>3, <4>1, <4>2 DEF Behind
          <6>2. Len(Tail(toD)) # 0
            BY <1>2, <1>3, <6>1
          <6> QED BY <6>2, EmptyLen, Zenon
        <5> QED BY <1>2, <4>1, <5>1, TailBehind
      <4> QED BY <1>2, <1>5, <4>1, <4>3, Zenon DEF AckInv, stubVars
    <3> QED BY <3>1, <3>2, Zenon
  <2>8. RestInv'
    <3>1. CASE stage \notin {"fresh", "idle"}
      BY <1>2, <3>1, Zenon DEF RestInv
    <3>2. CASE stage \in {"fresh", "idle"}
      <4>1. ~All(toD, "k")
        BY <1>3, FrameKinds DEF All
      <4>2. ~noAck /\ Quiet(toC) /\ All(toD, "nak")
        BY <1>1, <2>1, <3>2, <4>1 DEF RestInv, Settled, Shape
      <4>3. All(toD', "nak")
        BY <1>2, <4>2, TailAll
      <4> QED BY <1>2, <1>5, <4>2, <4>3 DEF RestInv, Settled
    <3> QED BY <3>1, <3>2
  <2>9. HearInv'
    BY <1>2, <2>6 DEF HearInv
  <2> QED BY <1>2, <2>1, <2>3, <2>4, <2>7, <2>8, <2>9 DEF stubVars
<1>8. ~Calm'
  <2>1. SUFFICES ASSUME Calm PROVE FALSE
    BY <1>2 DEF Calm
  <2>2. CalmRest /\ CalmWait /\ CalmClosed
    BY <1>1, <2>1 DEF CalmInv
  <2>3. ~All(toD, "k")
    BY <1>3, FrameKinds DEF All
  <2>4. stage \in Waiting
    BY <1>1, <2>2, <2>3, Zenon DEF TypeOK, CalmRest, CalmClosed
  <2>5. Behind(toD, Current, "k") /\ cmd # "none"
    BY <1>1, <1>2, <2>2, <2>4 DEF CalmWait, Shape
  <2>6. Nak.cmd # "k" /\ (Nak = Current => cmd = "nak") /\ cmd # "nak"
    BY <1>1, FrameKinds DEF Current, Shape
  <2> QED BY <1>2, <2>5, <2>6, TailBehind
<1> QED BY <1>6, <1>7, <1>8 DEF IInv, TrustInv, CalmInv

\* The connection breaks.
LEMMA DropStep ==
  ASSUME IInv, Drop
  PROVE  IInv'
<1>1. TypeOK /\ Shape /\ TrustInv
  BY DEF IInv
<1>2. PICK c \in 0..Len(toC) : toC' = SubSeq(toC, 1, c)
  BY Zenon DEF Drop
<1>3. /\ conn' = "down" /\ toD' = <<>> /\ mishaps < MaxMishaps /\ mishaps' = mishaps + 1
      /\ faults' = faults \cup {"drop"} /\ UNCHANGED stubVars
      /\ UNCHANGED <<stage, op, cmd, tries, sent, noAck, pid, stray>>
      /\ toC \in Seq(Marks)
  BY <1>1 DEF Drop, clientVars, Shape
<1>4. PICK t : t = SubSeq(toC, 1, c)
  BY ZenonT(30)
<1>5. /\ t \in Seq(Marks) /\ Len(t) = c
      /\ \A i \in 1..c : i \in 1..Len(toC) /\ t[i] = toC[i]
      /\ Quiet(toC) => Quiet(t)
      /\ Mute(toC, 1) => Mute(t, 1)
      /\ \A n : Fits(toC, 1, n) => Fits(t, 1, n)
      /\ \A k, n :
           OneAck(toC, k) =>
             \/ Quiet(t)
             \/ /\ k \in 1..Len(t) /\ OneAck(t, k) /\ t[k] = toC[k]
                /\ Mute(toC, k) => Mute(t, k)
                /\ Fits(toC, k, n) => Fits(t, k, n)
  BY <1>3, <1>4, CutMarks
<1>6. toC' = t
  BY <1>2, <1>4
<1>7. TypeOK' /\ Shape'
  <2>1. /\ mishaps' \in 0..MaxMishaps
        /\ faults' \subseteq {"ack", "reply", "unacked", "sign", "refused", "drop"}
    BY <1>1, <1>3, RspAssumption DEF TypeOK
  <2>2. toD' \in Seq(Written) /\ \A i \in 1..Len(toD') : FALSE
    BY <1>3
  <2>3. /\ \A i \in 1..Len(toC') : toC'[i].b = "#" => toC'[i].re \in 1..sent
        /\ last.re = 0 => \A i \in 1..Len(toC') : toC'[i].b = "#" => toC'[i].good
    BY <1>1, <1>5, <1>6, Zenon DEF TypeOK, Shape
  <2>4. TypeOK'
    BY <1>1, <1>3, <2>1, <2>2, <2>3, SMT, Zenon, SMTT(30) DEF TypeOK, stubVars
  <2>5. Shape'
    BY <1>1, <1>3, <1>5, <1>6, <2>2, <2>3 DEF Shape, stubVars
  <2> QED BY <2>4, <2>5
<1>8. ASSUME Trust' PROVE AckInv' /\ HearInv' /\ RestInv' /\ DownInv' /\ FreshInv'
                          /\ ~stray' /\ ~twice'
  <2>1. AckInv /\ HearInv /\ RestInv /\ FreshInv /\ ~stray /\ ~twice
    BY <1>1, <1>3, <1>8 DEF Trust, TrustInv
  <2>2. DownInv'
    BY <1>3 DEF DownInv
  <2>3. FreshInv'
    BY <1>3, <2>1 DEF FreshInv, stubVars
  <2>4. HearInv'
    BY <1>3, <1>5, <1>6, <2>1 DEF HearInv, stubVars
  <2>5. RestInv'
    BY <1>3, <1>5, <1>6, <2>1, NoMarks DEF RestInv, Settled
  <2>6. AckInv'
    <3>1. CASE stage # "ack"
      BY <1>3, <3>1, Zenon DEF AckInv
    <3>2. CASE stage = "ack" /\ Quiet(toC)
      BY <1>3, <1>5, <1>6, <2>1, <3>2, Zenon DEF AckInv
    <3>3. CASE stage = "ack" /\ ~Quiet(toC)
      <4>1. ~noAck
        BY <2>1, <3>3 DEF AckInv
      <4>2. PICK k \in 1..Len(toC) :
              /\ OneAck(toC, k) /\ toD = <<>>
              /\ toC[k].b = "-" => pending = None /\ done < sent
              /\ toC[k].b = "+" => /\ Fits(toC, k, sent)
                                   /\ ~Mute(toC, k) => pending = None
                                   /\ pending # None => pending.n = sent
        BY <2>1, <3>3 DEF AckInv
      <4>3. CASE Quiet(t)
        BY <1>3, <1>6, <3>3, <4>1, <4>3 DEF AckInv
      <4>4. CASE ~Quiet(t)
        <5>1. /\ k \in 1..Len(t) /\ OneAck(t, k) /\ t[k] = toC[k]
              /\ Mute(toC, k) => Mute(t, k)
              /\ Fits(toC, k, sent) => Fits(t, k, sent)
          BY <1>5, <4>2, <4>4, Zenon
        <5>2. \E j \in 1..Len(toC') :
                /\ OneAck(toC', j) /\ toD' = <<>>
                /\ toC'[j].b = "-" => pending' = None /\ done' < sent'
                /\ toC'[j].b = "+" => /\ Fits(toC', j, sent')
                                      /\ ~Mute(toC', j) => pending' = None
                                      /\ pending' # None => pending'.n = sent'
          BY <1>3, <1>6, <4>2, <5>1 DEF stubVars
        <5> QED BY <1>3, <4>1, <5>2 DEF AckInv
      <4> QED BY <4>3, <4>4, Zenon
    <3> QED BY <3>1, <3>2, <3>3, Zenon
  <2> QED BY <1>3, <2>1, <2>2, <2>3, <2>4, <2>5, <2>6 DEF stubVars
<1>9. ~Calm'
  BY <1>3 DEF Calm
<1> QED BY <1>7, <1>8, <1>9 DEF IInv, TrustInv, CalmInv

\* A command is carried out: its answer fits the one that waits for it.
LEMMA StubRepliesStep ==
  ASSUME IInv, NEW rc \in {"ok", "err"}, NEW signs \in Signs, NEW good \in BOOLEAN,
         StubReplies(rc, signs, good)
  PROVE  IInv'
<1>1. TypeOK /\ Shape /\ TrustInv /\ CalmInv
  BY DEF IInv
<1>2. /\ pending # None /\ pending.cmd # "k" /\ pending' = None /\ done' = pending.n
      /\ twice' = (twice \/ pending.n <= done)
      /\ UNCHANGED <<conn, toD>>
      /\ UNCHANGED <<stage, op, cmd, tries, sent, noAck, pid, stray>>
      /\ good \/ mishaps < MaxMishaps
      /\ mishaps' = IF good THEN mishaps ELSE mishaps + 1
      /\ faults' = IF pending.cmd = "D" /\ rc = "err" THEN faults \cup {"refused"}
                   ELSE faults
      /\ Current' = Current /\ toD \in Seq(Written) /\ toC \in Seq(Marks)
      /\ sent \in Nat /\ conn \in {"up", "down"}
      /\ pending.n \in 1..sent /\ pending.cmd # "none"
  <2>1. pending # None /\ pending \in Frames \cup {None} /\ pending.n \in 0..sent
    BY <1>1 DEF StubReplies, Shape, TypeOK
  <2>2. pending.n > 0 /\ sent \in Nat
    BY <1>1, <2>1 DEF Shape, TypeOK
  <2>3. pending.cmd # "none"
    BY <2>1, FrameKinds
  <2> QED
    BY <1>1, <2>1, <2>2, <2>3
    DEF StubReplies, CarryOut, clientVars, Current, Shape, TypeOK
<1>3. PICK a \in Answer : /\ a = [re |-> pending.n, rc |-> rc, signs |-> signs]
                          /\ a.re = pending.n /\ a.rc = rc
  <2>1. pending.n \in Nat
    BY <1>2
  <2>2. [re |-> pending.n, rc |-> rc, signs |-> signs] \in Answer
    BY <2>1 DEF Answer
  <2> QED BY <2>2
<1>4. /\ Emit(Packet(a, good)) /\ last' = IF good THEN last ELSE a
      /\ attached' = CASE pending.cmd = "vAttach" /\ rc = "ok" -> TRUE
                       [] pending.cmd = "D" /\ rc = "ok" -> FALSE
                       [] OTHER -> attached
  BY <1>3 DEF StubReplies
<1>5. PICK t : t = toC \o Packet(a, good)
  BY ZenonT(30)
<1>6. /\ t \in Seq(Marks)
      /\ Quiet(toC) => Quiet(t)
      /\ Mute(toC, 1) => Fits(t, 1, a.re)
      /\ ~Mute(t, 1)
      /\ Clean(toC) /\ good => Clean(t)
      /\ \A i \in 1..Len(t) :
           \/ i \in 1..Len(toC) /\ t[i] = toC[i]
           \/ t[i].b = "#" => t[i] = End(a, good)
      /\ \A k : OneAck(toC, k) => /\ OneAck(t, k) /\ t[k] = toC[k] /\ k \in 1..Len(t)
                                  /\ Mute(toC, k) => Fits(t, k, a.re)
  <2>1. toC \in Seq(Marks)
    BY <1>2
  <2>2. Followed(toC, t, a, good)
    BY <1>5, <2>1, <1>3, CatPacket, Zenon
  <2> QED
    BY <2>2 DEF Followed
<1>7. toC' = IF conn = "up" THEN t ELSE toC
  BY <1>4, <1>5 DEF Emit
<1>8. TypeOK' /\ Shape'
  <2>1. /\ toC' \in Seq(Marks)
        /\ \A i \in 1..Len(toC') :
             \/ i \in 1..Len(toC) /\ toC'[i] = toC[i]
             \/ toC'[i].b = "#" => toC'[i] = End(a, good)
    BY <1>2, <1>6, <1>7, Zenon
  <2>2. End(a, good).re = pending.n /\ End(a, good).good = good
    BY <1>3 DEF End
  <2>3. /\ \A i \in 1..Len(toC') : toC'[i].b = "#" => toC'[i].re \in 1..sent
        /\ last.re = 0 /\ good => \A i \in 1..Len(toC') : toC'[i].b = "#" => toC'[i].good
    BY <1>1, <1>2, <2>1, <2>2, Zenon DEF TypeOK, Shape
  <2>4. /\ last' \in Answer /\ last'.re <= sent
        /\ last'.re = 0 => last.re = 0 /\ good
    BY <1>1, <1>2, <1>3, <1>4 DEF Shape
  <2>5. attached' \in BOOLEAN /\ twice' \in BOOLEAN
    BY <1>1, <1>2, <1>4, ZenonT(30) DEF Shape
  <2>6. /\ mishaps' \in 0..MaxMishaps
        /\ faults' \subseteq {"ack", "reply", "unacked", "sign", "refused", "drop"}
    BY <1>1, <1>2, RspAssumption, SMT, SMTT(30) DEF TypeOK
  <2>7. pending'.n \in 0..sent /\ done' \in 0..sent /\ pending' \in Frames \cup {None}
    BY <1>2, FrameKinds, SMT, SMTT(30)
  <2>8. TypeOK'
    BY <1>1, <1>2, <2>3, <2>6, <2>7, ZenonT(30) DEF TypeOK
  <2>9. Shape'
    BY <1>1, <1>2, <2>1, <2>3, <2>4, <2>5, <2>7, ZenonT(30) DEF Shape
  <2> QED BY <2>8, <2>9, Zenon
<1>9. ASSUME Trust' PROVE AckInv' /\ HearInv' /\ RestInv' /\ DownInv' /\ FreshInv'
                          /\ ~stray' /\ ~twice'
  <2>1. AckInv /\ HearInv /\ RestInv /\ DownInv /\ FreshInv /\ ~stray /\ ~twice
    BY <1>1, <1>2, <1>9 DEF Trust, TrustInv
  <2>2. DownInv' /\ ~stray'
    BY <1>2, <2>1 DEF DownInv
  <2>3. ~twice'
    <3>1. pending.n > done /\ pending.n \in Nat /\ done \in Nat
      BY <1>1, <1>2, <2>1 DEF FreshInv, TypeOK
    <3>2. ~(pending.n <= done)
      BY <3>1
    <3>3. twice' = (twice \/ pending.n <= done) /\ ~twice
      BY <1>2, <2>1, Zenon
    <3> QED BY <3>2, <3>3, ZenonT(30)
  <2>4. FreshInv'
    <3>1. \A i \in 1..Len(toD) : toD[i] # Nak => toD[i].n > pending.n /\ toD[i].n > 0
      BY <1>1, <2>1, Zenon DEF FreshInv, Shape
    <3>2. None.n = 0
      BY FrameKinds
    <3> QED BY <1>2, <2>1, <3>1, <3>2, Zenon DEF FreshInv
  <2>5. AckInv'
    <3>1. CASE stage # "ack"
      BY <1>2, <3>1, Zenon DEF AckInv
    <3>2. CASE stage = "ack" /\ Quiet(toC)
      <4>1. ~noAck /\ Quiet(toC')
        BY <1>6, <1>7, <2>1, <3>2, Zenon DEF AckInv
      <4>2. /\ ~(\E k \in 1..Len(toC) : OneAck(toC, k))
            /\ conn = "up" => Behind(toD, Current, "nak") /\ pending.n < sent
        BY <2>1, <3>2, Zenon DEF AckInv, Quiet, OneAck
      <4>3. conn' = "up" => /\ Behind(toD', Current', "nak")
                            /\ pending'.n < sent' /\ done' < sent'
        BY <1>2, <4>2, FrameKinds, SMT, SMTT(30)
      <4> QED BY <4>1, <4>3, <1>2, Zenon DEF AckInv
    <3>3. CASE stage = "ack" /\ ~Quiet(toC)
      <4>1. PICK k \in 1..Len(toC) :
              /\ OneAck(toC, k) /\ toD = <<>>
              /\ toC[k].b = "-" => pending = None /\ done < sent
              /\ toC[k].b = "+" => /\ Fits(toC, k, sent)
                                   /\ ~Mute(toC, k) => pending = None
                                   /\ pending # None => pending.n = sent
        BY <2>1, <3>3, Zenon DEF AckInv
      <4>2. ~noAck
        BY <2>1, <3>3, Zenon DEF AckInv
      <4>3. toC[k].b = "+" /\ pending.n = sent /\ Mute(toC, k) /\ Fits(toC, k, sent)
        BY <1>2, <4>1, Zenon DEF OneAck, IsAck
      <4>4. /\ OneAck(toC', k) /\ toC'[k] = toC[k] /\ k \in 1..Len(toC')
            /\ Fits(toC', k, sent')
        BY <1>2, <1>3, <1>6, <1>7, <4>1, <4>3, Zenon
      <4>5. \E j \in 1..Len(toC') :
              /\ OneAck(toC', j) /\ toD' = <<>>
              /\ toC'[j].b = "-" => pending' = None /\ done' < sent'
              /\ toC'[j].b = "+" => /\ Fits(toC', j, sent')
                                    /\ ~Mute(toC', j) => pending' = None
                                    /\ pending' # None => pending'.n = sent'
        BY <1>2, <4>1, <4>3, <4>4, Zenon
      <4> QED BY <1>2, <4>2, <4>5, Zenon DEF AckInv
    <3> QED BY <3>1, <3>2, <3>3, Zenon
  <2>6. HearInv'
    <3>1. CASE stage \notin {"start", "body"}
      BY <1>2, <3>1, Zenon DEF HearInv
    <3>2. CASE stage \in {"start", "body"}
      <4>1. /\ ~noAck => Quiet(toC) /\ toD = <<>>
            /\ cmd # "k" /\ Mute(toC, 1) /\ Fits(toC, 1, sent)
            /\ toD # <<>> => Behind(toD, Current, "k")
            /\ conn = "up" => pending.n = sent /\ toD = <<>>
        BY <1>2, <2>1, <3>2, Zenon DEF HearInv
      <4>2. Fits(toC', 1, sent') /\ (~noAck => Quiet(toC')) /\ (~Mute(toC', 1) => toD = <<>>)
        BY <1>2, <1>3, <1>6, <1>7, <4>1, Zenon
      <4> QED BY <1>2, <4>1, <4>2, Zenon DEF HearInv
    <3> QED BY <3>1, <3>2, Zenon
  <2>7. RestInv'
    <3>1. ASSUME stage \in {"fresh", "idle"} PROVE Settled(toC, noAck)
      BY <2>1, <3>1, Zenon DEF RestInv
    <3>2. ASSUME Settled(toC, noAck) PROVE Settled(toC, noAck)'
      BY <1>2, <1>6, <1>7, <3>2, Zenon DEF Settled
    <3> QED BY <1>2, <3>1, <3>2 DEF RestInv
  <2> QED BY <2>2, <2>3, <2>4, <2>5, <2>6, <2>7
<1>10. ASSUME Calm' PROVE Clean(toC') /\ CalmRest' /\ CalmWait' /\ CalmClosed' /\ CalmDown'
  <2>1. Calm /\ good /\ ~(pending.cmd = "D" /\ rc = "err")
    BY <1>1, <1>2, <1>10 DEF Calm, TypeOK
  <2>2. Clean(toC) /\ CalmRest /\ CalmWait /\ CalmClosed /\ CalmDown
    BY <1>1, <2>1, ZenonT(30) DEF CalmInv
  <2>3. stage \in Waiting
    BY <1>1, <1>2, <2>2 DEF CalmRest, CalmClosed, TypeOK
  <2>4. conn = "up" /\ toC' = t
    BY <1>2, <1>7, <2>2, <2>3, Zenon DEF CalmDown, Waiting
  <2>5. /\ pending = Current /\ toD = <<>> /\ Mute(toC, 1) /\ (attached => pid)
        /\ op \in {"close", "detach"} => cmd = "D"
    BY <1>2, <2>2, <2>3, Zenon DEF CalmWait
  <2>6. pending.n = sent /\ pending.cmd = cmd
    BY <2>5, Zenon DEF Current
  <2>7. Fits(toC', 1, sent') /\ Clean(toC')
    BY <1>2, <1>3, <1>6, <2>1, <2>2, <2>4, <2>5, <2>6, Zenon
  <2>8. cmd # "k" /\ (cmd = "D" => ~attached')
    BY <1>2, <1>4, <2>1, <2>6, Zenon
  <2>9. ASSUME attached', ~pid
        PROVE  /\ op = "attach" /\ cmd = "vAttach"
               /\ \A i \in 1..Len(toC') : toC'[i].b = "#" => toC'[i].rc = "ok"
    <3>1. cmd = "vAttach" /\ rc = "ok"
      BY <1>4, <2>5, <2>6, <2>9, ZenonT(30)
    <3>2. op = "attach"
      BY <1>1, <3>1 DEF Shape
    <3>3. End(a, good).rc = "ok"
      BY <1>3, <3>1 DEF End
    <3>4. \A i \in 1..Len(toC) : toC[i].b # "#"
      BY <2>5 DEF Mute
    <3> QED BY <1>6, <2>4, <3>1, <3>2, <3>3, <3>4
  <2>10. pending'.cmd = "none" /\ pending' = None
    BY <1>2, FrameKinds, Zenon
  <2>11. CalmWait'
    BY <1>2, <2>5, <2>7, <2>8, <2>9, <2>10, Zenon DEF CalmWait
  <2>12. CalmRest' /\ CalmClosed' /\ CalmDown'
    BY <1>2, <2>3, <2>4 DEF CalmRest, CalmClosed, CalmDown, Waiting
  <2> QED BY <2>7, <2>11, <2>12, Zenon
<1> QED BY <1>8, <1>9, <1>10 DEF IInv, TrustInv, CalmInv

\* `k' is carried out.
LEMMA StubKillsStep ==
  ASSUME IInv, StubKills
  PROVE  IInv'
<1>1. TypeOK /\ Shape /\ TrustInv /\ CalmInv
  BY DEF IInv
<1>2. /\ pending # None /\ pending' = None /\ done' = pending.n
      /\ twice' = (twice \/ pending.n <= done)
      /\ ~attached' /\ attached' \in BOOLEAN /\ conn' = "down" /\ toD' = <<>>
      /\ UNCHANGED <<toC, last, mishaps, faults>>
      /\ UNCHANGED <<stage, op, cmd, tries, sent, noAck, pid, stray>>
  BY Zenon DEF StubKills, CarryOut, clientVars
<1>3. /\ toD' \in Seq(Written) /\ \A i \in 1..Len(toD') : FALSE
      /\ pending'.n = 0 /\ pending'.cmd = "none" /\ sent \in Nat /\ pending.n \in 0..sent
      /\ twice' \in BOOLEAN
  BY <1>1, <1>2, FrameKinds, SMT, SMTT(30) DEF TypeOK, Shape
<1>4. TypeOK'
  BY <1>1, <1>2, <1>3, SMT, SMTT(30) DEF TypeOK
<1>5. Shape'
  BY <1>1, <1>2, <1>3 DEF Shape
<1>6. ASSUME Trust' PROVE AckInv' /\ HearInv' /\ RestInv' /\ DownInv' /\ FreshInv'
                          /\ ~stray' /\ ~twice'
  <2>1. AckInv /\ HearInv /\ RestInv /\ FreshInv /\ ~stray /\ ~twice
    BY <1>1, <1>2, <1>6, Zenon DEF Trust, TrustInv
  <2>2. DownInv' /\ FreshInv'
    BY <1>2, <1>3 DEF DownInv, FreshInv
  <2>3. ~twice'
    <3>1. pending.n > done /\ pending.n \in Nat /\ done \in Nat
      BY <1>1, <1>2, <1>3, <2>1 DEF FreshInv, TypeOK
    <3>2. ~(pending.n <= done)
      BY <3>1
    <3>3. twice' = (twice \/ pending.n <= done) /\ ~twice
      BY <1>2, <2>1
    <3> QED BY <3>2, <3>3, Zenon
  <2>4. HearInv'
    BY <1>2, <2>1 DEF HearInv
  <2>5. RestInv'
    BY <1>2, <2>1, NoMarks DEF RestInv, Settled
  <2>6. AckInv'
    <3>1. CASE stage # "ack"
      BY <1>2, <3>1, Zenon DEF AckInv
    <3>2. CASE stage = "ack" /\ Quiet(toC)
      BY <1>2, <2>1, <3>2, Zenon DEF AckInv
    <3>3. CASE stage = "ack" /\ ~Quiet(toC)
      <4>1. PICK k \in 1..Len(toC) :
              /\ OneAck(toC, k)
              /\ toC[k].b = "-" => pending = None
              /\ toC[k].b = "+" => Fits(toC, k, sent)
        BY <2>1, <3>3, Zenon DEF AckInv
      <4>2. \E j \in 1..Len(toC') :
              /\ OneAck(toC', j) /\ toD' = <<>>
              /\ toC'[j].b = "-" => pending' = None /\ done' < sent'
              /\ toC'[j].b = "+" => /\ Fits(toC', j, sent')
                                    /\ ~Mute(toC', j) => pending' = None
                                    /\ pending' # None => pending'.n = sent'
        BY <1>2, <4>1, ZenonT(30)
      <4>3. ~noAck'
        BY <1>2, <2>1, <3>3 DEF AckInv
      <4> QED BY <1>2, <4>2, <4>3, Zenon DEF AckInv
    <3> QED BY <3>1, <3>2, <3>3, Zenon
  <2> QED BY <1>2, <2>1, <2>2, <2>3, <2>4, <2>5, <2>6, Zenon
<1>7. ASSUME Calm' PROVE Clean(toC') /\ CalmRest' /\ CalmWait' /\ CalmClosed' /\ CalmDown'
  <2>1. Clean(toC) /\ CalmRest /\ CalmWait /\ CalmClosed
    BY <1>1, <1>2, <1>7 DEF Calm, CalmInv
  <2>2. Clean(toC') /\ CalmDown' /\ CalmClosed' /\ CalmRest'
    BY <1>2, <1>3, <2>1, NoMarks, ZenonT(30) DEF CalmDown, CalmClosed, CalmRest
  <2>3. CalmWait'
    BY <1>2, <1>3, <2>1 DEF CalmWait
  <2> QED BY <2>2, <2>3
<1> QED BY <1>4, <1>5, <1>6, <1>7 DEF IInv, TrustInv, CalmInv
=============================================================================
