--------------------------- MODULE RspClientProofs ---------------------------
(***************************************************************************)
(* Proofs about RspClient, for any commands, any number of transmissions   *)
(* and any number of mishaps: the steps of the client, and the theorems.   *)
(***************************************************************************)
EXTENDS RspStubProofs

-----------------------------------------------------------------------------
(* The end of a command *)

\* A command ends: the method returns, closes the session or issues the next.
Move(before) ==
  \/ Return(before)
  \/ Hangup
  \/ \E c \in Commands :
       /\ Issue(c, before)
       /\ op' \in {"close", "detach"} => c = "D"
       /\ c = "vAttach" => op' = "attach"
       /\ noAck' = noAck

\* The marks of rest are among those that were there.
Among(rest) == \A i \in 1..Len(rest) : \E j \in 1..Len(toC) : rest[i] = toC[j]

\* Nothing is read,
LEMMA AmongAll == toC \in Seq(Marks) => Among(toC)
  BY DEF Among

\* one mark is read,
LEMMA AmongTail == toC \in Seq(Marks) /\ toC # <<>> => Among(Tail(toC))
  BY TailMarks DEF Among

\* or all of them are.
LEMMA AmongNone == Among(<<>>)
  BY DEF Among

\* What a command leaves on the way to the stub.
LEMMA IssueFrames ==
  ASSUME toD \in Seq(Written), sent \in Nat, NEW before \in Preludes,
         NEW c \in Commands, Issue(c, before)
  PROVE  /\ Current' = [n |-> sent + 1, cmd |-> c] /\ Current' \in Frames
         /\ toD' \in Seq(Written)
         /\ conn # "up" => toD' = toD
         /\ conn = "up" =>
              /\ toD' # <<>> /\ Len(toD') \in 1..Len(toD')
              /\ toD'[Len(toD')] = Current'
              /\ Len(toD) \in Nat /\ Len(toD') > Len(toD)
              /\ \A i \in 1..Len(toD') :
                   \/ i \in 1..Len(toD) /\ toD'[i] = toD[i]
                   \/ toD'[i] = Nak /\ before # <<>> /\ i # Len(toD')
                   \/ i = Len(toD')
              /\ \A x : All(toD, x) /\ (before = <<>> \/ x = "nak")
                          => Behind(toD', Current', x)
<1>1. PICK f : f = [n |-> sent + 1, cmd |-> c]
  BY Zenon
<1>2. Current' = f /\ f \in Frames
  BY <1>1 DEF Issue, Current, Frames
<1>3. CASE conn # "up"
  BY <1>1, <1>2, <1>3 DEF Issue, Write
<1>4. CASE conn = "up"
  <2>1. PICK s \in Seq(Written) : s = toD
    OBVIOUS
  <2>2. toD' = s \o Append(before, f)
    BY <1>1, <1>4, <2>1 DEF Issue, Write
  <2>3. /\ toD' \in Seq(Written) /\ toD' # <<>> /\ Len(toD') \in 1..Len(toD')
        /\ toD'[Len(toD')] = f
        /\ Len(s) \in Nat /\ Len(toD') > Len(s)
        /\ \A i \in 1..Len(toD') :
             \/ i \in 1..Len(s) /\ toD'[i] = s[i]
             \/ toD'[i] = Nak /\ before # <<>> /\ i # Len(toD')
             \/ i = Len(toD')
    <3>1. f \in Frames
      BY <1>2
    <3>2. PICK t : t = Sends(s, before, f)
      OBVIOUS
    <3>3. /\ t \in Seq(Written) /\ t # <<>> /\ Len(t) \in 1..Len(t) /\ t[Len(t)] = f
          /\ Len(s) \in Nat /\ Len(t) > Len(s)
          /\ \A i \in 1..Len(t) :
               \/ i \in 1..Len(s) /\ t[i] = s[i]
               \/ t[i] = Nak /\ before # <<>> /\ i # Len(t)
               \/ i = Len(t)
      BY <2>1, <3>1, <3>2, CatFrames
    <3>4. toD' = t
      BY <2>2, <3>2 DEF Sends
    <3> QED BY <3>3, <3>4
  <2>4. ASSUME NEW x, All(s, x), before = <<>> \/ x = "nak"
        PROVE  Behind(toD', f, x)
    <3>1. \A i \in 1..(Len(toD') - 1) : i \in 1..Len(toD') /\ i # Len(toD')
      BY <2>3
    <3>2. \A i \in 1..(Len(toD') - 1) : toD'[i].cmd = x
      BY <2>3, <2>4, <3>1, FrameKinds, Zenon DEF All
    <3> QED BY <2>3, <3>2 DEF Behind
  <2> QED BY <1>1, <1>2, <1>4, <2>1, <2>3, <2>4
<1> QED BY <1>3, <1>4

\* What a NAK, or nothing, leaves there.
LEMMA ReturnFrames ==
  ASSUME toD \in Seq(Written), NEW before \in Preludes, Return(before)
  PROVE  /\ toD' \in Seq(Written)
         /\ Len(toD) \in Nat /\ Len(toD') \in Nat
         /\ before = <<>> => toD' = toD
         /\ conn # "up" => toD' = toD
         /\ \A i \in 1..Len(toD') :
              \/ i \in 1..Len(toD) /\ toD'[i] = toD[i]
              \/ toD'[i] = Nak /\ before # <<>>
         /\ \A x : All(toD, x) /\ (before = <<>> \/ x = "nak") => All(toD', x)
<1>1. PICK s \in Seq(Written) : s = toD
  OBVIOUS
<1>2. toD' = s \/ (toD' = s \o before /\ conn = "up")
  BY <1>1 DEF Return, Write
<1>3. /\ toD' \in Seq(Written) /\ Len(s) \in Nat /\ Len(toD') \in Nat
      /\ before = <<>> => toD' = s
      /\ \A i \in 1..Len(toD') :
           \/ i \in 1..Len(s) /\ toD'[i] = s[i]
           \/ toD'[i] = Nak /\ before # <<>>
  <2>1. CASE toD' = s
    BY <2>1
  <2>2. CASE toD' = s \o before
    BY <2>2, CatNak, SMTT(30)
  <2> QED BY <1>2, <2>1, <2>2
<1>4. conn # "up" => toD' = s
  BY <1>2
<1>5. \A x : All(s, x) /\ (before = <<>> \/ x = "nak") => All(toD', x)
  BY <1>3, FrameKinds DEF All
<1> QED BY <1>1, <1>3, <1>4, <1>5

\* A command that ends keeps the values in their sets: the frames and marks
\* left are old ones, a NAK that is due, and the new command.
LEMMA MoveShape ==
  ASSUME TypeOK, Shape, NEW before \in Preludes, before # <<>> => last.re > 0,
         NEW rest \in Seq(Marks), Among(rest), Reads(rest), Move(before),
         op' \in Ops \cup {"new"}, noAck' \in BOOLEAN, pid' \in BOOLEAN,
         stray' \in BOOLEAN, UNCHANGED stubVars, mishaps' \in 0..MaxMishaps,
         faults' \subseteq {"ack", "reply", "unacked", "sign", "refused", "drop"}
  PROVE  TypeOK' /\ Shape'
<1>1. /\ conn' \in {"up", "down"} /\ stage' \in {"idle", "closed"} \cup Waiting
      /\ tries' \in 0..MaxTries /\ sent' \in Nat /\ sent <= sent'
      /\ cmd' \in Commands \cup {"none"}
      /\ stage' \in Waiting => cmd' # "none" /\ sent' > 0
      /\ cmd' = "vAttach" => op' = "attach"
  <2>1. CASE Return(before)
    BY <2>1, RspAssumption DEF Return, TypeOK, Waiting
  <2>2. CASE Hangup
    BY <2>2, RspAssumption DEF Hangup, TypeOK, Waiting
  <2>3. ASSUME NEW c \in Commands, Issue(c, before), c = "vAttach" => op' = "attach"
        PROVE  /\ conn' \in {"up", "down"} /\ stage' \in {"idle", "closed"} \cup Waiting
               /\ tries' \in 0..MaxTries /\ sent' \in Nat /\ sent <= sent'
               /\ cmd' \in Commands \cup {"none"}
               /\ stage' \in Waiting => cmd' # "none" /\ sent' > 0
               /\ cmd' = "vAttach" => op' = "attach"
    BY <2>3, RspAssumption, FrameKinds, SMTT(30), SMTT(60)
       DEF Issue, TypeOK, Waiting
  <2> QED BY <2>1, <2>2, <2>3 DEF Move
<1>2. /\ toD' \in Seq(Written)
      /\ \A i \in 1..Len(toD') :
           \/ \E j \in 1..Len(toD) : toD'[i] = toD[j]
           \/ toD'[i] = Nak /\ last.re > 0
           \/ toD'[i].n = sent' /\ toD'[i] # Nak /\ sent' > 0
  <2>1. CASE Return(before)
    BY <2>1, ReturnFrames DEF Shape
  <2>2. CASE Hangup
    BY <2>2 DEF Hangup, Shape
  <2>3. ASSUME NEW c \in Commands, Issue(c, before)
        PROVE  /\ toD' \in Seq(Written)
               /\ \A i \in 1..Len(toD') :
                    \/ \E j \in 1..Len(toD) : toD'[i] = toD[j]
                    \/ toD'[i] = Nak /\ last.re > 0
                    \/ toD'[i].n = sent' /\ toD'[i] # Nak /\ sent' > 0
    <3>1. Current'.n = sent' /\ Current' # Nak /\ sent' = sent + 1 /\ sent \in Nat
      <4>1. Current'.n = sent' /\ sent' = sent + 1 /\ sent \in Nat
        BY <2>3 DEF Current, Issue, TypeOK
      <4> QED BY <4>1, FrameKinds
    <3>2. CASE conn # "up"
      BY <2>3, <3>2, IssueFrames, SMTT(30) DEF Shape, TypeOK
    <3>3. CASE conn = "up"
      BY <2>3, <3>1, <3>3, IssueFrames, SMTT(30), SMTT(60) DEF Shape, TypeOK
    <3> QED BY <3>2, <3>3
  <2> QED BY <2>1, <2>2, <2>3, Zenon DEF Move
<1>3. toC' \in Seq(Marks) /\ \A i \in 1..Len(toC') : \E j \in 1..Len(toC) : toC'[i] = toC[j]
  BY NoMarks DEF Reads, Among
<1>4. /\ done' \in 0..sent' /\ pending'.n \in 0..sent' /\ last'.re <= sent'
      /\ done' = done /\ pending' = pending /\ last' = last
      /\ attached' \in BOOLEAN /\ twice' \in BOOLEAN
  BY <1>1, SMTT(30), SMTT(60) DEF stubVars, TypeOK, Shape, Answer
<1>5. \A i \in 1..Len(toD') : toD'[i].n \in 0..sent' /\ (toD'[i] # Nak => toD'[i].n > 0)
  <2>1. /\ sent \in Nat
        /\ \A j \in 1..Len(toD) : toD[j].n \in 0..sent /\ (toD[j] # Nak => toD[j].n > 0)
    BY SMTT(30) DEF TypeOK, Shape
  <2>2. Nak.n \in 0..sent'
    BY <1>1, FrameKinds
  <2> SUFFICES ASSUME NEW i \in 1..Len(toD')
               PROVE  toD'[i].n \in 0..sent' /\ (toD'[i] # Nak => toD'[i].n > 0)
    OBVIOUS
  <2>3. CASE \E j \in 1..Len(toD) : toD'[i] = toD[j]
    BY <1>1, <2>1, <2>3, SMTT(30)
  <2>4. CASE toD'[i] = Nak
    BY <2>2, <2>4
  <2>5. CASE toD'[i].n = sent' /\ toD'[i] # Nak /\ sent' > 0
    BY <1>1, <2>5
  <2> QED BY <1>2, <2>3, <2>4, <2>5
<1>6. \A i \in 1..Len(toC') : toC'[i].b = "#" => toC'[i].re \in 1..sent'
  <2>1. \A n \in 1..sent : n \in 1..sent'
    BY <1>1 DEF TypeOK
  <2> QED BY <1>3, <2>1, Zenon DEF TypeOK
<1>7. last.re = 0 => (\A i \in 1..Len(toD') : toD'[i] # Nak)
  BY <1>2, SMTT(30) DEF Shape
<1>8. last.re = 0 => (\A i \in 1..Len(toC') : toC'[i].b = "#" => toC'[i].good)
  BY <1>3, Zenon DEF Shape
<1>9. TypeOK'
  BY <1>1, <1>4, <1>5, <1>6, SMTT(30) DEF TypeOK
<1>10. Shape'
  BY <1>1, <1>2, <1>3, <1>4, <1>5, <1>7, <1>8, SMTT(30) DEF Shape
<1> QED BY <1>9, <1>10

\* A command that ends with the stream settled keeps it in order.
LEMMA MoveTrust ==
  ASSUME TypeOK, Shape, DownInv, FreshInv, stage # "closed",
         NEW before \in Preludes, NEW rest \in Seq(Marks),
         Settled(rest, noAck'), before # <<>> => ~noAck',
         Move(before), Reads(rest), UNCHANGED stubVars, noAck' \in BOOLEAN
  PROVE  AckInv' /\ HearInv' /\ RestInv' /\ DownInv' /\ FreshInv'
<1> DEFINE kind == IF noAck' THEN "k" ELSE "nak"
<1>1. /\ toD \in Seq(Written) /\ sent \in Nat /\ conn \in {"up", "down"}
      /\ pending.n \in 0..sent /\ done \in 0..sent
      /\ \A i \in 1..Len(toD) : toD[i].n \in 0..sent
      /\ pending' = pending /\ done' = done
  BY DEF Shape, TypeOK, stubVars
<1>2. PICK x : /\ All(toD, x) /\ (before = <<>> \/ x = "nak")
               /\ x = IF noAck' THEN "k" ELSE "nak"
  BY DEF Settled
<1>3. conn = "down" => toD = <<>>
  BY DEF DownInv
<1>4. CASE Return(before)
  <2>1. /\ stage' = "idle" /\ conn' = conn /\ toC' = rest
    BY <1>4 DEF Return, Reads
  <2>2. /\ toD' \in Seq(Written) /\ Len(toD) \in Nat /\ Len(toD') \in Nat
        /\ conn # "up" => toD' = toD
        /\ \A i \in 1..Len(toD') :
              \/ i \in 1..Len(toD) /\ toD'[i] = toD[i]
              \/ toD'[i] = Nak /\ before # <<>>
        /\ All(toD', x)
    BY <1>1, <1>2, <1>4, ReturnFrames
  <2>3. RestInv'
    BY <1>1, <1>2, <2>1, <2>2 DEF RestInv, Settled
  <2>4. DownInv'
    BY <1>1, <1>3, <2>1, <2>2 DEF DownInv
  <2>5. FreshInv'
    BY <1>1, <2>2, Zenon DEF FreshInv
  <2> QED BY <2>1, <2>3, <2>4, <2>5 DEF AckInv, HearInv
<1>5. CASE Hangup
  <2>1. stage' = "closed" /\ toD' = toD
    BY <1>5 DEF Hangup
  <2>2. FreshInv'
    BY <1>1, <2>1, Zenon DEF FreshInv
  <2> QED BY <2>1, <2>2 DEF AckInv, HearInv, RestInv, DownInv
<1>6. ASSUME NEW c \in Commands, Issue(c, before), noAck' = noAck
      PROVE  AckInv' /\ HearInv' /\ RestInv' /\ DownInv' /\ FreshInv'
  <2>1. /\ stage' = IF ~noAck THEN "ack" ELSE IF c = "k" THEN "idle" ELSE "start"
        /\ conn' = conn /\ toC' = rest /\ sent' = sent + 1 /\ cmd' = c
    BY <1>6 DEF Issue, Reads
  <2>2. /\ toD' \in Seq(Written) /\ Current' \in Frames /\ Current'.n = sent + 1
        /\ Current'.cmd = c
    BY <1>1, <1>6, IssueFrames
  <2>3. conn # "up" => toD' = <<>>
    BY <1>1, <1>3, <1>6, IssueFrames
  <2>4. conn = "up" =>
          /\ toD' # <<>> /\ Behind(toD', Current', x)
          /\ Len(toD') \in 1..Len(toD') /\ toD'[Len(toD')] = Current'
          /\ Len(toD) \in Nat /\ Len(toD') > Len(toD)
          /\ \A i \in 1..Len(toD') :
               \/ i \in 1..Len(toD) /\ toD'[i] = toD[i]
               \/ toD'[i] = Nak /\ before # <<>> /\ i # Len(toD')
               \/ i = Len(toD')
    BY <1>1, <1>2, <1>6, IssueFrames
  <2>5. DownInv'
    BY <1>1, <2>1, <2>3 DEF DownInv
  <2>6. FreshInv'
    <3>1. CASE conn # "up"
      BY <1>1, <2>3, <3>1 DEF FreshInv
    <3>2. CASE conn = "up"
      <4>1. \A i \in 1..Len(toD') :
              toD'[i] # Nak =>
                (i \in 1..Len(toD) /\ toD'[i] = toD[i])
                  \/ (i = Len(toD') /\ toD'[i].n = sent + 1)
        BY <2>2, <2>4, <3>2
      <4>2. \A i \in 1..Len(toD') :
              toD'[i] # Nak => toD'[i].n > done' /\ toD'[i].n > pending'.n
        BY <1>1, <4>1, SMTT(30), SMTT(60) DEF FreshInv
      <4>3. ASSUME NEW i \in 1..Len(toD'), NEW j \in 1..Len(toD'), i < j,
                   toD'[i] # Nak, toD'[j] # Nak
            PROVE  toD'[i].n < toD'[j].n
        <5>1. i # Len(toD') /\ i \in 1..Len(toD) /\ toD'[i] = toD[i]
          BY <2>4, <3>2, <4>1, <4>3
        <5>2. CASE j = Len(toD') /\ toD'[j].n = sent + 1
          BY <1>1, <5>1, <5>2
        <5>3. CASE j \in 1..Len(toD) /\ toD'[j] = toD[j]
          BY <4>3, <5>1, <5>3 DEF FreshInv
        <5> QED BY <4>1, <4>3, <5>2, <5>3
      <4> QED BY <1>1, <4>2, <4>3 DEF FreshInv
    <3> QED BY <3>1, <3>2
  <2>7. AckInv'
    <3>1. CASE noAck
      BY <2>1, <3>1 DEF AckInv
    <3>2. CASE ~noAck
      <4>1. Quiet(toC') /\ x = "nak" /\ ~noAck'
        BY <1>2, <1>6, <2>1, <3>2 DEF Settled
      <4>2. conn' = "up" => /\ Behind(toD', Current', "nak")
                            /\ pending'.n < sent' /\ done' < sent'
        BY <1>1, <2>1, <2>4, <4>1
      <4> QED BY <4>1, <4>2 DEF AckInv
    <3> QED BY <3>1, <3>2
  <2>8. ASSUME noAck PROVE HearInv' /\ RestInv'
    <3>1. Mute(toC', 1) /\ x = "k" /\ noAck' /\ Fits(toC', 1, sent')
      BY <1>2, <1>6, <2>1, <2>8, MuteFits DEF Settled
    <3>2. conn' = "up" /\ pending' # None => pending'.cmd = "k"
      BY <1>1, <1>6, <2>1, <2>8, Zenon DEF Settled
    <3>3. toD' # <<>> => Behind(toD', Current', "k")
      BY <1>1, <2>3, <2>4, <3>1
    <3>4. HearInv'
      BY <2>1, <3>1, <3>2, <3>3, <2>8 DEF HearInv
    <3>5. ASSUME c = "k" PROVE All(toD', "k")
      BY <1>1, <2>2, <2>3, <2>4, <3>1, <3>5, NoMarks DEF All, Behind
    <3>6. RestInv'
      BY <2>1, <3>1, <3>2, <3>5, <2>8 DEF RestInv, Settled
    <3> QED BY <3>4, <3>6
  <2>9. ASSUME ~noAck PROVE HearInv' /\ RestInv'
    BY <2>1, <2>9 DEF HearInv, RestInv
  <2> QED BY <2>5, <2>6, <2>7, <2>8, <2>9 DEF Shape
<1> QED BY <1>4, <1>5, <1>6 DEF Move

\* A command that ends undisturbed leaves no answer behind, and a session that
\* is closed has no process.
LEMMA MoveCalm ==
  ASSUME TypeOK, Shape, CalmDown, stage # "closed", NEW rest \in Seq(Marks),
         Clean(rest), Mute(rest, 1), All(toD, "k"), pending.cmd \in {"none", "k"},
         attached => pid', Hangup => ~attached,
         Move(<<>>), Reads(rest), UNCHANGED stubVars
  PROVE  Clean(toC') /\ CalmRest' /\ CalmWait' /\ CalmClosed' /\ CalmDown'
<1>1. /\ toD \in Seq(Written) /\ sent \in Nat /\ conn \in {"up", "down"}
      /\ pending.n \in 0..sent /\ <<>> \in Preludes
      /\ pending' = pending /\ attached' = attached
  BY DEF Shape, TypeOK, stubVars, Preludes
<1>2. Clean(toC')
  BY NoMarks DEF Reads
<1>3. CASE Return(<<>>)
  <2>1. stage' = "idle" /\ conn' = conn /\ toC' = rest
    BY <1>3 DEF Return, Reads
  <2>2. toD' = toD
    BY <1>1, <1>3, ReturnFrames
  <2>3. CalmRest' /\ CalmDown'
    BY <1>1, <2>1, <2>2 DEF CalmRest, CalmDown
  <2> QED BY <1>2, <2>1, <2>3 DEF CalmWait, CalmClosed, Waiting
<1>4. CASE Hangup
  <2>1. stage' = "closed" /\ toD' = toD
    BY <1>4 DEF Hangup
  <2>2. CalmClosed'
    BY <1>1, <1>4, <2>1 DEF CalmClosed
  <2> QED BY <1>2, <2>1, <2>2 DEF CalmWait, CalmRest, CalmDown, Waiting
<1>5. ASSUME NEW c \in Commands, Issue(c, <<>>), op' \in {"close", "detach"} => c = "D"
      PROVE  CalmRest' /\ CalmWait' /\ CalmClosed' /\ CalmDown'
  <2>1. /\ stage' \in {"ack", "start", "idle"} /\ (stage' = "idle" => c = "k")
        /\ conn' = conn /\ toC' = rest /\ sent' = sent + 1 /\ cmd' = c
    BY <1>5 DEF Issue, Reads
  <2>2. Current' \in Frames /\ Current'.n = sent + 1 /\ Current'.cmd = c
    BY <1>1, <1>5, IssueFrames
  <2>3. conn # "up" => toD' = <<>> /\ pending = None /\ ~attached
    BY <1>1, <1>5, IssueFrames DEF CalmDown
  <2>4. conn = "up" => Behind(toD', Current', "k") /\ toD' \in Seq(Written)
    BY <1>1, <1>5, IssueFrames
  <2>5. toD' # <<>> => Behind(toD', Current', "k")
    BY <2>3, <2>4
  <2>6. pending' # Current'
    BY <1>1, <2>2
  <2>7. Mute(toC', 1) /\ Fits(toC', 1, sent')
    BY <2>1, MuteFits
  <2>8. CalmWait'
    BY <1>1, <1>5, <2>1, <2>5, <2>6, <2>7 DEF CalmWait
  <2>9. ASSUME c = "k" PROVE All(toD', "k")
    BY <2>2, <2>3, <2>4, <2>9, NoMarks DEF All, Behind
  <2>10. CalmRest'
    BY <1>1, <2>1, <2>7, <2>9 DEF CalmRest
  <2>11. CalmDown' /\ CalmClosed'
    BY <1>1, <2>1, <2>3 DEF CalmDown, CalmClosed
  <2> QED BY <2>8, <2>10, <2>11
<1> QED BY <1>2, <1>3, <1>4, <1>5 DEF Move

\* A command that fails ends, and so does one that is answered.
LEMMA FailMoves ==
  ASSUME NEW before, Fail(before), op' = op, noAck' = noAck
  PROVE  Move(before)
  BY DEF Fail, Move, Commands

\* An answer ends a command: only CloseSession hangs up after it.
LEMMA AnsweredMoves ==
  ASSUME NEW rc \in {"ok", "err"}, Answered(rc), op' = op, Shape
  PROVE  /\ Move(<<>>) /\ noAck' \in BOOLEAN /\ pid' \in BOOLEAN
         /\ pid' = PidAfter(rc)
         /\ Hangup => op = "close"
<1>1. noAck \in BOOLEAN /\ pid \in BOOLEAN
  BY DEF Shape
<1>2. noAck' \in BOOLEAN /\ pid' \in BOOLEAN /\ pid' = PidAfter(rc)
  BY <1>1, Zenon DEF Answered, NoAckAfter, PidAfter
<1>3. op # "noack" => noAck' = noAck
  BY <1>1 DEF Answered, NoAckAfter
<1>4. Move(<<>>)
  BY <1>3 DEF Answered, Move, Commands
<1>5. Hangup => op = "close"
  BY DEF Answered, Hangup, Issue, Return
<1> QED BY <1>2, <1>4, <1>5

-----------------------------------------------------------------------------
(* The client *)

\* A method begins with the stream settled.
LEMMA BeginStep ==
  ASSUME IInv, NEW o \in Ops \cup {"new"}, Begin(o)
  PROVE  IInv'
<1>1. TypeOK /\ Shape /\ TrustInv /\ CalmInv
  BY DEF IInv
<1>2. PICK rest \in Seq(Marks) : rest = toC
  BY <1>1 DEF Shape
<1>3. /\ Among(rest) /\ Reads(rest) /\ UNCHANGED stubVars /\ op' = o
      /\ noAck' = noAck /\ pid' = pid /\ stray' = stray /\ mishaps' = mishaps
      /\ faults' = faults /\ stage \in {"fresh", "idle"} /\ stage # "closed"
      /\ <<>> \in Preludes
  BY <1>2, AmongAll DEF Begin, Reads, Preludes, Among
<1>4. /\ First(o) \in Commands
      /\ First(o) = "vAttach" => o = "attach"
      /\ o \in {"close", "detach"} => First(o) = "D"
  BY RspAssumption DEF First, Commands, Ops
<1>5. Move(<<>>) /\ (Hangup => ~pid)
  <2>1. CASE o = "close" /\ ~pid
    BY <2>1 DEF Begin, Move
  <2>2. CASE ~(o = "close" /\ ~pid)
    <3>1. Issue(First(o), <<>>)
      BY <2>2 DEF Begin
    <3>2. ~Hangup
      BY <3>1 DEF Issue, Hangup
    <3> QED BY <1>3, <1>4, <3>1, <3>2 DEF Move
  <2> QED BY <2>1, <2>2
<1>6. TypeOK' /\ Shape'
  <2>1. /\ op' \in Ops \cup {"new"} /\ noAck' \in BOOLEAN /\ pid' \in BOOLEAN
        /\ stray' \in BOOLEAN /\ mishaps' \in 0..MaxMishaps
        /\ faults' \subseteq {"ack", "reply", "unacked", "sign", "refused", "drop"}
    BY <1>1, <1>3 DEF TypeOK, Shape
  <2> QED BY <1>1, <1>2, <1>3, <1>5, <2>1, MoveShape, Zenon
<1>7. ASSUME Trust' PROVE AckInv' /\ HearInv' /\ RestInv' /\ DownInv' /\ FreshInv'
                          /\ ~stray' /\ ~twice'
  <2>1. /\ RestInv /\ DownInv /\ FreshInv /\ ~stray /\ ~twice
    BY <1>1, <1>3, <1>7, Zenon DEF Trust, TrustInv
  <2>2. Settled(rest, noAck') /\ noAck' \in BOOLEAN
    BY <1>1, <1>2, <1>3, <2>1 DEF RestInv, Shape
  <2>3. AckInv' /\ HearInv' /\ RestInv' /\ DownInv' /\ FreshInv'
    BY <1>1, <1>2, <1>3, <1>5, <2>1, <2>2, MoveTrust, Zenon
  <2> QED BY <1>3, <2>1, <2>3 DEF stubVars
<1>8. ASSUME Calm' PROVE Clean(toC') /\ CalmRest' /\ CalmWait' /\ CalmClosed' /\ CalmDown'
  <2>1. Clean(toC) /\ CalmRest /\ CalmDown
    BY <1>1, <1>3, <1>8 DEF Calm, CalmInv
  <2>2. /\ Clean(rest) /\ Mute(rest, 1) /\ All(toD, "k") /\ pending.cmd \in {"none", "k"}
        /\ attached => pid
    BY <1>2, <1>3, <2>1 DEF CalmRest
  <2> QED BY <1>1, <1>2, <1>3, <1>5, <2>1, <2>2, MoveCalm
<1> QED BY <1>6, <1>7, <1>8 DEF IInv, TrustInv, CalmInv

\* A deadline that passes while the answer is awaited leaves nothing that the
\* next command could mistake for its own.
LEMMA TimeoutStep ==
  ASSUME IInv, Timeout
  PROVE  IInv'
<1>1. TypeOK /\ Shape /\ TrustInv
  BY DEF IInv
<1>2. PICK rest \in Seq(Marks) : rest = toC
  BY <1>1 DEF Shape
<1>3. /\ Among(rest) /\ Reads(rest) /\ UNCHANGED stubVars /\ op' = op
      /\ noAck' = noAck /\ pid' = pid /\ stray' = stray /\ mishaps' = mishaps + 1
      /\ stage \in Waiting /\ stage # "closed" /\ mishaps < MaxMishaps
      /\ faults' = faults \cup {IF stage = "ack" THEN "ack"
                                ELSE IF noAck THEN "unacked" ELSE "reply"}
      /\ <<>> \in Preludes /\ Move(<<>>)
  BY <1>2, AmongAll, FailMoves DEF Timeout, Reads, Preludes, Among, Waiting
<1>4. TypeOK' /\ Shape'
  <2>1. /\ op' \in Ops \cup {"new"} /\ noAck' \in BOOLEAN /\ pid' \in BOOLEAN
        /\ stray' \in BOOLEAN /\ mishaps' \in 0..MaxMishaps
    BY <1>1, <1>3, RspAssumption, SMT, SMTT(30) DEF TypeOK, Shape
  <2>2. faults' \subseteq {"ack", "reply", "unacked", "sign", "refused", "drop"}
    BY <1>1, <1>3 DEF TypeOK
  <2> QED BY <1>1, <1>2, <1>3, <2>1, <2>2, MoveShape, Zenon
<1>5. ASSUME Trust' PROVE AckInv' /\ HearInv' /\ RestInv' /\ DownInv' /\ FreshInv'
                          /\ ~stray' /\ ~twice'
  <2>1. Trust /\ stage # "ack" /\ ~noAck
    BY <1>3, <1>5, Zenon DEF Trust
  <2>2. HearInv /\ DownInv /\ FreshInv /\ ~stray /\ ~twice
    BY <1>1, <2>1, Zenon DEF TrustInv
  <2>3. Settled(rest, noAck') /\ noAck' \in BOOLEAN
    BY <1>1, <1>2, <1>3, <2>1, <2>2, NoMarks, Zenon
       DEF HearInv, Shape, Settled, Waiting
  <2>4. AckInv' /\ HearInv' /\ RestInv' /\ DownInv' /\ FreshInv'
    BY <1>1, <1>2, <1>3, <2>2, <2>3, MoveTrust, Zenon
  <2> QED BY <1>3, <2>2, <2>4 DEF stubVars
<1>6. ~Calm'
  BY <1>1, <1>3 DEF Calm, TypeOK
<1> QED BY <1>4, <1>5, <1>6 DEF IInv, TrustInv, CalmInv

\* On a connection that is gone nothing is left to be mistaken.
LEMMA ReadFailsStep ==
  ASSUME IInv, ReadFails
  PROVE  IInv'
<1>1. TypeOK /\ Shape /\ TrustInv /\ CalmInv
  BY DEF IInv
<1>2. PICK rest \in Seq(Marks) : rest = <<>>
  BY NoMarks, Zenon
<1>3. /\ Among(rest) /\ Reads(rest) /\ UNCHANGED stubVars /\ op' = op
      /\ noAck' = noAck /\ pid' = pid /\ stray' = stray /\ mishaps' = mishaps
      /\ stage \in Waiting /\ stage # "closed" /\ conn = "down"
      /\ faults' = faults /\ <<>> \in Preludes /\ Move(<<>>)
  BY <1>2, AmongNone, FailMoves DEF ReadFails, Reads, Preludes, Waiting
<1>4. TypeOK' /\ Shape'
  <2>1. /\ op' \in Ops \cup {"new"} /\ noAck' \in BOOLEAN /\ pid' \in BOOLEAN
        /\ stray' \in BOOLEAN /\ mishaps' \in 0..MaxMishaps
        /\ faults' \subseteq {"ack", "reply", "unacked", "sign", "refused", "drop"}
    BY <1>1, <1>3 DEF TypeOK, Shape
  <2> QED BY <1>1, <1>2, <1>3, <2>1, MoveShape, Zenon
<1>5. ASSUME Trust' PROVE AckInv' /\ HearInv' /\ RestInv' /\ DownInv' /\ FreshInv'
                          /\ ~stray' /\ ~twice'
  <2>1. DownInv /\ FreshInv /\ ~stray /\ ~twice
    BY <1>1, <1>3, <1>5 DEF Trust, TrustInv
  <2>2. toD = <<>>
    BY <1>3, <2>1, Zenon DEF DownInv
  <2>3. Settled(rest, noAck') /\ noAck' \in BOOLEAN
    BY <1>1, <1>2, <1>3, <2>2, NoMarks DEF Shape, Settled
  <2>4. AckInv' /\ HearInv' /\ RestInv' /\ DownInv' /\ FreshInv'
    BY <1>1, <1>2, <1>3, <2>1, <2>3, MoveTrust, Zenon
  <2> QED BY <1>3, <2>1, <2>4 DEF stubVars
<1>6. ASSUME Calm' PROVE Clean(toC') /\ CalmRest' /\ CalmWait' /\ CalmClosed' /\ CalmDown'
  <2>1. CalmDown
    BY <1>1, <1>3, <1>6 DEF Calm, CalmInv
  <2>2. pending = None /\ toD = <<>> /\ ~attached
    BY <1>3, <2>1 DEF CalmDown
  <2>3. Clean(rest) /\ Mute(rest, 1) /\ All(toD, "k") /\ pending.cmd \in {"none", "k"}
    BY <1>2, <2>2, NoMarks, FrameKinds
  <2> QED BY <1>1, <1>2, <1>3, <2>1, <2>2, <2>3, MoveCalm, Zenon
<1> QED BY <1>4, <1>5, <1>6 DEF IInv, TrustInv, CalmInv

\* The client reads one mark and waits on.
LEMMA TailShape ==
  ASSUME TypeOK, Shape, toC # <<>>, toC' = Tail(toC),
         stage \in Waiting, stage' \in Waiting,
         UNCHANGED <<conn, op, cmd, tries, sent, noAck, pid, stray, toD, stubVars, mishaps>>,
         faults' \subseteq {"ack", "reply", "unacked", "sign", "refused", "drop"}
  PROVE  TypeOK' /\ Shape'
<1>1. Among(Tail(toC)) /\ Tail(toC) \in Seq(Marks)
  BY AmongTail, TailMarks DEF Shape
<1>2. PICK rest \in Seq(Marks) : rest = Tail(toC)
  BY <1>1
<1>3. toC' = rest /\ \A i \in 1..Len(rest) : \E j \in 1..Len(toC) : rest[i] = toC[j]
  BY <1>1, <1>2, Zenon DEF Among
<1>4. /\ \A i \in 1..Len(toC') : toC'[i].b = "#" => toC'[i].re \in 1..sent
      /\ last.re = 0 => \A i \in 1..Len(toC') : toC'[i].b = "#" => toC'[i].good
  BY <1>3 DEF TypeOK, Shape
<1>5. TypeOK'
  BY <1>4, Zenon DEF TypeOK, stubVars
<1>6. Shape'
  BY <1>2, <1>3, <1>4, ZenonT(30), SMTT(30) DEF Shape, stubVars
<1> QED BY <1>5, <1>6

\* Reading a mark that is not the answer keeps what is known of the answer to come.
LEMMA TailHear ==
  ASSUME toC \in Seq(Marks), toC # <<>>, toC' = Tail(toC), HearInv,
         stage \in {"start", "body"},
         UNCHANGED <<conn, cmd, sent, noAck, toD, stubVars>>
  PROVE  HearInv'
<1>1. /\ Quiet(toC) => Quiet(Tail(toC))
      /\ Mute(toC, 1) => Mute(Tail(toC), 1)
      /\ Fits(Tail(toC), 1, sent)
  BY TailQuiet, TailMute, TailFits DEF HearInv
<1>2. Current' = Current /\ pending' = pending
  BY DEF Current, stubVars
<1> QED BY <1>1, <1>2 DEF HearInv

\* The same for a session in which nothing has gone wrong.
LEMMA TailWait ==
  ASSUME toC \in Seq(Marks), toC # <<>>, toC' = Tail(toC), CalmWait, CalmDown, Clean(toC),
         stage \in Waiting, stage' \in Waiting,
         UNCHANGED <<conn, op, cmd, sent, pid, toD, stubVars>>
  PROVE  Clean(toC') /\ CalmWait' /\ CalmRest' /\ CalmClosed' /\ CalmDown'
<1>1. /\ Clean(Tail(toC))
      /\ Mute(toC, 1) => Mute(Tail(toC), 1)
      /\ Fits(Tail(toC), 1, sent)
  BY TailClean, TailMute, TailFits DEF CalmWait
<1>2. Current' = Current /\ pending' = pending /\ attached' = attached
  BY DEF Current, stubVars
<1>3. (\A i \in 1..Len(toC) : toC[i].b = "#" => toC[i].rc = "ok")
        => \A i \in 1..Len(Tail(toC)) : Tail(toC)[i].b = "#" => Tail(toC)[i].rc = "ok"
  BY TailMarks, SMT, SMTT(30)
<1>4. CalmWait'
  BY <1>1, <1>2, <1>3 DEF CalmWait
<1>5. CalmDown'
  BY <1>2 DEF CalmDown, Waiting
<1> QED BY <1>1, <1>4, <1>5, Zenon DEF CalmRest, CalmClosed, Waiting

\* The next packet is looked for.
LEMMA ReadStartStep ==
  ASSUME IInv, ReadStart
  PROVE  IInv'
<1>1. TypeOK /\ Shape /\ TrustInv /\ CalmInv
  BY DEF IInv
<1>2. /\ toC # <<>> /\ toC' = Tail(toC) /\ toC \in Seq(Marks)
      /\ stage = "start" /\ stage' \in {"start", "body"}
      /\ UNCHANGED <<conn, op, cmd, tries, sent, noAck, pid, stray, toD, stubVars,
                     mishaps, faults>>
      /\ stage \in Waiting /\ stage' \in Waiting
  BY <1>1 DEF ReadStart, Reads, Shape, Waiting
<1>3. TypeOK' /\ Shape'
  <2>1. faults' \subseteq {"ack", "reply", "unacked", "sign", "refused", "drop"}
    BY <1>1, <1>2, ZenonT(30) DEF TypeOK
  <2> QED BY <1>1, <1>2, <2>1, TailShape, Zenon
<1>4. ASSUME Trust' PROVE AckInv' /\ HearInv' /\ RestInv' /\ DownInv' /\ FreshInv'
                          /\ ~stray' /\ ~twice'
  <2>1. HearInv /\ DownInv /\ FreshInv /\ ~stray /\ ~twice
    BY <1>1, <1>2, <1>4 DEF Trust, TrustInv
  <2>2. HearInv'
    BY <1>2, <2>1, TailHear
  <2>3. DownInv' /\ FreshInv'
    BY <1>2, <2>1 DEF DownInv, FreshInv, stubVars
  <2> QED BY <1>2, <2>1, <2>2, <2>3 DEF AckInv, RestInv, stubVars
<1>5. ASSUME Calm' PROVE Clean(toC') /\ CalmRest' /\ CalmWait' /\ CalmClosed' /\ CalmDown'
  <2>1. Clean(toC) /\ CalmWait /\ CalmDown
    BY <1>1, <1>2, <1>5 DEF Calm, CalmInv
  <2> QED BY <1>2, <2>1, TailWait
<1> QED BY <1>3, <1>4, <1>5, Zenon DEF IInv, TrustInv, CalmInv

\* An acknowledgement that is read is the one of the command, and the only one.
LEMMA AckFacts ==
  ASSUME TypeOK, Shape, AckInv, stage = "ack", toC # <<>>, IsAck(Head(toC))
  PROVE  /\ ~noAck /\ Quiet(Tail(toC)) /\ toD = <<>>
         /\ Head(toC).b = "-" => pending = None /\ done < sent
         /\ Head(toC).b = "+" => /\ Fits(Tail(toC), 1, sent)
                                 /\ ~Mute(Tail(toC), 1) => pending = None
                                 /\ pending # None => pending.n = sent
<1>1. toC \in Seq(Marks) /\ Head(toC) = toC[1] /\ 1 \in 1..Len(toC)
  BY TailMarks DEF Shape
<1>2. ~Quiet(toC) /\ ~noAck
  BY <1>1 DEF Quiet, AckInv
<1>3. PICK k \in 1..Len(toC) :
        /\ OneAck(toC, k) /\ toD = <<>>
        /\ toC[k].b = "-" => pending = None /\ done < sent
        /\ toC[k].b = "+" => /\ Fits(toC, k, sent)
                             /\ ~Mute(toC, k) => pending = None
                             /\ pending # None => pending.n = sent
  BY <1>2 DEF AckInv
<1>4. k = 1 /\ Quiet(Tail(toC))
  BY <1>1, <1>3, TailAck
<1>5. Fits(toC, 1, sent) => Fits(Tail(toC), 1, sent)
  BY <1>1, TailFits
<1>6. Mute(toC, 1) => Mute(Tail(toC), 1)
  BY <1>1, TailMute, Zenon
<1> QED BY <1>1, <1>2, <1>3, <1>4, <1>5, <1>6, Zenon

\* What readAck passes over brings the acknowledgement closer.
LEMMA AckPasses ==
  ASSUME TypeOK, Shape, AckInv, stage = "ack", toC # <<>>, ~IsAck(Head(toC)),
         toC' = Tail(toC),
         UNCHANGED <<conn, stage, cmd, sent, noAck, toD, stubVars>>
  PROVE  AckInv'
<1>1. /\ toC \in Seq(Marks) /\ pending' = pending /\ done' = done
      /\ Current' = Current /\ ~noAck
  BY Zenon DEF Shape, stubVars, AckInv, Current
<1>2. CASE /\ Quiet(toC)
           /\ conn = "up" => Behind(toD, Current, "nak") /\ pending.n < sent /\ done < sent
  <2>1. Quiet(toC')
    BY <1>1, <1>2, TailQuiet, Zenon
  <2> QED BY <1>1, <1>2, <2>1 DEF AckInv
<1>3. ASSUME NEW k \in 1..Len(toC),
             /\ OneAck(toC, k) /\ toD = <<>>
             /\ toC[k].b = "-" => pending = None /\ done < sent
             /\ toC[k].b = "+" => /\ Fits(toC, k, sent)
                                  /\ ~Mute(toC, k) => pending = None
                                  /\ pending # None => pending.n = sent
      PROVE  AckInv'
  <2>1. /\ OneAck(toC', k - 1) /\ toC'[k - 1] = toC[k] /\ k - 1 \in 1..Len(toC')
        /\ Mute(toC, k) => Mute(toC', k - 1)
        /\ Fits(toC, k, sent) => Fits(toC', k - 1, sent)
    BY <1>1, <1>3, TailAck, Zenon
  <2>2. \E j \in 1..Len(toC') :
          /\ OneAck(toC', j) /\ toD' = <<>>
          /\ toC'[j].b = "-" => pending' = None /\ done' < sent'
          /\ toC'[j].b = "+" => /\ Fits(toC', j, sent')
                                /\ ~Mute(toC', j) => pending' = None
                                /\ pending' # None => pending'.n = sent'
    BY <1>1, <1>3, <2>1
  <2> QED BY <1>1, <2>2, Zenon DEF AckInv
<1> QED BY <1>2, <1>3, Zenon DEF AckInv

\* The frame goes out again.
LEMMA ResendFrames ==
  ASSUME TypeOK, Shape, stage \in Waiting, Write(<<Current>>)
  PROVE  /\ toD' \in Seq(Written) /\ Current \in Frames
         /\ conn # "up" => toD' = toD
         /\ \A i \in 1..Len(toD') :
              (i \in 1..Len(toD) /\ toD'[i] = toD[i]) \/ (i = Len(toD') /\ toD'[i] = Current)
         /\ conn = "up" /\ toD = <<>> => Behind(toD', Current, "nak") /\ Len(toD') = 1
<1>1. PICK s \in Seq(Written) : s = toD
  BY DEF Shape
<1>2. PICK f \in Frames : f = Current
  BY DEF Current, Frames, TypeOK, Shape
<1>3. CASE conn # "up"
  BY <1>1, <1>2, <1>3 DEF Write
<1>4. CASE conn = "up"
  <2>1. PICK t : t = Sends(s, <<>>, f)
    OBVIOUS
  <2>2. toD' = t
    BY <1>1, <1>2, <1>4, <2>1 DEF Write, Sends
  <2>3. <<>> \in Preludes
    BY DEF Preludes
  <2>4. /\ t \in Seq(Written) /\ t # <<>>
        /\ Len(t) \in 1..Len(t) /\ t[Len(t)] = f
        /\ Len(s) \in Nat /\ Len(t) > Len(s)
        /\ \A i \in 1..Len(t) :
              \/ i \in 1..Len(s) /\ t[i] = s[i]
              \/ i = Len(t)
    BY <1>1, <1>2, <2>1, <2>3, CatFrames
  <2>5. ASSUME s = <<>> PROVE Len(t) = 1
    <3>1. t = <<f>>
      BY <1>1, <1>2, <2>1, <2>5 DEF Sends
    <3> QED BY <3>1
  <2>6. s = <<>> => Behind(t, f, "nak")
    BY <2>4, <2>5 DEF Behind
  <2> QED BY <1>1, <1>2, <1>4, <2>2, <2>4, <2>5, <2>6
<1> QED BY <1>3, <1>4

\* Sending the command again, in SendPacket's loop, keeps the values in order.
LEMMA ResendShape ==
  ASSUME TypeOK, Shape, stage = "ack", toC # <<>>, toC' = Tail(toC), Write(<<Current>>),
         tries < MaxTries, tries' = tries + 1,
         UNCHANGED <<conn, stage, op, cmd, sent, noAck, pid, stray, stubVars, mishaps>>,
         faults' \subseteq {"ack", "reply", "unacked", "sign", "refused", "drop"}
  PROVE  TypeOK' /\ Shape'
<1>1. Among(Tail(toC)) /\ Tail(toC) \in Seq(Marks)
  BY AmongTail, TailMarks DEF Shape
<1>2. PICK rest \in Seq(Marks) : rest = Tail(toC)
  BY <1>1, Zenon
<1>3. toC' = rest /\ \A i \in 1..Len(rest) : \E j \in 1..Len(toC) : rest[i] = toC[j]
  BY <1>1, <1>2, Zenon DEF Among
<1>4. /\ \A i \in 1..Len(toC') : toC'[i].b = "#" => toC'[i].re \in 1..sent
      /\ last.re = 0 => \A i \in 1..Len(toC') : toC'[i].b = "#" => toC'[i].good
  BY <1>3 DEF TypeOK, Shape
<1>5. /\ toD' \in Seq(Written)
      /\ \A i \in 1..Len(toD') :
           (i \in 1..Len(toD) /\ toD'[i] = toD[i]) \/ (i = Len(toD') /\ toD'[i] = Current)
  BY ResendFrames DEF Waiting
<1>6. Current.n = sent /\ Current # Nak /\ sent > 0 /\ sent \in Nat
  <2>1. Current.n = sent /\ sent > 0 /\ sent \in Nat
    BY DEF Current, Shape, TypeOK, Waiting
  <2> QED BY <2>1, FrameKinds, SMT, SMTT(30)
<1>7. \A i \in 1..Len(toD') :
        /\ toD'[i].n \in 0..sent
        /\ toD'[i] # Nak => toD'[i].n > 0
        /\ last.re = 0 => toD'[i] # Nak
  <2>1. \A j \in 1..Len(toD) :
          /\ toD[j].n \in 0..sent
          /\ toD[j] # Nak => toD[j].n > 0
          /\ last.re = 0 => toD[j] # Nak
    BY Zenon DEF TypeOK, Shape
  <2>2. Current.n \in 0..sent
    BY <1>6
  <2> QED BY <1>5, <1>6, <2>1, <2>2, Zenon
<1>8. TypeOK'
  BY <1>4, <1>7, RspAssumption, SMT, SMTT(30) DEF TypeOK, stubVars
<1>9. Shape'
  BY <1>2, <1>3, <1>4, <1>5, <1>7 DEF Shape, stubVars
<1> QED BY <1>8, <1>9, Zenon

\* The acknowledgement is awaited, read or refused.
LEMMA ReadAckStep ==
  ASSUME IInv, ReadAck
  PROVE  IInv'
<1>1. TypeOK /\ Shape /\ TrustInv /\ CalmInv
  BY DEF IInv
<1>2. PICK m \in Marks : m = Head(toC)
  BY <1>1, TailMarks DEF ReadAck, Shape
<1>3. PICK rest \in Seq(Marks) : rest = Tail(toC)
  BY <1>1, TailMarks, ZenonT(30) DEF ReadAck, Shape
<1>4. /\ stage = "ack" /\ toC # <<>> /\ Among(rest) /\ Reads(rest)
      /\ UNCHANGED <<op, noAck, pid, stray, stubVars, mishaps>>
      /\ faults' = IF m.b \in {"+", "-"} /\ m.in THEN faults \cup {"sign"} ELSE faults
      /\ toC \in Seq(Marks) /\ <<>> \in Preludes /\ stage \in Waiting
  BY <1>1, <1>2, <1>3, AmongTail, ZenonT(30)
     DEF ReadAck, Reads, Among, Shape, Preludes, Waiting
<1>5. /\ op' \in Ops \cup {"new"} /\ noAck' \in BOOLEAN /\ pid' \in BOOLEAN
      /\ stray' \in BOOLEAN /\ mishaps' \in 0..MaxMishaps
      /\ faults' \subseteq {"ack", "reply", "unacked", "sign", "refused", "drop"}
  BY <1>1, <1>4, ZenonT(30) DEF TypeOK, Shape
<1>6. ASSUME Trust' PROVE /\ Trust /\ AckInv /\ DownInv /\ FreshInv /\ ~stray' /\ ~twice'
                          /\ m.b \in {"+", "-"} => IsAck(m)
  BY <1>1, <1>4, <1>6, Zenon DEF Trust, TrustInv, IsAck, stubVars
<1>7. ASSUME Calm' PROVE /\ Clean(toC) /\ CalmWait /\ CalmDown /\ Clean(rest)
                         /\ m.b # "-"
  <2>1. Calm /\ (m.b \in {"+", "-"} => ~m.in)
    BY <1>4, <1>7, Zenon DEF Calm
  <2>2. Clean(toC) /\ CalmWait /\ CalmDown
    BY <1>1, <2>1 DEF CalmInv
  <2>3. Clean(rest) /\ (m.b = "-" => m.in)
    BY <1>2, <1>3, <1>4, <2>2, TailClean, Zenon
  <2> QED BY <2>1, <2>2, <2>3
<1>8. CASE /\ PassedOver(m.b)
           /\ UNCHANGED <<conn, toD, stage, cmd, tries, sent>>
  <2>1. toC' = Tail(toC) /\ stage' \in Waiting
    BY <1>3, <1>4, <1>8 DEF Reads
  <2>2. TypeOK' /\ Shape'
    BY <1>1, <1>4, <1>5, <1>8, <2>1, TailShape
  <2>3. ~IsAck(Head(toC))
    BY <1>2, <1>8 DEF PassedOver, IsAck
  <2>4. ASSUME Trust' PROVE AckInv' /\ HearInv' /\ RestInv' /\ DownInv' /\ FreshInv'
    <3>1. AckInv'
      BY <1>1, <1>4, <1>6, <1>8, <2>1, <2>3, <2>4, AckPasses, Zenon
    <3>2. DownInv' /\ FreshInv'
      BY <1>4, <1>6, <1>8, <2>4, Zenon DEF DownInv, FreshInv, stubVars
    <3> QED BY <1>4, <1>8, <3>1, <3>2, Zenon DEF HearInv, RestInv
  <2>5. ASSUME Calm'
        PROVE  Clean(toC') /\ CalmRest' /\ CalmWait' /\ CalmClosed' /\ CalmDown'
    BY <1>4, <1>7, <1>8, <2>1, <2>5, TailWait, Zenon
  <2> QED BY <1>6, <2>2, <2>4, <2>5 DEF IInv, TrustInv, CalmInv
<1>9. CASE m.b = "+" /\ cmd # "k" /\ stage' = "start" /\ UNCHANGED <<conn, toD, cmd, tries, sent>>
  <2>1. toC' = Tail(toC) /\ stage' \in Waiting
    BY <1>3, <1>4, <1>9, Zenon DEF Reads, Waiting
  <2>2. TypeOK' /\ Shape'
    BY <1>1, <1>4, <1>5, <1>9, <2>1, TailShape
  <2>3. ASSUME Trust' PROVE AckInv' /\ HearInv' /\ RestInv' /\ DownInv' /\ FreshInv'
    <3>1. /\ ~noAck /\ Quiet(toC') /\ toD = <<>> /\ Fits(toC', 1, sent)
          /\ ~Mute(toC', 1) => pending = None
          /\ pending # None => pending.n = sent
      BY <1>1, <1>2, <1>4, <1>6, <1>9, <2>1, <2>3, AckFacts, Zenon
    <3>2. HearInv'
      BY <1>4, <1>9, <3>1, Zenon DEF HearInv, stubVars
    <3>3. DownInv' /\ FreshInv'
      BY <1>4, <1>6, <1>9, <2>3, ZenonT(30) DEF DownInv, FreshInv, stubVars
    <3> QED BY <1>9, <3>2, <3>3, Zenon DEF AckInv, RestInv
  <2>4. ASSUME Calm'
        PROVE  Clean(toC') /\ CalmRest' /\ CalmWait' /\ CalmClosed' /\ CalmDown'
    BY <1>4, <1>7, <1>9, <2>1, <2>4, TailWait, Zenon
  <2> QED BY <1>6, <2>2, <2>3, <2>4 DEF IInv, TrustInv, CalmInv
<1>10. CASE m.b = "+" /\ cmd = "k" /\ Return(<<>>)
  <2>1. Move(<<>>)
    BY <1>10 DEF Move
  <2>2. TypeOK' /\ Shape'
    BY <1>1, <1>3, <1>4, <1>5, <2>1, MoveShape, Zenon
  <2>3. ASSUME Trust' PROVE AckInv' /\ HearInv' /\ RestInv' /\ DownInv' /\ FreshInv'
    <3>1. ~noAck /\ Quiet(rest) /\ toD = <<>>
      BY <1>1, <1>2, <1>3, <1>4, <1>6, <1>10, <2>3, AckFacts, Zenon
    <3>2. Settled(rest, noAck')
      BY <1>4, <3>1, NoMarks DEF Settled
    <3> QED BY <1>1, <1>3, <1>4, <1>5, <1>6, <2>1, <2>3, <3>2, MoveTrust, Zenon
  <2>4. ASSUME Calm'
        PROVE  Clean(toC') /\ CalmRest' /\ CalmWait' /\ CalmClosed' /\ CalmDown'
    <3>2. Mute(rest, 1)
      BY <1>3, <1>4, <1>7, <1>10, <2>4, TailMute DEF CalmWait
    <3>3. Current.cmd = "k"
      BY <1>10, ZenonT(30) DEF Current
    <3>4. All(toD, "k")
      BY <1>1, <1>4, <1>7, <2>4, <3>3, NoMarks, SMT, SMTT(30)
         DEF CalmWait, All, Behind, Shape
    <3>5. pending.cmd \in {"none", "k"} /\ (attached => pid')
      BY <1>4, <1>7, <1>10, <2>4, <3>3, Zenon DEF CalmWait
    <3>6. ~Hangup
      BY <1>10, Zenon DEF Hangup, Return
    <3> QED BY <1>1, <1>3, <1>4, <1>7, <2>1, <2>4, <3>2, <3>4, <3>5, <3>6, MoveCalm, ZenonT(30)
  <2> QED BY <1>6, <2>2, <2>3, <2>4 DEF IInv, TrustInv, CalmInv
<1>11. CASE /\ m.b = "-" /\ MoreTries /\ tries' = tries + 1
            /\ Write(<<[n |-> sent, cmd |-> cmd]>>)
            /\ UNCHANGED <<conn, stage, cmd, sent>>
  <2>1. toC' = Tail(toC) /\ Write(<<Current>>) /\ Current' = Current /\ tries < MaxTries
    BY <1>3, <1>4, <1>11, Zenon DEF Reads, Current, MoreTries
  <2>2. TypeOK' /\ Shape'
    BY <1>1, <1>4, <1>5, <1>11, <2>1, ResendShape, Zenon
  <2>3. ASSUME Trust' PROVE AckInv' /\ HearInv' /\ RestInv' /\ DownInv' /\ FreshInv'
    <3>1. ~noAck /\ Quiet(toC') /\ toD = <<>> /\ pending = None /\ done < sent
      BY <1>1, <1>2, <1>4, <1>6, <1>11, <2>1, <2>3, AckFacts, Zenon
    <3>2. /\ Current \in Frames
          /\ conn # "up" => toD' = toD
          /\ \A i \in 1..Len(toD') :
              (i \in 1..Len(toD) /\ toD'[i] = toD[i]) \/ (i = Len(toD') /\ toD'[i] = Current)
          /\ conn = "up" => Behind(toD', Current, "nak")
      BY <1>1, <1>4, <2>1, <3>1, ResendFrames, ZenonT(30)
    <3>3. /\ pending' = None /\ done' = done /\ pending'.n < sent /\ sent \in Nat
          /\ done \in Nat /\ None.n = 0 /\ sent > 0 /\ Current.n = sent
      BY <1>1, <1>4, <3>1, FrameKinds, SMT, SMTT(30)
         DEF stubVars, TypeOK, Shape, Current
    <3>4. AckInv'
      BY <1>4, <1>11, <2>1, <3>1, <3>2, <3>3, ZenonT(30) DEF AckInv
    <3>5. DownInv'
      BY <1>1, <1>11, <3>1, <3>2, ZenonT(30) DEF DownInv, TypeOK
    <3>6. \A i \in 1..Len(toD') : i = Len(toD') /\ toD'[i] = Current
      <4>1. \A i \in 1..Len(toD) : FALSE
        BY <3>1, SMT, SMTT(30)
      <4> QED BY <3>2, <4>1
    <3>7. FreshInv'
      BY <3>1, <3>3, <3>6, SMT, SMTT(30) DEF FreshInv
    <3> QED BY <1>4, <1>11, <3>4, <3>5, <3>7, Zenon DEF HearInv, RestInv
  <2> QED BY <1>6, <1>7, <1>11, <2>2, <2>3, Zenon DEF IInv, TrustInv, CalmInv
<1>12. CASE m.b = "-" /\ Fail(<<>>)
  <2>1. Move(<<>>)
    BY <1>4, <1>12, FailMoves
  <2>2. TypeOK' /\ Shape'
    BY <1>1, <1>3, <1>4, <1>5, <2>1, MoveShape, Zenon
  <2>3. ASSUME Trust' PROVE AckInv' /\ HearInv' /\ RestInv' /\ DownInv' /\ FreshInv'
    <3>1. ~noAck /\ Quiet(rest) /\ toD = <<>>
      BY <1>1, <1>2, <1>3, <1>4, <1>6, <1>12, <2>3, AckFacts, Zenon
    <3>2. Settled(rest, noAck')
      BY <1>4, <3>1, NoMarks DEF Settled
    <3> QED BY <1>1, <1>3, <1>4, <1>5, <1>6, <2>1, <2>3, <3>2, MoveTrust, Zenon
  <2> QED BY <1>6, <1>7, <1>12, <2>2, <2>3, Zenon DEF IInv, TrustInv, CalmInv
<1>13. PassedOver(m.b) \/ m.b = "+" \/ m.b = "-"
  BY Zenon DEF PassedOver
<1> QED BY <1>2, <1>8, <1>9, <1>10, <1>11, <1>12, <1>13, ZenonT(30)
   DEF ReadAck, PassedOver

\* The packet is read: its answer is used, or refused when it is damaged.
LEMMA ReadBodyStep ==
  ASSUME IInv, ReadBody
  PROVE  IInv'
<1>1. TypeOK /\ Shape /\ TrustInv /\ CalmInv
  BY DEF IInv
<1>2. PICK m \in Marks : m = Head(toC)
  BY <1>1, TailMarks DEF ReadBody, Shape
<1>3. PICK rest \in Seq(Marks) : rest = Tail(toC)
  BY <1>1, TailMarks, Zenon DEF ReadBody, Shape
<1>4. /\ stage = "body" /\ toC # <<>> /\ Among(rest) /\ Reads(rest)
      /\ UNCHANGED <<stubVars, mishaps, faults>>
      /\ toC \in Seq(Marks) /\ <<>> \in Preludes /\ <<Nak>> \in Preludes
      /\ stage \in Waiting
  BY <1>1, <1>3, AmongTail, Zenon
     DEF ReadBody, Reads, Among, Shape, Preludes, Waiting
<1>5. /\ mishaps' \in 0..MaxMishaps
      /\ faults' \subseteq {"ack", "reply", "unacked", "sign", "refused", "drop"}
  BY <1>1, <1>4 DEF TypeOK
<1>6. ASSUME Trust' PROVE Trust /\ HearInv /\ DownInv /\ FreshInv /\ ~stray /\ ~twice'
  BY <1>1, <1>4, <1>6 DEF Trust, TrustInv, stubVars
<1>7. ASSUME Calm' PROVE /\ Clean(toC) /\ CalmWait /\ CalmDown /\ Clean(rest)
                         /\ m.b = "#" => m.good
  <2>1. Clean(toC) /\ CalmWait /\ CalmDown
    BY <1>1, <1>4, <1>7 DEF Calm, CalmInv
  <2> QED BY <1>2, <1>3, <1>4, <2>1, TailClean
<1>8. CASE m.b # "#" /\ UNCHANGED <<conn, toD, clientVars>>
  <2>1. /\ toC' = Tail(toC) /\ stage' = stage /\ stage' \in Waiting
        /\ UNCHANGED <<conn, op, cmd, tries, sent, noAck, pid, stray, toD>>
    BY <1>3, <1>4, <1>8 DEF Reads, clientVars
  <2>2. TypeOK' /\ Shape'
    BY <1>1, <1>4, <1>5, <2>1, TailShape, Zenon
  <2>3. ASSUME Trust' PROVE AckInv' /\ HearInv' /\ RestInv' /\ DownInv' /\ FreshInv'
                            /\ ~stray'
    <3>1. HearInv'
      BY <1>4, <1>6, <2>1, <2>3, TailHear, Zenon
    <3>2. DownInv' /\ FreshInv' /\ ~stray'
      BY <1>4, <1>6, <2>1, <2>3, Zenon DEF DownInv, FreshInv, stubVars
    <3> QED BY <1>4, <2>1, <3>1, <3>2, Zenon DEF AckInv, RestInv
  <2>4. ASSUME Calm'
        PROVE  Clean(toC') /\ CalmRest' /\ CalmWait' /\ CalmClosed' /\ CalmDown'
    BY <1>4, <1>7, <2>1, <2>4, TailWait, Zenon
  <2> QED BY <1>6, <2>2, <2>3, <2>4 DEF IInv, TrustInv, CalmInv
<1>9. ASSUME m.b = "#"
      PROVE  /\ \E j \in 1..Len(toC) : toC[j] = m
             /\ m.rc \in {"ok", "err"}
             /\ HearInv => /\ m.re = sent /\ Mute(rest, 1) /\ toD = <<>> /\ pending = None
                           /\ ~noAck => Quiet(rest)
             /\ CalmWait => /\ Mute(rest, 1) /\ toD = <<>> /\ pending = None
                            /\ cmd = "D" => ~attached
                            /\ op \in {"close", "detach"} => cmd = "D"
                            /\ attached /\ ~pid =>
                                 op = "attach" /\ cmd = "vAttach" /\ m.rc = "ok"
  <2>1. m = toC[1] /\ 1 \in 1..Len(toC)
    BY <1>2, <1>4, TailMarks
  <2>2. m.rc \in {"ok", "err"}
    BY <1>2, <1>9, Zenon DEF Marks, Signals, Closings
  <2>3. ~Mute(toC, 1)
    BY <1>9, <2>1 DEF Mute
  <2>4. ASSUME HearInv
        PROVE  /\ m.re = sent /\ Mute(rest, 1) /\ toD = <<>> /\ pending = None
               /\ ~noAck => Quiet(rest)
    <3>1. Fits(toC, 1, sent) /\ toD = <<>> /\ pending = None /\ (~noAck => Quiet(toC))
      BY <1>4, <2>3, <2>4, Zenon DEF HearInv
    <3>2. m.re = sent /\ Mute(rest, 1)
      BY <1>2, <1>3, <1>4, <1>9, <3>1, TailFits, Zenon
    <3>3. ~noAck => Quiet(rest)
      BY <1>3, <1>4, <3>1, TailQuiet, Zenon
    <3> QED BY <3>1, <3>2, <3>3, Zenon
  <2>5. ASSUME CalmWait
        PROVE  /\ Mute(rest, 1) /\ toD = <<>> /\ pending = None
               /\ cmd = "D" => ~attached
               /\ op \in {"close", "detach"} => cmd = "D"
               /\ attached /\ ~pid =>
                    op = "attach" /\ cmd = "vAttach" /\ m.rc = "ok"
    <3>1. /\ Fits(toC, 1, sent) /\ toD = <<>> /\ pending = None
          /\ cmd = "D" => ~attached
          /\ op \in {"close", "detach"} => cmd = "D"
          /\ attached /\ ~pid =>
               op = "attach" /\ cmd = "vAttach" /\ m.rc = "ok"
      BY <1>4, <1>9, <2>1, <2>3, <2>5, Zenon DEF CalmWait
    <3>2. Mute(rest, 1)
      BY <1>2, <1>3, <1>4, <1>9, <3>1, TailFits, Zenon
    <3> QED BY <3>1, <3>2, Zenon
  <2> QED BY <2>1, <2>2, <2>4, <2>5, Zenon
<1>10. CASE /\ m.b = "#" /\ m.good /\ stray' = (stray \/ m.re # sent)
            /\ Answered(m.rc) /\ UNCHANGED op
  <2>1. PICK rc \in {"ok", "err"} : rc = m.rc
    BY <1>9, <1>10
  <2>2. /\ Move(<<>>) /\ noAck' \in BOOLEAN /\ pid' \in BOOLEAN
        /\ pid' = PidAfter(rc) /\ (Hangup => op = "close")
    BY <1>1, <1>10, <2>1, AnsweredMoves
  <2>3. TypeOK' /\ Shape'
    <3>1. op' \in Ops \cup {"new"} /\ stray' \in BOOLEAN
      BY <1>1, <1>10 DEF TypeOK, Shape
    <3> QED BY <1>1, <1>3, <1>4, <1>5, <2>2, <3>1, MoveShape, ZenonT(30)
  <2>4. ASSUME Trust' PROVE AckInv' /\ HearInv' /\ RestInv' /\ DownInv' /\ FreshInv'
                            /\ ~stray'
    <3>1. /\ m.re = sent /\ Mute(rest, 1) /\ toD = <<>> /\ pending = None
          /\ ~noAck => Quiet(rest)
      BY <1>6, <1>9, <1>10, <2>4, Zenon
    <3>2. noAck => noAck'
      BY <1>10, Zenon DEF Answered, NoAckAfter
    <3>3. Settled(rest, noAck')
      BY <3>1, <3>2, NoMarks DEF Settled
    <3>4. AckInv' /\ HearInv' /\ RestInv' /\ DownInv' /\ FreshInv'
      BY <1>1, <1>3, <1>4, <1>6, <2>2, <2>4, <3>3, MoveTrust, Zenon DEF Waiting
    <3> QED BY <1>6, <1>10, <2>4, <3>1, <3>4, Zenon
  <2>5. ASSUME Calm'
        PROVE  Clean(toC') /\ CalmRest' /\ CalmWait' /\ CalmClosed' /\ CalmDown'
    <3>1. /\ Mute(rest, 1) /\ toD = <<>> /\ pending = None
          /\ cmd = "D" => ~attached
          /\ op \in {"close", "detach"} => cmd = "D"
          /\ attached /\ ~pid =>
                                 op = "attach" /\ cmd = "vAttach" /\ m.rc = "ok"
      BY <1>7, <1>9, <1>10, <2>5, Zenon
    <3>2. attached => pid'
      BY <2>1, <2>2, <3>1, Zenon DEF PidAfter
    <3>3. All(toD, "k") /\ pending.cmd \in {"none", "k"} /\ (Hangup => ~attached)
      BY <2>2, <3>1, NoMarks, FrameKinds, Zenon
    <3> QED BY <1>1, <1>3, <1>4, <1>7, <2>2, <2>5, <3>1, <3>2, <3>3, MoveCalm, Zenon
  <2> QED BY <1>6, <2>3, <2>4, <2>5, Zenon DEF IInv, TrustInv, CalmInv
<1>11. CASE /\ m.b = "#" /\ ~m.good /\ Fail(IF noAck THEN <<>> ELSE <<Nak>>)
            /\ UNCHANGED <<op, noAck, pid, stray>>
  <2>1. PICK before \in Preludes : before = IF noAck THEN <<>> ELSE <<Nak>>
    BY <1>4
  <2>2. Move(before)
    BY <1>11, <2>1, FailMoves
  <2>3. last.re > 0
    <3>1. last.re # 0
      BY <1>1, <1>9, <1>11, Zenon DEF Shape
    <3>2. last.re \in Nat
      BY <1>1, Zenon DEF Shape, Answer
    <3> QED BY <3>1, <3>2
  <2>4. TypeOK' /\ Shape'
    <3>1. /\ op' \in Ops \cup {"new"} /\ noAck' \in BOOLEAN /\ pid' \in BOOLEAN
          /\ stray' \in BOOLEAN
      BY <1>1, <1>11, Zenon DEF TypeOK, Shape
    <3> QED BY <1>1, <1>3, <1>4, <1>5, <2>1, <2>2, <2>3, <3>1, MoveShape, Zenon
  <2>5. ASSUME Trust' PROVE AckInv' /\ HearInv' /\ RestInv' /\ DownInv' /\ FreshInv'
                            /\ ~stray'
    <3>1. /\ Mute(rest, 1) /\ toD = <<>> /\ pending = None
          /\ ~noAck => Quiet(rest)
      BY <1>6, <1>9, <1>11, <2>5, Zenon
    <3>2. Settled(rest, noAck') /\ noAck' \in BOOLEAN /\ (before # <<>> => ~noAck')
      BY <1>1, <1>11, <2>1, <3>1, NoMarks, Zenon DEF Settled, Shape
    <3>3. AckInv' /\ HearInv' /\ RestInv' /\ DownInv' /\ FreshInv'
      BY <1>1, <1>3, <1>4, <1>6, <2>1, <2>2, <2>5, <3>2, MoveTrust, Zenon DEF Waiting
    <3> QED BY <1>6, <1>11, <2>5, <3>3, Zenon
  <2> QED BY <1>6, <1>7, <1>11, <2>4, <2>5, Zenon DEF IInv, TrustInv, CalmInv
<1> QED BY <1>2, <1>8, <1>10, <1>11 DEF ReadBody

-----------------------------------------------------------------------------
(* The theorems *)

\* A session starts with nothing on its way.
LEMMA InitIInv == Init => IInv
<1> SUFFICES ASSUME Init PROVE IInv
  OBVIOUS
<1>1. /\ toC = <<>> /\ toD = <<>> /\ pending = None /\ None.n = 0 /\ None.cmd = "none"
      /\ toD \in Seq(Written) /\ toC \in Seq(Marks)
      /\ (\A i \in 1..Len(toC) : FALSE) /\ (\A i \in 1..Len(toD) : FALSE)
      /\ Quiet(toC) /\ Mute(toC, 1) /\ Clean(toC) /\ \A c : All(toD, c)
  BY NoMarks, FrameKinds, SMT, SMTT(30) DEF Init
<1>2. last \in Answer /\ last.re = 0
  BY Zenon DEF Init, Answer, Signs
<1>3. TypeOK
  BY <1>1, RspAssumption, SMT, SMTT(30) DEF Init, TypeOK, Ops
<1>4. Shape
  <2>1. /\ noAck \in BOOLEAN /\ pid \in BOOLEAN /\ attached \in BOOLEAN
        /\ stray \in BOOLEAN /\ twice \in BOOLEAN
    BY Zenon DEF Init
  <2>2. last.re <= sent /\ cmd = "none" /\ stage \notin Waiting
    BY <1>2, SMT, SMTT(30) DEF Init, Waiting
  <2> QED BY <1>1, <1>2, <2>1, <2>2 DEF Shape
<1>5. TrustInv
  BY <1>1, Zenon
     DEF Init, TrustInv, AckInv, HearInv, RestInv, Settled, DownInv, FreshInv
<1>6. CalmInv
  BY <1>1 DEF Init, CalmInv, CalmRest, CalmWait, CalmClosed, CalmDown, Waiting
<1> QED BY <1>3, <1>4, <1>5, <1>6 DEF IInv

\* Every step of the client, the stub and the connection keeps the invariant.
LEMMA NextIInv == IInv /\ [Next]_vars => IInv'
<1> SUFFICES ASSUME IInv, [Next]_vars PROVE IInv'
  OBVIOUS
<1>1. CASE UNCHANGED vars
  <2>1. /\ UNCHANGED <<conn, toD, toC, mishaps, faults>>
        /\ UNCHANGED <<stage, op, cmd, tries, sent, noAck, pid, stray>>
        /\ UNCHANGED <<pending, last, attached, done, twice>>
    BY <1>1 DEF vars, clientVars, stubVars
  <2>2. TypeOK' /\ Shape'
    <3>1. TypeOK'
      BY <2>1, ZenonT(30) DEF IInv, TypeOK
    <3>2. Shape'
      BY <2>1 DEF IInv, Shape
    <3> QED BY <3>1, <3>2, Zenon
  <2>3. TrustInv'
    BY <2>1, Zenon
       DEF IInv, TrustInv, Trust, AckInv, HearInv, RestInv, Settled, DownInv,
                FreshInv, Current
  <2>4. CalmInv'
    BY <2>1, Zenon
       DEF IInv, CalmInv, Calm, CalmRest, CalmWait, CalmClosed, CalmDown, Current
  <2> QED BY <2>2, <2>3, <2>4, Zenon DEF IInv
<1>2. CASE Call
  BY <1>2, BeginStep DEF Call
<1>3. CASE Client
  BY <1>3, ReadAckStep, ReadStartStep, ReadBodyStep, TimeoutStep, ReadFailsStep DEF Client
<1>4. CASE Stub
  BY <1>4, StubReadsStep, StubNakedStep, StubRepliesStep, StubKillsStep DEF Stub
<1>5. CASE Drop
  BY <1>5, DropStep
<1> QED BY <1>1, <1>2, <1>3, <1>4, <1>5 DEF Next

\* The invariant holds throughout.
LEMMA SpecIInv == Spec => []IInv
  BY InitIInv, NextIInv, PTL DEF Spec

\* Every frame and every answer on its way carries the number of a command the
\* session has sent, and SendPacket's loop never exceeds its transmissions.
THEOREM TypeCorrect == Spec => []TypeOK
<1>1. IInv => TypeOK
  BY DEF IInv
<1> QED BY <1>1, SpecIInv, PTL

\* Whatever the stub is slow with, damages or sends again: as long as the stream
\* can be trusted, the answer RSP.Command hands to a method is the answer to the
\* command that method sent.
THEOREM AnswersAreOwn == Spec => []OwnReply
<1>1. IInv => OwnReply
  BY DEF IInv, TrustInv, OwnReply
<1> QED BY <1>1, SpecIInv, PTL

\* However often SendPacket sends a frame again after a NAK, the stub carries its
\* command out once, as long as the stream can be trusted.
THEOREM CarriedOutOnce == Spec => []AtMostOnce
<1>1. IInv => AtMostOnce
  BY DEF IInv, TrustInv, AtMostOnce
<1> QED BY <1>1, SpecIInv, PTL

\* Session.Close leaves no process attached when no answer was lost, damaged,
\* late or a refusal on the way there: the D that Close and Detach send reaches
\* a stub that has carried out every command before it.
THEOREM CloseDetaches == Spec => []LeavesDetached
<1>1. IInv => LeavesDetached
  BY DEF IInv, CalmInv, Calm, CalmClosed, LeavesDetached
<1> QED BY <1>1, SpecIInv, PTL

=============================================================================
