---------------------------- MODULE TracingProxy ----------------------------
(***************************************************************************)
(* One session of a tracing proxy: internal/proxy/proxy.go and             *)
(* cmd/dsmsg-proxy.  Two pumps, each named after the side it reads from,   *)
(* copy bytes between two sockets; the dsmsg-proxy also feeds them to a    *)
(* FrameScanner per direction and logs the frames it finds.  Sessions      *)
(* share nothing, so one is enough.  The two ends and TCP are external:    *)
(* they write frames, stop writing, or vanish.  `wrote', `sent', `got' and *)
(* `seen' are history.                                                     *)
(***************************************************************************)
EXTENDS DsmsgCodec

CONSTANTS Payloads,   \* what each of the two ends may send
          MaxFrames,  \* bound: frames of each side
          Window      \* bound: a socket that holds this many unread bytes takes no more

Sides == {"client", "target"}
Peer(s) == IF s = "client" THEN "target" ELSE "client"

ASSUME ProxyAssumption ==
  /\ \A s \in Sides : Payloads[s] \subseteq Seq(0..255)
  /\ MaxFrames \in [Sides -> Nat]
  /\ Window \in Nat \ {0}

VARIABLES
  dial,   \* the proxy's connection to the target: "dialing", "up" or "failed"
  open,   \* the proxy's sockets
  ended,  \* "no", "eof" once a side has stopped writing, "gone" once it vanished
  inbox,  \* bytes of each side the pump has not read
  chunk,  \* what each pump has read and not yet written
  pump,   \* "read", "write" or "done"
  outbox, \* bytes on their way to each side
  buf,    \* FrameScanner.buf of each pump
  logged, \* the frames each pump has logged
  wrote,  \* the payloads each side has sent
  sent,   \* and the bytes that is
  got,    \* the bytes each side has received
  seen    \* how many bytes each pump has passed on

\* The beginnings of a stream: what a read may return of it, or a reset leave.
Beginnings(w) == {SubSeq(w, 1, n) : n \in 0..Len(w)}

netVars == <<open, inbox, outbox>>
vars == <<dial, netVars, ended, chunk, pump, buf, logged, wrote, sent, got, seen>>

-----------------------------------------------------------------------------
(* The two ends *)

\* The frames, computed once.
Framed == [p \in UNION {Payloads[s] : s \in Sides} |-> frame(p)]

\* The bytes that a side puts on the wire for these payloads.
Written(ps) == Chain([i \in DOMAIN ps |-> Framed[ps[i]]])

\* A side writes a frame.  On a socket the proxy has closed, the write draws a
\* reset, which may overtake what the side has not received yet.
Writes(s, p) ==
  /\ ended[s] = "no"
  /\ Len(wrote[s]) < MaxFrames[s]
  /\ wrote' = [wrote EXCEPT ![s] = Append(@, p)]
  /\ sent' = [sent EXCEPT ![s] = @ \o Framed[p]]
  /\ IF open[s]
     THEN inbox' = [inbox EXCEPT ![s] = @ \o Framed[p]] /\ UNCHANGED outbox
     ELSE \E w \in Beginnings(outbox[s]) :
            outbox' = [outbox EXCEPT ![s] = w] /\ UNCHANGED inbox
  /\ UNCHANGED <<dial, open, ended, chunk, pump, buf, logged, got, seen>>

\* It has nothing more to say, and still listens.
Shuts(s) ==
  /\ ended[s] = "no"
  /\ ended' = [ended EXCEPT ![s] = "eof"]
  /\ UNCHANGED <<dial, netVars, chunk, pump, buf, logged, wrote, sent, got, seen>>

\* It vanishes; some of what it wrote may never arrive.
Vanishes(s) ==
  /\ ended[s] # "gone"
  /\ ended' = [ended EXCEPT ![s] = "gone"]
  /\ \E w \in Beginnings(inbox[s]) : inbox' = [inbox EXCEPT ![s] = w]
  /\ outbox' = [outbox EXCEPT ![s] = <<>>]
  /\ UNCHANGED <<dial, open, chunk, pump, buf, logged, wrote, sent, got, seen>>

Receives(s) ==
  /\ outbox[s] # <<>>
  /\ got' = [got EXCEPT ![s] = @ \o outbox[s]]
  /\ outbox' = [outbox EXCEPT ![s] = <<>>]
  /\ UNCHANGED <<dial, open, inbox, ended, chunk, pump, buf, logged, wrote, sent, seen>>

-----------------------------------------------------------------------------
(* The proxy *)

\* Variant of Dials: a failed dial leaves the client's connection open.
DialsLeaky(ok) ==
  /\ dial = "dialing"
  /\ IF ok THEN /\ dial' = "up"
                /\ pump' = [s \in Sides |-> "read"]
                /\ open' = [s \in Sides |-> TRUE]
           ELSE /\ dial' = "failed"
                /\ UNCHANGED <<open, pump>>
  /\ UNCHANGED <<inbox, outbox, ended, chunk, buf, logged, wrote, sent, got, seen>>

\* handle: the target is dialled before a byte is read; on failure the client's
\* connection is closed and there is no pump.
Dials(ok) ==
  /\ dial = "dialing"
  /\ IF ok THEN /\ dial' = "up"
                /\ pump' = [s \in Sides |-> "read"]
                /\ open' = [s \in Sides |-> TRUE]
                /\ UNCHANGED inbox
           ELSE /\ dial' = "failed"
                /\ open' = [s \in Sides |-> FALSE]
                /\ inbox' = [inbox EXCEPT !["client"] = <<>>]
                /\ UNCHANGED pump
  /\ UNCHANGED <<outbox, ended, chunk, buf, logged, wrote, sent, got, seen>>

\* Variant of Reads: one byte more is taken than is kept.
ReadsLosesByte(s) ==
  /\ pump[s] = "read" /\ open[s]
  /\ \E w \in Beginnings(inbox[s]) \ {<<>>} :
       /\ chunk' = [chunk EXCEPT ![s] = w]
       /\ inbox' = [inbox EXCEPT ![s] = SubSeq(@, Len(w) + 2, Len(@))]
  /\ pump' = [pump EXCEPT ![s] = "write"]
  /\ UNCHANGED <<dial, open, outbox, ended, buf, logged, wrote, sent, got, seen>>

\* Read returns some of what has arrived.
Reads(s) ==
  /\ pump[s] = "read" /\ open[s]
  /\ \E w \in Beginnings(inbox[s]) \ {<<>>} :
       /\ chunk' = [chunk EXCEPT ![s] = w]
       /\ inbox' = [inbox EXCEPT ![s] = SubSeq(@, Len(w) + 1, Len(@))]
  /\ pump' = [pump EXCEPT ![s] = "write"]
  /\ UNCHANGED <<dial, open, outbox, ended, buf, logged, wrote, sent, got, seen>>

\* The chunk is written, the outcome of the write ignored, and scanned.
Forwards(s) ==
  LET p == Peer(s)
      f == Feed(buf[s] \o chunk[s])
  IN
  /\ pump[s] = "write"
  /\ open[p] => Len(outbox[p]) < Window
  /\ outbox' = [outbox EXCEPT ![p] = IF open[p] /\ ended[p] # "gone" THEN @ \o chunk[s] ELSE @]
  /\ buf' = [buf EXCEPT ![s] = f.buf]
  /\ logged' = [logged EXCEPT ![s] = @ \o f.raws]
  /\ seen' = [seen EXCEPT ![s] = @ + Len(chunk[s])]
  /\ chunk' = [chunk EXCEPT ![s] = <<>>]
  /\ pump' = [pump EXCEPT ![s] = "read"]
  /\ UNCHANGED <<dial, open, inbox, ended, wrote, sent, got>>

\* Variant of AtEnd: end of file is seen before the last bytes are read.
AtEndEarly(s) == ~open[s] \/ ended[s] # "no"

\* Read returns an error: the other pump has closed the socket, or the side has
\* ended and all it sent has been read.
AtEnd(s) == ~open[s] \/ (ended[s] # "no" /\ inbox[s] = <<>>)

\* Variant of Closes: only the writing half of the socket is closed.
ClosesWriting(p) == UNCHANGED netVars

\* dst.Close: unread bytes of that side turn the end into a reset, which may
\* overtake what was written to it.
Closes(p) ==
  /\ open' = [open EXCEPT ![p] = FALSE]
  /\ inbox' = [inbox EXCEPT ![p] = <<>>]
  /\ \E w \in IF inbox[p] = <<>> THEN {outbox[p]} ELSE Beginnings(outbox[p]) :
       outbox' = [outbox EXCEPT ![p] = w]

\* The pump closes the other socket, both directions of it, and ends.
Ends(s) ==
  /\ pump[s] = "read" /\ AtEnd(s)
  /\ Closes(Peer(s))
  /\ pump' = [pump EXCEPT ![s] = "done"]
  /\ UNCHANGED <<dial, ended, chunk, buf, logged, wrote, sent, got, seen>>

-----------------------------------------------------------------------------
(* The specification *)

Init ==
  /\ dial = "dialing"
  /\ open = [s \in Sides |-> s = "client"]
  /\ ended = [s \in Sides |-> "no"]
  /\ pump = [s \in Sides |-> "done"]
  /\ inbox = [s \in Sides |-> <<>>] /\ outbox = inbox /\ chunk = inbox
  /\ buf = inbox /\ logged = inbox /\ wrote = inbox /\ sent = inbox /\ got = inbox
  /\ seen = [s \in Sides |-> 0]

Connects == \E ok \in BOOLEAN : Dials(ok)
Pump(s) == Reads(s) \/ Forwards(s) \/ Ends(s)

Next ==
  \/ Connects
  \/ \E s \in Sides : \/ Pump(s) \/ Shuts(s) \/ Vanishes(s) \/ Receives(s)
                      \/ \E p \in Payloads[s] : (s = "client" \/ dial = "up") /\ Writes(s, p)

\* A dial ends, a pump that can go on goes on, and the two ends read what they
\* are sent: no write of a pump has a deadline, so without that it may block.
Spec ==
  /\ Init /\ [][Next]_vars
  /\ WF_vars(Connects)
  /\ \A s \in Sides : WF_vars(Pump(s)) /\ WF_vars(Receives(s))

-----------------------------------------------------------------------------
(* Properties *)

\* A pump holds a chunk exactly while it writes it, and a closed socket has
\* nothing left to be read (pump, handle).
TypeOK ==
  /\ dial \in {"dialing", "up", "failed"}
  /\ open \in [Sides -> BOOLEAN]
  /\ ended \in [Sides -> {"no", "eof", "gone"}]
  /\ pump \in [Sides -> {"read", "write", "done"}]
  /\ \A s \in Sides : /\ (chunk[s] # <<>>) = (pump[s] = "write")
                      /\ inbox[s] # <<>> => open[s]
                      /\ dial = "failed" => ~open[s]

\* What reaches a side is what the other wrote, byte for byte and in order, and
\* while both sockets are open nothing is missing (pump).
Verbatim ==
  \A s \in Sides :
    LET p == Peer(s) IN
    /\ got[p] \o outbox[p] \in Beginnings(sent[s])
    /\ open[s] /\ open[p] /\ "gone" \notin {ended[s], ended[p]} =>
         sent[s] = got[p] \o outbox[p] \o chunk[s] \o inbox[s]

\* However the stream is cut into reads, the log of a direction holds exactly
\* the payloads whose frames have passed, in order (FrameScanner.Feed, frame).
TraceIsTraffic ==
  \A s \in Sides :
    LET whole == {n \in 0..Len(wrote[s]) : Len(Written(SubSeq(wrote[s], 1, n))) <= seen[s]}
    IN [i \in DOMAIN logged[s] |-> payload(logged[s][i])]
         = SubSeq(wrote[s], 1, CHOOSE n \in whole : \A m \in whole : m <= n)

\* All that a side sent before it stopped reaches a peer that is silent and
\* stays (pump closes the peer's socket only after its last chunk).
LastWordsArrive ==
  \A s \in Sides :
    LET p == Peer(s) IN
    pump[s] = "done" /\ dial = "up" /\ ended[s] = "eof" /\ ended[p] = "no"
      /\ wrote[p] = <<>> /\ outbox[p] = <<>>
    => got[p] = sent[s]

\* When either end stops or vanishes the session is over before long: both pumps
\* have returned and both sockets are closed (the dst.Close of pump, handle).
SessionEnds ==
  (\E s \in Sides : ended[s] # "no") ~> (\A s \in Sides : pump[s] = "done" /\ ~open[s])
=============================================================================
