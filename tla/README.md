# A TLA+ model of qnx8-qconn-mcp

The program is an MCP server (Go) that lets a client inspect, control and debug
a QNX 8 target. It reaches the target over two stateful protocols: qconn, a
prompt-framed text protocol on one pooled TCP connection, and DSMSG, the framed
protocol of pdebug, one connection per debug session. What is hard to get right
is in between: request/response alignment on streams that time out, end early
or carry unrelated data, and handlers that run concurrently over shared
connections and tables. That is what the modules describe.

## Inventory

| Part | Source | Module | Status |
|---|---|---|---|
| qconn client: dial, services, file, cntl | `internal/qconn/{client,framing,file,cntl}.go` | `QconnClient` (abstract: `SerialClient`), `QconnFraming`, `FileTransfer` | modelled |
| launcher exec and pidin parsers | `internal/qconn/{launcher,sysinfo}.go` | `QconnFraming`, `Pidin`, a step of `McpServer` | partly |
| process memory through `/proc/<pid>/as` | `internal/qconn/proc.go` | `FileTransfer`, `QconnClient` | partly (no map parser) |
| mock qconn daemon | `internal/mockqnx/{server,shell}.go` | the daemons of `QconnClient`, `QconnFraming`, `FileTransfer` | partly (no shell) |
| MCP server, all tool handlers, main | `internal/mcpserver/*.go`, `cmd/qconn-mcp` | `McpServer` | modelled |
| DSMSG debug client | `internal/qnxdbg/{client,commands}.go` | `DsmsgClient`, `FileTransfer` | modelled |
| mock pdebug | `internal/mockqnx/dsmsg.go` | the target of `DsmsgClient` | partly (no contents) |
| DSMSG wire codec, passive decoder | `internal/qnxdbg/{protocol,decode}.go` | `DsmsgCodec` | partly (no rendering of log lines) |
| serial transport | `internal/qnxdbg/serial.go` | constant `UseSerial` | partly |
| RSP client, pdebug manager | `internal/debug/*.go`, `internal/mockqnx/rsp.go` | `RspClient`, `RspCodec`, `SpawnPdebug` of `McpServer` | modelled |
| tracing proxies | `internal/proxy`, `cmd/{dsmsg,qconn}-proxy` | `TracingProxy`, `DsmsgCodec` | modelled |
| configuration | `internal/config` | `Config` | modelled |
| logging, command-line helpers, benchmark, scripts | `internal/obs`, `cmd/{dbgprobe,mock-qconn}`, `bench`, `qemu-test`, `support_tools` | none | not modelled |

`PROJECT.json` gives the source lines of every definition, the mutants that
show that each property can fail, the findings and the hazards.

## Modules and how they correspond to the code

### QconnClient

Goroutines share one `Client`. A method holds `Client.mu` (`mu`) from its first
command to its return; `stage` is the command, or the part of a response, its
goroutine is blocked on. A client action is all the code between two blocking
reads: take what was waited for off the stream, decide, write the next command.

* `current`, `info`, `fd` are the fields of the same names; `svc` and `fds` are
  the daemon's service and open descriptors.
* `toD` and `toC` are the two directions of the TCP stream. A reply is a status
  line, a possible payload and the prompt. `readUntilPrompt` takes a whole block
  (`TakeBlock`), `readResponseLine` a line (`LineAt`, `AfterLine`), so a read
  that gives up leaves the rest for whoever reads next. `noise` is the
  linemode/echo error line the daemon writes after its first prompt.
* The daemon carries a command out (`Serve`) or answers with an error
  (`Refuse`); the network may cut the stream at any place (`Drop`).
* `performed`, `relied` and `faults` are history: commands carried out, commands
  whose success the running method reports, and the ways in which a read has
  stopped inside a response (deadline, refused write, a read status without a
  count, EOF taken for a prompt).

Abstractions: a status line arrives whole and telnet bytes are left out (both
are `QconnFraming`'s subject); a `w` command carries its data; a write on a dead
socket is reported by the read that follows; a refused close frees the
descriptor; a reply is finite. The chunk loops run as long as `MaxSent` lets
them; their offsets and contents are `FileTransfer`'s subject.

`SerialClient` is what the client promises: one method at a time, numbered
commands, each carried out at most once and only while its method waits for it,
successes relied on only afterwards, until trust in the stream is lost.

### QconnFraming and Pidin

`QconnFraming` is the same connection a level lower, without faults: the daemon's
bytes wait on the `wire`, TCP moves them to `bufio.Reader`'s buffer in pieces of
any size (`Fill`), and `readByte` with `handleIAC` (`Telnet`, `Negotiate`),
`readUntilPrompt` (`Block`), `readResponseLine` (`Line`), `readN` (`Payload`) and
`readUntilIdle` (`Stream`, `Idle`) take them off one at a time. A byte is a token
for what the reader tells apart. What matters is where pieces are cut: the space
after a prompt is taken only if it is already buffered (`AfterPrompt`), and the
rest of it meets the next reader. A run is started or refused (`Starts`) and what
the daemon has to say of it comes in pieces (`Sends`), OK line and refusal
included; `Idle` may happen whenever nothing has arrived, which is what a slow
daemon or a slow command looks like. `ExecResult` then has all four ways in which
`Exec` reads what it got: with or without a complete first line, with or without a
pid in it.

`Pidin` has the parsers of the listings that `Exec` returns, with every field they
report, applied to listings that were cut off anywhere, between fields and inside
one, because an idle pause cuts them. A word cut short is another word.

### FileTransfer

The six loops that move a file or memory in chunks, one variable per local of the
loop. The target delivers or accepts as much as it likes of each piece, refuses,
or lets a piece land and fails to say so; another process makes the file grow or
shrink between two pieces. A file is a function from positions to bytes, so that
the properties are about contents and not only lengths. `ReadFile` asks for the
reported size, which may be 0 (files under `/proc`).

### McpServer and Config

Workers run tool handlers, `Main` runs `main`. `mu`, `cmu[c]` and `smu[i]` are
`Server.mu`, the `Client.mu` of connection `c` and the `qnxSession.mu` of
session `i`; sections of `dbgMu` never block and are single steps. `conn`,
`mgr`, `sessions` and `seq` are the fields of `Server` and `sessionSeq`; `open`,
`up`, `closed` and `failed` tell which connections and sessions are open at
which end and which were seen broken. `client`, `cli`, `resetClient`, attach,
launch, the session tools, detach, `Close` and the five-second shutdown of
`main` are split where they take or release a mutex or do I/O.

A method of the qconn client is one critical section here (its inside is
`QconnClient`), `Exec` is one step because it has a connection of its own, and a
debug exchange is one step (its inside is `DsmsgClient`). Arguments refused
before any state changes (bad hex, bad base64, a signal out of range) are left
out. A nil manager panics: the goroutine goes to `panicked`.

`Config` has `config.Load`: defaults, YAML file, environment and flags in two
passes over the command line. Four settings stand for the ways a setting can be
given. It holds operators only; its property is evaluated in the initial state
of the server that starts from it.

### DsmsgClient

One session as the handlers drive it under `qnxSession.mu`: handshake, then
tools as scripts of commands (`Script`). `readResponse` passes over control and
text frames and returns the first other frame; `Continue` and `Step` then read
one more frame as the stop. Message ids are left out because the code never
compares them. A deadline that passes inside a frame leaves its rest as a `Bad`
frame. The target answers or refuses, the process stops, exits or prints (only
a program that pdebug loaded prints over the session), the link drops.
Commands sent once per chunk or string repeat up to `MaxSent` (`Repeated`). The
methods `Kill` and `Stop` are used by no tool. `passed` and `tpassed` are the
signal tables of the session (`sigTable`) and of the target: the handler changes
its own in place and sends a copy, so a refused `HandleSig` leaves them apart
(`settled` is false) until the next one is acknowledged.

### RspClient and RspCodec

A session of `internal/debug` and the stub. The stream to the client is made of
marks: the signs, the opening `$`, the closing `#` with its checksum. A sign in a
payload is the same byte as an acknowledgement, so a reader that is out of step
can be fooled, and the model lets it be. `SendPacket` waits for the sign and
sends again after a NAK (`Issue`, `ReadAck`), `ReadPacket` skips to a packet and
refuses a damaged one (`ReadStart`, `ReadBody`); the methods go on as `Answered`
and `Fail` say. The stub acknowledges, carries out, answers, damages, repeats
after a NAK; deadlines pass and the link drops (`MaxMishaps` of these in all).
`RspCodec` has escaping, run lengths, checksum and hexadecimal digits on real
byte values.

### DsmsgCodec and TracingProxy

`DsmsgCodec` has checksum, escaping and framing on real byte values, `readFrame`,
and `FrameScanner.Feed`. `TracingProxy` is a session of a proxy: the dial, a pump
per direction (read, write, scan), and a pump's last act of closing the other
side's socket. Closing a socket with unread bytes, or writing to a closed one,
resets it, and a reset may overtake bytes on their way. The ends write whole
frames; TCP cuts them. The two proxies differ only in what they log; the model
logs what dsmsg-proxy does.

## Runs

Passing:

| Run | Instance | Shows |
|---|---|---|
| `QconnClient` | 2 callers, 2 commands before the bound | `OwnReply`, `ServiceAgrees`, `SuccessIsReal`, `NoDescriptorLeft`, `NoiseNeverStatus`, `ImplementsSerial` (refinement of `SerialClient`), `CallsReturn` |
| `QconnFraming` | greeting and 3 commands, 3 payloads, 3 negotiations, a pid of two digits | `RepliesExact`, `InStep`, `ExecPrefix`, `CallsReturn`; on operators `CommandsStripped`, `CutListingsAreTrue` |
| `FileTransfer` | files up to 4 bytes, chunks of 2 (memory: 1) | `ReadContiguous`, `ReadComplete`, `WriteExact`, `EveryPieceMoves`, no deadlock |
| `McpServer_safety` | 2 workers, 3 connections, 3 sessions | `PoolConsistent`, `NoLostSession`, `NoDeadSession`, `FreshIds`, no deadlock |
| `McpServer_liveness` | 2 workers, 2 connections, 1 session | `CallsReturn`, `ShutdownCompletes`; on operators `Precedence` |
| `DsmsgClient` | 7 commands, 2 unread frames, 2 signals | `OwnAnswer`, `RestsBetweenTools`, `SignalsAgree`, `QuietToolsReturn` |
| `RspClient` | 4 commands, 2 transmissions, 2 mishaps | `OwnReply`, `AtMostOnce`, `LeavesDetached`; on operators `PacketsFaithful` |
| `TracingProxy` | 2 frames one way, 1 the other, sockets that fill up | `Verbatim`, `TraceIsTraffic`, `LastWordsArrive`, `SessionEnds`; on operators `FrameRoundTrip` |

`RspClient`, `TracingProxy` and `QconnFraming` also check their type invariants;
those of the other modules are proved only.

Runs that show a comment or a description the code does not keep:

| Run | Statement | What happens |
|---|---|---|
| `QconnClient_write` | a failed chunk resyncs (`file.go:96`) | `writeAt` leaves the prompt; later answers are off by one |
| `QconnClient_timeout` | exchanges are serialised (`client.go:52`) | after a timeout the late answer goes to a later method |
| `McpServer_manager` | `cli` ensures `s.mgr` (`tools_debug.go:171`) | another handler's reset makes it nil |
| `McpServer_redial` | the next call redials (`server.go:121`) | the broken connection is handed out again |

### What the properties leave open

Several properties have a hypothesis, because the code does not give more. The
models contain the excluded behaviour too; it is described here and has no run
of its own.

* `QconnClient`: an EOF inside a response counts as its end, and `Info` caches
  what was read so far. `leaveService` takes a block with any prompt for the
  broker's. A read status whose count does not parse is returned as an error
  without reading the rest of the answer (`file.go:107-110`, fault `count`).
* `DsmsgClient`: after a timeout the late reply or stop is returned as the answer
  to the next command, because message ids are not compared. `Continue` returns at
  the deadline while the process runs on. Program output extends a tool's wait.
* `RspClient`: a wait abandoned before its acknowledgement, or in
  no-acknowledgement mode, puts the session out of step, and a `+` or `-` inside a
  late packet is taken for an acknowledgement, after which a command may be carried
  out twice. The fallback of `Attach` succeeds whatever the stub says. `Detach`
  forgets the process before it looks at the refusal, so `Close` does not try again.
* `FileTransfer`: the count returned with a write error is a lower bound, since the
  failed piece may have landed. A write that accepts nothing ends without an error.
  A file that reports no size and grows as fast as it is read is read without end.
* `QconnFraming`: the telnet filter stays on for the life of the connection, and it
  drops a literal 0xFF. `Exec` ends at the first pause longer than the idle limit,
  whether or not the command has exited. If the pause is inside the OK line, the pid
  is cut short, or the `OK` itself is reported as output; and the text of a refused
  start is reported as the output of the command, without an error. `ExecPrefix`
  says that nothing else can be mistaken.
* `stripIAC` does not do all that its comment says ("returning just the application
  data", `framing.go:251-252`). It takes an escaped 0xFF followed by an SE byte for
  the end of a subnegotiation, so what follows inside the subnegotiation stays in the
  output of `Exec`; `handleIAC` pairs the two 0xFF and reads on to the real end.
  `CommandsStripped` states both results exactly, for these and for all other
  commands.
* `Pidin`: `ProcessInfo` returns the only process listed even if it has another pid.
  The last row of a cut listing may have a thread state or a blocker that is cut
  short, or lack the blocker, and in a memory listing the last row's sizes are
  whatever its last three fields are. `CutListingsAreTrue` allows exactly this.
* `RspCodec`: `fromHex` reads any character that is no digit as zero. A body byte
  damaged into a `#` can therefore end a packet early with digits that agree
  (`$OK#9a` with its `O` damaged is an empty packet); `PacketsFaithful` shows that
  no more than a beginning of the payload is accepted. A damaged `#` makes the packet
  run on into the next one, which is not examined.
* `DsmsgCodec`: `FrameScanner.Feed` removes the checksum without comparing it, though
  its comment says "verified payloads" (`decode.go:120`). `TraceIsTraffic` is about
  streams of well-formed frames, where this makes no difference.
* `TracingProxy`: `dst.Close` closes both directions, so what the other end writes
  after its peer's last word is lost. A pump's write has no deadline and blocks
  while the receiver does not read.
* `Config`: `-config` after another flag is accepted and its file ignored, since the
  first pass stops at a flag it does not know; `Precedence` is about command lines
  that give it first.
* `McpServer`: a handler whose dial failed may close a healthy connection dialled
  meanwhile, and an attach still under way may enter its session after `Close` has
  emptied the table.

### Bounds

`MaxSent` stops new calls and further chunks, never a cleanup: a method that
began may exceed it. Two qconn commands in `QconnClient` allow a service change
followed by a complete file operation of the other caller; the safety properties
and the refinement are proved for every bound, so the small run is there for
`CallsReturn` and for the mutants, and the two violation runs use four. Two
callers are enough for one to hold the mutex while another waits; two workers let
one reset while another dials or attaches, and the proofs cover any number. Three
connections give a dropped one, its successor and a redial of that; three sessions
give one in the table, one being detached and one being created. Seven DSMSG commands leave five after the handshake: attach and select,
or a whole launch, then two or three tool commands. `MaxQueue` bounds only printed
text. Four RSP commands are NewSession, an attach with its fallback or a step,
and a detach; `MaxTries` is 2 instead of 5, so that giving up happens, and two
mishaps combine a damaged packet with a missed deadline; the proofs cover all
bounds. Files of four bytes with
chunks of two have a first, a middle and a last piece at an odd length; the proofs
cover all sizes. Three qconn commands give each kind of read a predecessor of each
other kind. The proxy's payloads are an empty frame and one whose checksum needs
escaping; `Window = 1` makes every second write block. The proofs cover all
payloads and windows.

The runs other than `McpServer` and `FileTransfer` do not check deadlock, because
a bounded run really stops: the dial has failed, the commands are used up, the
session is over. Server runs use TCP (`UseSerial = FALSE`), where `s.mgr`
matters; the proofs cover both.

### Fairness

Every read of the qconn and DSMSG protocols is preceded by `SetDeadline` (the
configured timeout is positive, 30 s by default), so a blocked call goes on: weak
fairness of the client's own steps. This is certain for TCP; on a serial line it
depends on the Go runtime, because `serial.go` calls `os.File.Fd`. `sync.Mutex`
hands over to a starving waiter: strong fairness of the steps that enter a
critical section. Deadlines are per byte, though, so what the target sends has to end for
a call to end. In `QconnClient` an answer is finite, and nothing else is assumed of
the daemon or of the network: it may answer anything, or nothing. In `McpServer` the
same is assumed of the greeting that `Dial` reads. A method or an `Exec` that is
under way may last for ever there, and that they do not is a hypothesis of the
properties: `MethodsEnd` (no pooled method does, which `ReadFile` can on a file that
reports no size and never ends), and in `CallsReturn` for the caller's own `Exec`
only (`readUntilIdle` restarts its clock with every read, so a command that keeps
printing keeps it). Nothing at all is assumed of a debug exchange. `QuietToolsReturn`
has the hypothesis that the program eventually stops printing: text frames restart
the deadline.

`QconnFraming` has no timeouts, so there the daemon is assumed to answer; what
`CallsReturn` says is that no read waits for a byte an earlier read has consumed.
`TracingProxy` assumes that a dial ends, that a pump which can go on does, and that
both ends read what they are sent. `RspClient` and `FileTransfer` have no liveness
property; `EveryPieceMoves` bounds the pieces by the bytes moved.

## Proofs

All theorems are for any sets of callers or workers and any bounds, from the
assumptions named in the modules (`ClientAssumption`, `ServerAssumption`: the
"nobody" values are no processes, bounds are naturals; `SessionAssumption`;
`TransferAssumption`: chunk sizes are positive; `RspAssumption`;
`ProxyAssumption`: payloads are bytes, a window is not empty). A component's
proofs `EXTEND` its module; each states the inductive invariant, the facts about
the streams it needs, one lemma per action, and at the end the theorems.

* `QconnClientProofs`: `TypeOK`; `NoiseNeverStatus`, from `NoiseInv` (the noise
  line is gone before a descriptor is open); and, from `IInv`, the properties
  `OwnReply`, `ServiceAgrees`, `SuccessIsReal`, `NoDescriptorLeft`. None of
  these four is inductive: a reply only matches if the command before it was
  the only thing in the stream, and a success is only real if the reply was
  written in the service the client believes in. `IInv` therefore says, while
  no fault is noted, that exactly one exchange is under way (`StreamInv`), what
  its reply says about the command (`ReplyInv`), where the daemon is at every
  stage (`ServiceInv`) and which descriptors are open (`HandleInv`).
  `RefinesSerial`, `Spec => ImplementsSerial`, follows from the same invariant.
  A step that notes a fault ends all promises; any other maps to `Begin`,
  `Perform`, `Proceed`, `Finish` or a stutter.
* `McpServerProofs`: `TypeOK`, `PoolConsistent`, `NoLostSession`,
  `NoDeadSession`, `FreshIds`. The strengthening ties each mutex to the place
  of its holder (`MutexInv`, `UseInv`) and bounds what a handler has in hand at
  each place (`HandInv`); the rest follows one action at a time.
* `DsmsgClientProofs`: `TypeOK`, `OwnAnswer`, `RestsBetweenTools`, `SignalsAgree`.
  Since no message id is compared, an answer is the right one only if nothing
  else can be in the stream. `IInv` says, while no read has timed out, that every
  answer in the stream belongs to the last command and a stop follows its reply
  (`FramesInv`), that at most that command is on its way to pdebug (`CommandsInv`),
  that a running process runs under it (`RunInv`), and what a change of the signal
  table has reached (`SignalInv`).
* `FileTransferProofs`: `ReadContiguous`, `ReadComplete`, `WriteExact`,
  `EveryPieceMoves`, for files of every length and all chunk sizes. They are
  inductive together with `LoopInv`: a loop that goes on still lacks something, and
  the size it was told has not shrunk.
* `RspStubProofs`, `RspClientProofs` (one development; the first has the invariant
  and the steps of the stub, the second those of the client and the theorems):
  `TypeOK`, `OwnReply`, `AtMostOnce`, `LeavesDetached`, for any commands,
  transmissions and mishaps. An RSP answer does not name its command, so what
  keeps the session in step is what can be in the two streams. `TrustInv` says,
  while `Trust` lasts: the sign `readAck` waits for is still to come or the only
  one on its way, and no answer overtakes it (`AckInv`); the only answer
  `ReadPacket` can meet is to this command (`HearInv`); a method returns leaving
  late answers only where the next acknowledgement skips them (`RestInv`); what the
  stub has still to carry out is in order and new (`FreshInv`). `CalmInv` adds,
  for a session without any mishap, that between methods a process the stub holds
  is one the client knows of, and that nothing else is on its way.
* `DsmsgCodecProofs`, for texts of any length: `UnescapeEscape`; `FrameReadBack`,
  `readFrame` returns the payload of a frame, accepts its checksum and consumes
  exactly the frame, whatever follows; `FeedInPieces`, a scanner fed in two pieces
  finds the frames it finds in the whole. The definitions are recursive functions
  on indices. The induction is over sets of numbers, and its principle
  (`SetInduction`) is derived from `NatLessThanWellFounded`. `FeedInPieces` goes
  backwards over the positions at which the scan stands.
* `TracingProxyProofs`: `TypeOK`, `Verbatim`, `LastWordsArrive`, `TraceIsTraffic`,
  for any payloads, any number of frames and any window. `FlowInv` says of each
  direction that what was received, is on its way, is held by the pump and is
  unread are pieces of what was sent, in this order, with nothing missing between
  them while both ends are listened to; `SocketInv` and `DialInv` say when a socket
  can be closed. `TraceInv` adds that the scanner's state is `Feed` of what the
  pump has passed on, which is kept by `FeedInPieces`; together with what `Feed`
  finds in a sequence of frames this gives the log.

Only model-checked:

* the liveness properties: fairness and ENABLED are out of the prover's reach;
* `QconnFraming`: it reads one token at a time, and an inductive invariant would
  have to say, for every reader and every place in an answer, which tokens can
  still be on the wire; this is not done. `CommandsStripped` is evaluated on
  sequences of three units, `CutListingsAreTrue` on listings of three rows;
* `PacketsFaithful` about `RspCodec`, the counterpart of `FrameReadBack` with run
  lengths, and `Precedence` about `Config`, both evaluated on sample inputs;
* `FrameRoundTrip`, two frames in a row from sample payloads, which `FrameReadBack`
  applied twice covers for all payloads;
* every violated statement.

## Not modelled

* Texts: `parseKeyColon` and the resources listing of `sysinfo.go`, the memory-map
  parser of `proc.go`, `parseStop` of `session.go`, the rendering of frames for the
  log (`Annotate`, `HexDump`), directory listings. Each reads one line or one
  message by itself and keeps no state; a model would transcribe them.
* `internal/mockqnx/shell.go` returns constant texts. The mock daemon ignores
  `O_TRUNC`; `FileTransfer` truncates, as the real one does.
* `serial.go` opens and configures a device: system calls only. Two sessions on one
  serial line read each other's frames; nothing in the code prevents it and no
  property is stated. Noise on the line is not modelled either: in `DsmsgClient` a
  damaged frame is only ever the rest of one that a deadline has cut.
* `withAuth` and `withLogging` of `server.go`: they compare a header with the token
  or write a log line, and pass the request on or refuse it before any handler runs.
  A tool call of the model is one they let through.
* `internal/obs` formats log lines; `dbgprobe` and `mock-qconn` call the modelled
  code in straight lines; benchmark and scripts are not part of the program.
* Weak points outside every model's state: the fixed sleep that stands for pdebug
  being ready (`pdebug.go:83`), program output kept in a buffer that no tool drains
  (`qnxdbg/client.go:143`), `parseStop` slicing a `T` reply shorter than three bytes
  (`session.go:220`), addresses from 2^63 on as negative offsets (`proc.go:16`), and
  rows of a map listing that still parse when cut (`proc.go:60`).
* The composition of `McpServer` with the inside of `QconnClient`. Every method, and
  `Close` too, holds `Client.mu` throughout, so a reset never meets a method in the
  middle of an exchange: the server may treat a method as one critical section
  (`Use`, `ResetLocks`), and the client has its own `Close`.
