# TLA+ models of the fork gateway

The program under `new/` forwards data between devices ("gateways") and their clients. A gateway and its clients share a
serial; what one of the clients sends goes to the gateway with that serial, and what the gateway sends goes to all the clients.
It is one Go process with a goroutine or two for each connection and a few shared structures between them. This directory
holds models of those structures, the TLC runs that check them on small instances, and proofs about them that TLAPS checks.

Contents: [the system](#the-system), [the modules](#the-modules), [the runs](#the-runs), [bounds](#bounds),
[fairness](#fairness), [proofs](#proofs), [where code and documentation disagree](#where-code-and-documentation-disagree),
[not modelled](#not-modelled), [plan](#plan).

## The system

`main` (`new/main.go:496-579`) starts five servers around one memory pool. Every server implements `ServerImpl`
(`new/serverimpl.go:40-47`).

| part | state | operations | talks to |
|---|---|---|---|
| GATEWAY, WEB, APP (`server_tcp.go`) | `ChanQueue`, `TcpClientCons`, `LastBeatSend`, `MonitorCons`, `MemQueue` | accept, authenticate, add, read, write, remove, heartbeat | GATEWAY broadcasts to WEB, APP, WS; all others to GATEWAY |
| WS (`server_websocket.go`) | `Map`, `MemQueue` (channel of 100) | take over a serial, read, write, remove | GATEWAY |
| UDP (`server_udp.go`) | `UdpMap`, `DataQueue` | read, write | GATEWAY |
| `FifoQueue`, `QueueHandle` (`fifo_queue.go`) | per serial, or one for all: list, mutex, channel of one token | `Put`/`Get`, `SingelPut`/`SingleGet`, the sweep | every TCP server owns one; readers of other servers put, writers get |
| `MemPool` (`simple_pool.go`) | list of bricks of 1024 pieces | `GetEntity`, `ReleaseOnece`, `FullRelease`, `removeOneNode` | everybody; an entity is shared by the writers it is broadcast to |
| `NetConMap` (`thread_safe_map.go`) | a `sync.Map`, or one of maps when duplicates are allowed | `LoadOrStore`, `Delete`, `Range`, ... | the registries of all the servers |
| observer (`main.go:157-238`) | none | `SNewConnect`, `SDisConnect`, `HNewConnect`, `HDisConnect` | asks the registries, queues a report for GATEWAY, calls an HTTP service |
| handlers and monitors (`server_tcp.go:73-159`, `532-560`) | `ChanQueue`, `ChanRoutineStatus`, `MonitorCons` | start and switch off handlers, `addMontitor`, `removeMontitor` | listener, handlers, writers |
| parser, codec (`main.go:65-150`, `331-480`, `mix_base64.go`) | the buffer of each reader | `Parser`, `EncryPt`, `DeCrypt` | readers and writers |

How they interact:

* A reader goroutine (`createReadroutine`) takes two entities from the pool, parses, and hands the entity that is to be
  broadcast to every server of `ToBroadCast` through `AddDataForWrite`, with as many acknowledgements as there are servers.
* GATEWAY has a writer goroutine for each connection that gets from the queue of the serial. WEB and APP have five
  writers each that get from one shared queue and look the connection up by serial.
* A writer gives its share of the entity back; GATEWAY's puts what it could not write back at the end of the queue.
* Connections are added by handlers and removed by readers, each in several unlocked steps, and the observer is called
  after both.

What is hard, with the properties that make each part correct:

* **Queue.** Items come out once and in order, whatever the number of writers; nobody sleeps on data; the sweep of old
  handles neither loses data nor blocks.
* **Shared queue.** The handle is made on first use without a lock; all writers should serve the same one.
* **Pool.** A piece has one owner; bytes are not freed under a holder; a list that is walked without a lock keeps its order; a
  brick is removed without losing others.
* **Registry.** Entries are removed in the end; whoever is served is registered; of two connections with a serial one goes.
* **Observer.** The last report GATEWAY gets is true.
* **Data path.** Every share of an entity is given back once, whichever way a writer took; a server writes a packet once; GATEWAY loses
  nothing that is not too old; a connection gets its data in order.
* **WS takeover.** A connection that is read is in `Map`; nobody stays in it who has no `Delete` to come.
* **Heartbeats.** They are written with the lock held that handlers and readers need: these must come back.
* **Handlers and monitors.** The listener's count of goroutines is right, although slots are switched off and on without waiting for
  them; an open monitor gets the copies; a closed one leaves.
* **Parser, codec.** What was encrypted comes back; no packet is lost, doubled or left waiting wherever the network cuts the bytes;
  the loop ends and nothing is written behind the buffer.

`PROJECT.json` lists every hazard of this kind at its line, with the properties that cover it.

## The modules

| module | models | state |
|---|---|---|
| `QueueHandle` | `QueueHandle`: `LazyInit`, `AddData` (token, then list), `PopData` (size, token, list) | list, tokens, `status`, age and mutex of each handle; the program counter of each thread |
| `FifoQueue` | `FifoQueue` with one handle for each serial: `Put`, `Get`, the sweep with `CanGc` | `QueueHandle`'s and the keys, `calltime`, the walk of each sweep |
| `SerialFifo` | nothing in the code: what the queue promises | a sequence for each serial |
| `SharedQueue` | `FifoQueue` with the one handle `f.single` | `QueueHandle`'s and `single`, the handles not made yet |
| `MemPool` | `MemPool`, `MemBrick`, `MemEntity` | list of bricks, busy pieces, each caller's walk, entity and removal |
| `TcpServer` | the life of a device connection in `server_tcp.go`, with `NetConMap` without duplicates | `ChanQueue`, `TcpClientCons`, `LastBeatSend`, where handler and reader of each connection stand, closed and broken connections |
| `WebSocketServer` | `WebSockHandle` and the read loop of `server_websocket.go`: takeover, removal, unwinding | `Map`, where each handler stands, closed connections |
| `StatusReport` | `SNewConnect` and `SDisConnect` on top of `TcpServer` and `WebSocketServer` | theirs, what each observer saw, the last report |
| `HandlerPool` | `StartListen`, `newComeConHandle` with `ChanRoutineStatus`, `addMontitor`, `removeMontitor`, the copy to the monitor | `ChanQueue`, the slots and the goroutines of each, `MonitorCons`, where each connection and writer stands |
| `Codec` | `EncryPt`, `DeCrypt`, `MixFour`, `DeMixFour` and the base64 under them | none: operators |
| `PacketParser` | `Parser` and the loop of `createReadroutine` around it | the buffer, what the network still holds, the packets handed on |
| `Relay` | the way of the data for one serial: `createReadroutine`, `BroadCastData`, `AddDataForWrite`, `writeDataEachConRoutine`, `writeDataSharePool`, `createWriteConroutine`, `readUdpData` | each packet's `AckTimes`, where each reader and writer stands, the queue of each server, GATEWAY's connections |

`MC...` modules give constants for TLC, `...Proofs` modules hold theorems.

**Grain.** A step is a critical section, an operation on a channel or a `sync.Map`, or a read or write of shared memory
without a lock. An `if` that reads shared state and the assignment after it are two steps wherever the code lets
somebody in between: `TestSingle`/`Create`/`Fetch`, `CheckSize`/`Receive`/`Pop`, `RScan`/`RUnlink`/`GFree`,
`LoadOrStore`/`Evict`/`CloseSelf`/`CloseOther`.

**Queue.** A send to a channel with a blocked receiver hands the token over at once, as Go does, so `Notify` either moves
one parked reader on or fills the buffer. `CanGc` evaluates `q.Size()` with the mutex held: the model keeps the mutex
for the thread in the label `stuck`. No handle is therefore ever marked free and no key is deleted; `SetFree` and the retry in `Put`
cannot run and have no action. Between two calls of `Get` a writer is busy with what it got (`call`), for as long as its device likes; then it
calls again, or leaves for good because its connection was closed or its write failed (`Leave`). `deserted` is a history variable: the handles
whose last awake writer left while there were items, until the next token.

**Pool.** Bricks are numbered in the order they are made; 0 is nil. A thread stands for one entity that a goroutine holds; a
goroutine that holds three is three threads. `Fits` are the sizes `findBestFix` can return for `Sizes`. A release is the
decrement and, for the last one, a separate `ReleaseAcq`. `panicked` ends the behaviour: `new/` has no `recover`.
Any number of removals may run at once, as nothing in the code prevents it. `clashed` is a history variable: a removal has unlinked a brick at
which another one was still looking.

**Registry.** A key is a server and a serial, a connection is used once. `stage` follows the handler from
`ChanQueue` to `go createReadroutine`, `reader` the read goroutine. `Taken` is the key's presence; `Evict` deletes
by serial alone, since `main` passes `can_dup = false` for all servers. Refusal in `AckSerial` or `AckConnect` has many
reasons and one outcome, so it is a choice. A reader that has data hands it to other servers (`Cast`) and comes back in its own time
(`ReadAgain`); how long that takes is those servers' business. `Present` holds of a connection from `Accept` until its reader has
ended; the history variable `met` collects the keys of which two connections were present at once, so that properties can tell a device that
comes back only when its last connection is gone from one that does not wait.

The round of heartbeats holds `rw_mutex` while it looks up and writes to whoever stands under each serial that is due;
`AddBeat` and `RemoveBeat` wait for the same mutex. Only GATEWAY has a `BeatInf`, so there are rounds for `BeatKeys` alone. Which serials
are due (those without a heartbeat for 50 s) is a choice. What a failed write does is `WriteError`'s.

**WS.** A newcomer closes who stands under its serial and stores itself (`FindOther`, `CloseOther`, `Replace`). A message
longer than the entity makes `wread` index out of range; `net/http` recovers, the deferred `Close` runs, and
`Delete` and the observer are not reached (`panicked`).

**Observer.** `SNewConnect` asks some servers twice and overwrites the answers; the reads that count are WEB's, APP's and
WEBSOCKET's, in this order. `StatusReport` EXTENDS `TcpServer` and takes `WebSocketServer` by INSTANCE; its steps are the
steps of the two, with the observer's put in front of or behind them. `Tell` is `ObserveNew` or `ObserveEnd` of the connection's server
together with the report. The order of GATEWAY's queue is that of the reports, which `FifoQueue` justifies. `told` is forgotten when
two observers looked at the same time, so that what is said of the last report is said of reports that do not overlap. Heartbeats are left out here
(`BeatKeys = {}`): nothing in this module reads what a round changes; it only delays.

**Handlers and monitors.** The goroutines of one slot are alike, so the model counts them: `look` those that will look at their flag, `wait`
those that wait for a connection; the others have one in their hands (`by`). Each loop of the listener over the slots is one step, since a flag is read by the goroutines of
its slot only, one at a time. What happens to a device's connection is `TcpServer`'s, so here a handler simply is done
with it. `crossed` (history) has the serials of which a monitor was entered while somebody who had seen another one was about to delete by serial.

**Parser.** Everything is done to bytes, as in the code, in a buffer of 12 instead of 1024. A read appends a part of what was sent, of any
length; if the buffer is full it is thrown away first. One step is one call of `Parser`: it decrypts, takes the heartbeats
out, finds a packet by counting brackets, moves up the rest, encrypts it again and writes it back. `spoiled` (history) is set by the two ways in which
the code goes wrong by itself (see [below](#where-code-and-documentation-disagree)) and by a full buffer that is thrown away, so that the other
properties can say what holds up to there.

**Data path.** One serial. The queue of a server is a sequence, by `QueueIsFifo`; that a reader of it may sleep on items is left to
`FifoQueue`. What a pool writer finds in its server's map is `TcpServer`'s subject, so whether its write succeeds is a
choice; a GATEWAY writer has its own connection, which is closed by a failed write, a failed read or a failed heartbeat answer. `Get` may return nil to it
(`FetchNothing`); then it looks at its connection again. `Clients` are the readers of the other servers;
`Messages` those whose Parser is called once for each message (WS, UDP), `Endless` UDP's, which goes on after an error. A
packet is one entity; its age is the set `old`. `WS` has a channel, and a reader that broadcasts to a full one waits. An entity
that is broadcast is never empty, so the `continue` for `DataLength < 1`, which would keep a share, has no step. `wrote`, `sent` and `putBack` are history
variables.

## The runs

Passing:

| run | shows |
|---|---|
| `queue_one_serial` | the queue implements `SerialFifo` (`ImplementsFifo`); a lost wake-up strands at most one item of each producer (`StallBounded`), unless the last awake writer left; where writes return, a reader that is awake empties its list, unless it is the last and leaves, or the sweep froze (`AwakeDrains`) |
| `shared_pool` | at least one writer serves the handle in use (`PoolSurvives`), and a lost wake-up strands at most one item of each producer in it (`InUseStallBounded`) |
| `pool_safe` | one owner for a piece (`Exclusive`), no brick lost by removals, also by several at once, unless one unlinks a brick on which another stands (`RemovesOne`), walks go forward (`WalkForward`) and therefore end |
| `tcp_rivals` | every entry of the maps has somebody who will delete it (`NoLeftovers`), who is served is registered until a rival comes (`ServedIsRegistered`); if peers read and no other server keeps a goroutine for ever, a broken connection leaves the map (`BrokenIsRemoved`) and handlers come back (`HandlersReturn`) |
| `report_servers` | a client's report shows its own change (`OwnChangeSeen`); once nothing is under way the last report agrees with the maps (`LastReportTrue`); WS connections that come in turn are in `Map` (`WsServedInTurn`) and leave it (`WsNoLeftovers`) |
| `handlers` | the listener's count of goroutines is right (`PressureServed`); an open monitor gets the copies (`MonitorGetsCopies`), a closed one leaves (`ClosedIsLeaving`) |
| `parser_stream` | no packet is lost, doubled or reordered, however the bytes are cut (`Conserved`), none waits in the buffer (`NoneWaits`), without encryption the process ends only when all the bytes sent between packets and twice a packet are more than the buffer (`PanicsWhenFull`), the loop ends unless it meets an empty object under encryption (`LoopEnds`) |
| `relay_shares` | `AckTimes` is the number of those who still have the packet (`SharesMatch`); a server writes a packet once (`WrittenOnce`); GATEWAY loses none that is not too old (`NothingLost`), and a connection gets them in order but for those that were put back (`InOrder`) |

The other runs are expected to find a violation; they are described [below](#where-code-and-documentation-disagree).
Every property of a passing run has a mutant: a small change to a definition of the model, the kind of slip that could be made in the
code, under which the same run fails (`PROJECT.json`, `mutants`). The mutated forms stand above the definitions they replace.

## Bounds

* Queue: two producers, of two items and of one, and two readers of one serial (a connection and its successor), with sweeps. A lost
  wake-up takes one producer and one reader, one that is taken away a second reader; exceeding `StallBounded` takes a second item of the same producer; order and loss between
  producers take two. `SweepEvery` is 2 or 3 instead of 1000, so that sweeps happen in every behaviour.
* Shared queue: three writers and a handle for every thread, so that every one of them can win or lose the race; three items of one producer
  (`ThriceEach`), which is what it takes to leave one behind in a handle that was replaced while two readers sleep.
* Pool: two threads, `Pieces = 1` (a brick is full or idle after one step, which gives the races most room), three bricks (a removal needs a
  predecessor, a victim and a successor) and two removals; two sizes, so that walks pass bricks that are too small. `MaxBricks` and
  `MaxRemoves` only stop new bricks and new removals. The proofs do not depend on any of this.
* Registry: three connections of one serial, two handlers. Two connections race for the key, and the third is the one whose entry the reader of an
  earlier one deletes.
* Observer and WS: one web client, one gateway, two WebSocket clients (a takeover takes two), one handler for each server. Three readings of the
  maps fit between any two steps of others.
* Handlers: four connections, all of which may turn out to be monitors of one serial (one in the map, one that throws it out, one that
  comes in between, and one more), one goroutine for the five, two slots, a queue of two, another goroutine for each one that waits. A slot
  is thus switched off and on again while its old goroutine waits.
* Parser: a buffer of 12 bytes and three texts out of seven: a heartbeat of three bytes, `{}{}`, packets of three, four, six and seven
  bytes, and one of three with a space before and two behind it, so that the spaces of three texts fill more than half of the buffer, a packet is up to, and more than, half of the buffer, two and three come in one read, and any of them is cut anywhere.
  Encrypted and not. `MaxTurns`, turns of the loop after one read, is 7: one more than `LoopEnds` allows, so that a loop which does not
  end breaks it. The proofs do not depend on it.
* Data path: two GATEWAY connections (one and its successor, between which packets are put back), the reader of UDP, one writer for each of WEB
  and WS, a channel of one item, and two packets: order takes two, and so does a full channel.

Deadlock is not checked: producers may have nothing left to do, and a process whose queues are empty waits.

## Fairness

Goroutines that can run do run: Go's scheduler is preemptive. Only steps that wait for nothing but the scheduler, a deadline or a mutex that
the model itself frees again are fair; whatever waits for a device, for another server or for a caller is not.

* **Queue.** The steps of `Put` (`ProducerStep`) and of a call of `Get` (`GetStep`) are weakly fair; the wait for the handle's mutex is in their guards, so a handle
  that the sweep froze stops them. Calling `Get` again is not fair: `con.Write` has no deadline (`server_tcp.go:401`), and a writer may leave instead
  (`server_tcp.go:444-446`, `461-463`). `AwakeDrains` therefore assumes that writes return (`WritesReturn`), one way or the other, and excepts the last
  awake writer that leaves.
* **Registry.** The steps of a handler and the removal by a reader are weakly fair, and so is the round of heartbeats: `AckSerial` has a
  deadline of five seconds (`main.go:247`). `AddBeat` and `RemoveBeat` are strongly fair: they wait for `rw_mutex`, which the round takes again and again, and Go's mutex
  hands itself to who has waited for a millisecond, so that nobody starves. The round's write is weakly fair only when there is no peer that could keep it waiting
  (`~PeerHasBeat`).
* **What a goroutine does in other servers** is not fair: `ObserveNew`, `ObserveEnd` and `ReadAgain`. The observer (`main.go:201-211`) and `BroadCastData` put into a
  queue, whose `LazyInit` waits for a mutex that a sweep may hold for ever (`fifo_queue.go:29`, `90`; run `queue_sweep_freezes`), and into the channel of
  WS, which may be full (`server_websocket.go:53`).
* `BrokenIsRemoved` and `HandlersReturn` therefore assume that peers read (`PeersRead`) and that nobody is kept for ever by the servers it hands data or a
  report to (`HandOversReturn`). Without the first a device that does not read its heartbeat stops every handler and every reader of GATEWAY; without the second a
  handler stays in its report, or a reader in its broadcast with the connection's entry in the map.

Nothing is assumed of the callers: `Put`, devices that connect, connections that break, data that comes, and time passing
have no fairness. The other modules claim no progress and assume none. That the loop around `Parser` ends is a bound on its turns
(`LoopEnds`): half as many as the buffer has bytes.

## Proofs

All theorems hold for every value of the constants that satisfies the named assumptions of the modules. They were checked with TLC
first; then the invariant below was found, checked, and proved inductive action by action.

* **`FifoQueueProofs`.** `TypeCorrect`; `StallsAreBounded`; `QueueIsFifo` (the refinement: initial states map to initial
  states, each step to a `Put`, a `Take`, a `Miss` or a stutter). `StallBounded` is not inductive: that all readers sleep says nothing of
  the tokens. The invariant (`StallInv`) adds that while a reader of the handle is parked there is no token in the buffer (`ParkedInv`),
  and that a producer which put an item into the list of a sleeping reader has not sent a token since (`QuietInv`): its next `Notify` finds
  that reader and wakes it. A writer that leaves with the token breaks the argument, so these speak of handles that are not `deserted`, and the
  next token makes the handle one of them again.
* **`SharedQueueProofs`.** `SharedTypeCorrect` needs that a thread at work has a handle, and that there is one once a thread is past its
  test (`HandleInv`). `StallsInUseAreBounded`: the argument of `StallsAreBounded`, for the handle in use only, since a reader that wakes up in a
  handle that was replaced goes on elsewhere. A handle that was replaced never comes back, and one that is stored was made just before, with no items and nobody
  at work on it (`FreshInv`). `OneWriterStays` assumes `EarlyPuts = FALSE`: then no producer makes a handle (`LateInv`), a writer that stores one
  has still to fetch it, and what it fetches is the one in use.
* **`MemPoolProofs`.** `PoolTypeCorrect`, `PiecesAreExclusive`, `WalksGoForward`, for any number of threads and with overlapping removals.
  `PoolInv` adds that links point to bricks made later, that the count of an entity is that of its users, and that whoever still owes a
  release and whoever is about to get an entity counts as an owner of its piece, unless the brick has been freed.
  `RemovesOnlyOne`: `Linked` says which bricks the links lead to without walking: those in every set that
  holds the first brick and with a brick the next. The invariant (`ListInv`) is that the links run through the live bricks in the
  order they were made (`Chain`), and that what each removal under way has seen of the list still holds (`Looking`), as long as none has unlinked a brick on which another one stood (`~clashed`): then
  the link that a removal writes is that of a brick nobody else has in hand, however many run at once. A chain is
  linked (`ChainIsLinked`), and each step keeps it, cuts one brick out of it, or puts a new one at its end.
* **`TcpServerProofs`.** `TcpTypeCorrect`; `NothingIsLeft`: `ConInv` adds that a connection stands in `ChanQueue` once and only before it is
  handled, that it is read only after its handler is done, and that it is registered under its own key. `ServedInTurn`
  speaks of the keys outside `met`; `TurnInv` says of their connections that of two rivals one has not come or is over (`Alone`), so that nobody
  ever finds the key taken (`KeyIsFree`), and that what a reader deletes is its own.
  `TurnInvariant` states it as a theorem, for others to use.
* **`StatusReportProofs`.** The composition implements both of its parts (`TcpPart`, `WebSocketPart`), so the theorems of `TcpServer` hold in
  it, and so do `WsNothingIsLeft` and `WsServed`, which are proved of `WebSocketServer` alone (`WsInvariant`). `OwnChangeReported`:
  `SawInv` follows what an observer has seen of its own server from the entry or the deletion that called it, up to its report; as long as connections
  come in turn (`TurnInvariant`, and the WebSocket server's) nobody else changes the entry in between. `LastReportHolds` needs no such thing:
  where the last report does not agree with a map (`ToldInv`), or what an observer saw no longer holds (`LooksInv`), somebody who changed the map still has to
  look at it, or another observer has seen what holds and has still to report (`Known`). Only observers that overlap spoil that, as a report that is made later may know less.
* **`HandlerPoolProofs`.** `PoolTypeCorrect`; `ListenerCountsRight`, by counting the goroutines of each slot (`CountInv`; `FiniteInv` says
  that they can be counted); `OpenMonitorGetsCopies` and `ClosedMonitorLeaves`: `OwnInv` says that whoever is in the map, was found there or is
  being written to is a monitor of the serial, `FreshInv` that what was thrown out does not come back, `DeleteInv` that whoever is about to delete by serial
  deletes the one it knows.
* **`CodecProofs`.** About the encryption: `MixingUndone`, `EncryptionUndone` and `EncryptedAgainFits`, for sequences of any length. The last one is why
  `Parser`, which ignores whether `EncryPt` refused, never has a rest that does not fit. About `Parser`'s loops, for every text: `HeartbeatsGo`,
  `FoundIsBracketed` and `NothingIsMissed`, which compares the scan of `checkMayJson` with the reference `PacketsOf` byte by byte. About the reader:
  `ParserTypeCorrect`; `ParsingEnds`, whose invariant (`Paid`, with `Rests`) is that each turn but the last has taken two bytes out of the buffer, and which assumes that a
  heartbeat has more than two bytes (`conf.xml` has five), for the padding can give two back; `NoneEverWaits`, because what is written back,
  read again group by group, has the packets of the rest that was written (`StoredKeepsPackets`), and the loop ends only where nothing was found.
  `PacketsAreConserved` and `OnlyFullPanics` are about what clients send when they keep to the readme. `TidyTexts` says that the brackets of a text match, that no heartbeat
  is inside a packet and that the heartbeat has no bracket and no space (`ALIVE`, `conf.xml:48`); `PaddedTexts`, which only the second needs, that what clients put between packets besides
  heartbeats has no byte of a heartbeat, like the spaces of the readme. The code sees to neither. With a heartbeat inside a packet TLC refutes `Conserved`. TLC evaluates the two for the texts of the runs (`TextsSent` in `MCPacketParser`).
  The invariant of the first (`ConservedFrom`) adds to `Conserved` that what is unread has matching brackets too, and under encryption consists of whole groups
  of four (`InGroups`), wherever the buffer ends. Each thing `Parser` does is then a text without one of its parts (`Splices`): a heartbeat
  (`BeatsOut`), leading spaces (`TrimmedOff`), the packet found (`PacketOut`), the padding when the rest is written back (`PaddedOn`). What is read behind the part is what
  was read before, for the part leaves the depth of the brackets where it was (`ScansSpliced`, `Spliced`). `GroupsOfPeer` and its counterpart for `EncryPt` say that what `Send` puts on the wire reads as the text.
  `OnlyFullPanics` needs besides (`UnitsUnread`) that the unread text is made of heartbeats, packets as long as some that were sent, and no more other bytes than were sent (`FromSent`): then
  only such bytes stand in front of the first packet in the buffer, `checkMayJson` stays inside that packet (`FoundInFirst`), even when the read has cut it, and the move up reaches no further than
  they and twice the packet do.
  These are inductions over the bytes. The induction theorems of the library cannot be used, so `OneByOne` states induction for a set
  of numbers, from the least number that is missing, and `RecursionExists` says that a function given value by value exists.
* **`RelayProofs`.** `RelayTypeCorrect`, which needs that a goroutine at work on a packet has one and that reader and writer of a connection
  start together (`Busy`). `NothingIsLost`: a writer that is about to give GATEWAY's share back has written the packet or found it
  too old (`DoneWith`), and one that is not at work holds none (`Idle`), so that taking an item never drops another. `SharesAreCounted`: `Counted` adds to `SharesMatch` that the places of a packet are finitely many and that a packet not yet made
  has none, `Empty` that a reader has a packet only while it hands it on. A step moves a share from one place to another
  (`ShareMoves`; taking the first item moves all the others up, which is a bijection, `FetchCounts`), makes as many as there are servers, or removes one and decrements.
  `PacketsAreWrittenOnce`: within a server a packet is in one place, the queue, the hands of a writer that may still write it or
  what one of them wrote (`OnceThere`), and who still has to be handed it has not got it (`OnceHanded`); the latter needs `BroadCastAssumption`: `main`
  adds no server twice to a `ToBroadCast`. `ConnectionsAreWrittenInOrder`: what a connection wrote, what its writer holds and the queue follow each other
  in the order of `sent`, but for what was put back (the five parts of `OrderInv`); a packet that is handed over is behind all of them because they were all handed over before (`HandedOver`).

Only model-checked: the liveness properties (`AwakeDrains`, `BrokenIsRemoved`, `HandlersReturn`), which need fairness and `ENABLED`. Every invariant and action
property of a passing run is proved, a few under an assumption that the theorem states: `EarlyPuts = FALSE`, a heartbeat of more than two bytes, and `TidyTexts` and
`PaddedTexts` for two properties of `PacketParser` that do not hold of all texts: a heartbeat inside a packet, or one that is completed when another is taken out, changes what was sent.

## Where code and documentation disagree

Each is a run that is expected to fail, with one property taken from a comment or the documentation (`PROJECT.json`, `findings`).

| run | what happens |
|---|---|
| `queue_sweep_freezes` | `CanGc` locks its own mutex twice; the first handle that is 3000 s old stops the sweep and the writer that runs it |
| `pool_bytes` | a brick is freed under an entity taken after the check that it is idle |
| `tcp_unknown` | `removeTcpConn` deletes the entry of a later connection with the same serial |
| `parser_split` | behind a packet only as many bytes are moved up as it had: with three packets in one read one is handed on twice and one is lost |

Also seen in the models, without a run of their own:

* The token is sent before the item is in the list (`new/fifo_queue.go:51`): a reader between the two uses it up and sleeps on the item until
  the next one comes. `StallBounded` says how many can be stranded.
* A writer that leaves after a write that succeeded (its connection was closed meanwhile, `new/server_tcp.go:444-446`) takes the wake-up with it: all the items left in the list wait, although its successor is
  parked on the same handle, until somebody puts another. `AwakeDrains` and `StallBounded` fail without the exception for `deserted`.
* A handle that the sweep froze keeps whoever puts into it for ever, so also a handler that reports a connection and a reader that broadcasts: the handler is lost, and the
  reader's connection stays in the map when it breaks.
* In a shared handle that was replaced while data came, any number of items stays behind: its readers go on with the new one
  (`new/fifo_queue.go:178-191`). `StallBounded`, said of every handle, fails there; `InUseStallBounded` speaks of the one in use.
* With encryption the loop of a reader can turn for ever. `{}{}` is padded to `{}{}` and two spaces; Parser takes the first `{}`, moves up two bytes (`new/main.go:420`), so that
  `{}{}` is left, and encrypts that with two spaces again: what it was given. The reader broadcasts `{}` until the process ends
  (`new/server_tcp.go:261-268`). `LoopEnds` makes the exception, and nothing else keeps the loop turning (`ParsingEnds`).
* A report to GATEWAY is 200 ms old when it is queued and overtakes newer ones: without the exception for overlapping reports
  `LastReportTrue` fails. (`new/main.go:581-583` says itself that a quick reconnect may send the same status twice.)
* The handler of a WebSocket connection that was taken over deletes its successor's entry (`new/server_websocket.go:217`), and two newcomers that
  find the same connection both stay. An oversize message leaves an entry for ever, without a report.
* With encryption, spaces get into the middle of a packet that is cut; a read that splits nested brackets can hand on a truncated packet; the decoder
  stops at the first `=`, so what came behind it in the same read is lost; and a packet longer than half of the buffer indexes
  behind it and ends the process before the check of `new/server_tcp.go:238`.
* Without encryption nothing takes away what stands between packets (`new/main.go:386-398`; `trimLeft` is for the other branch): spaces pile up in front of the buffer from one read to the next, until a
  short packet is moved up from beyond its end (`new/main.go:420-422`) and the process ends. With 1024 bytes and packets of 100, some 825 spaces will do. Yet
  `new/readme.md:30` says that spaces have no influence, and the test client pads its packets with them, encrypted or not
  (`new/tcpServerClientTest/test_server.go:185-192`). `PanicsWhenFull` says that it takes as many bytes as that.
* Several goroutines may serve one slot of `ChanRoutineStatus`; `PressureServed` says that this does no harm.
* A third monitor can be entered between the deletion by serial of two others, and is then open and in no map: `new/readme.md:39` has one monitor for a
  serial ("一个serial只允许被一个MONITOR监听").
* Two removals that meet lose bricks nobody freed: one takes `b` out from between `a` and `c` while the other, which has `b` and `c` in hand, takes out `c`, so that `a` leads to a
  brick that was freed and to nothing behind it (`new/simple_pool.go:173-205`). `RemovesOne` without `~clashed` fails in `MemPoolSafe.cfg`; it is the only way to lose one.
* Writers of WEB and APP that start together make a handle each, and one that sleeps on a handle nobody uses is never woken: fewer than the "fixed
  number" of `new/server_tcp.go:422` are at work. `PoolSurvives` says that one is.
* UDP never assigns `serial` to a connection, so `UdpMap` stays empty.
* The five writers of a pool may write two packets of one client in the other order: `InOrder` speaks of GATEWAY's connections only.
* The writer of a GATEWAY connection that is closed ends when the next item for its serial comes, not before; it puts it back if it cannot write it.
* `GetEntity` returns nil when its second try fails as well: others took all pieces of the brick it made.
* With a fourth connection of the serial after `tcp_unknown`, two connections of one serial are served side by side, although serials that coincide
  should throw each other out (`new/main.go:498`).
* WEB and APP throw out by serial alone (`can_dup` is false, `new/main.go:532`, `541`), where `new/readme.md:24` has serial and remote address.

Outside the models: `HNewConnect` and `HDisConnect` format the status with `%i`, which is no verb of `fmt`; and although the documentation has data
broadcast to UDP clients, `main` never adds the UDP server to GATEWAY's list.

## Not modelled

* `NetConMap` with duplicates: `main` passes `can_dup = false` to all the servers, so no state of the program reaches those branches. Read as
  code they are wrong in two places: `LoadOrStore` and `Store` return with `n.mtx` locked (`new/thread_safe_map.go:82`), and
  `RemoveEmptyKeys` removes an inner map that somebody has just been given.
* `redis.go` is no longer called; `configure.go`, `logging.go`, `index.go` and `doc.go` keep no state that two goroutines share; `httptool.go` is I/O
  whose result nobody uses; the test client is not part of the program.
* UDP's writers: nothing is ever put into its queue.
* In the modelled parts: the bytes of an entity outside `PacketParser`, wording and logging, `TotalSize` and `MemoryOccurpy`, the HTTP requests.

## Plan

1. `ServedInTurn` and the observer's properties for connections that do not come in turn: which of the rivals is left in the maps.
2. How short a packet may be that ends the process under encryption, where padding counts too; `PanicsWhenFull` leaves that out.
3. `NetConMap` with duplicates, once `main` uses them.
