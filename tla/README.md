# A TLA+ verification of CADF

CADF is a set of C++ libraries: `thread-lib` (threads and a thread pool),
`comms-lib` (nodes that exchange messages over a bus, in one process or over
TCP), `di-lib` (dependency injection) and `dom-lib` (a document tree with JSON).
This directory models their concurrent and re-entrant core, checks it with TLC
and proves parts of it with TLAPS. `PROJECT.json` is the index: components, runs,
mutants, the map from definitions to source lines, findings, hazards, theorems.

## 1. Inventory

| Component | State | Operations | What is hard | What makes it correct |
|---|---|---|---|---|
| `BasicThreadPool` | flags `m_started`, `m_terminating`; the threads; a FIFO buffer; two mutexes, a condition variable | `start`, `stop`, `isStarted`, `schedule`, the loop `waitAndProcess` | wake-ups, an unsynchronised flag, functions that call the pool, stop and restart | nothing lost, doubled or out of turn; a stopped pool is quiet; scheduled work is executed; `stop` returns |
| `Thread`, `Task` | `m_alive`, `m_quitting`, the `std::thread` | `start`, `stop`, `isAlive`, `exec`, a signal | start and stop racing with the thread; a signal before the blocking call | the flag is accurate; no thread is overwritten; `stop` ends the task |
| `AbstractBus`, `BasicBus` | table type -> instance -> connection | `connected`, `disconnected`, `routeMessage` in four ways | listeners that connect, disconnect, send or throw inside the loops | the table is exact; each addressee is called once and nobody else |
| `LocalConnection`, `AbstractConnection` | its bus, `m_connected`, a vector of listeners | `registerBus`, `connect`, `disconnect`, `sendPacket`, `addMessageListener`, `removeMessageListener` | the same; a vector that changes while it is walked | connected iff in the table; every listener is called once |
| `ThreadedBus` | the scheduled packets | `sendMessage` schedules `routeMessage` on a pool | reordering; connections, listeners and senders that are gone when the packet is routed | few packets overtake; everything sent is routed |
| `Node`, `Processor`, `BridgeNode` | processors; forwarding rules | connect, send, dispatch, forward; construction and destruction in parts | exceptions on the pool's threads; messages that go round between bridges | nothing is sent back or delivered twice on one path; only misuse ends the program |
| Server (`TcpServerSocket`, `ServerConnectionHandler`, `TcpSocketDataHandler`, `ServerBus`, ...) | listening socket, accept thread, a reader thread and listeners per connection, registrations | start, stop, accept, read, register, route | threads sharing unlocked maps; peers that close; no framing | ordered delivery; registration and clean-up |
| Handshake | handshakes in progress | init, response, complete, clean-up | its order against reads and registration | nothing overtakes it; it completes |
| Client (`BasicClient`, `TcpClientSocket`, `ClientConnection`) | socket, reader thread, listener | connect, disconnect, send, read | the reader runs before its listener is set | a connected client gets registered |
| Messages, buffers, binary and JSON protocol | factory tables, byte buffers | register, create, serialize, deserialize | registries that fail half-way, sizes at the limits, reads that cut a message | what is announced is what is written; whole messages arrive as sent, their first parts are refused |
| `Context`, `BeanManager`, `Configuration` | beans, their dependencies, a stack of beans under creation | assemble, cycle check, `getBean` | partial failure leaves the stack behind | assembled iff possible; cycles found iff present |
| `DomNode`, JSON | a tree; the parser's text and index | build, write, parse | damaged texts, the step back after a plain value, empty containers | accepts exactly the documents; round trip; exact sizes; the parser ends |

How they interact: a `ThreadedBus` runs its routing on the pool; nodes and the two
forwarders of each bridge are listeners that the routing calls. Sockets are
`LoopingThread`s, so their `start` and `stop` are those of `Thread`, and their
loops block in `accept` and `read`. The server's reader threads perform the
handshake, register the client with the bus and route its messages; the listeners
that routing calls are application code, which may call back into everything.

## 2. Modules

| Module | Models | Proofs |
|---|---|---|
| `ThreadPool`, `MCThreadPool` | `BasicThreadPool` | `ThreadPoolProofs` |
| `WorkQueue` | the abstract queue of work that the pool implements | |
| `ThreadLifecycle`, `MCThreadLifecycle` | `Thread`, `Task`, the signal | `ThreadLifecycleProofs` |
| `MessagePacket`, `AbstractConnection` | a packet's address; the vector of listeners: shared by the buses | |
| `LocalBus`, `MCLocalBus` | `AbstractBus`, `BasicBus`, `LocalConnection` and listeners that come and go | `LocalBusProofs` |
| `ThreadedBus` | `ThreadedBus` on a pool that is an instance of `WorkQueue` | with the next |
| `BridgedBuses`, `MCBridgedBuses` | `Node`, `Processor`, `BridgeNode` on several threaded buses | `BridgedBusesProofs` |
| `NetworkBus` | the remote bus: sockets, handshake, registration, broadcast | `NetworkBusProofs` |
| `BeanManager` | `BeanManager`, its providers and creators | with the next |
| `Context`, `MCContext` | `Context` and `Configuration`, on top of `BeanManager` | `ContextProofs` |
| `CircularDependencyChecker`, `MCCircularDependencyChecker` | the search for a cycle | `CircularDependencyCheckerProofs` |
| `DependencyGraph` | what a cycle of configurations is | |
| `BinarySerializer`, `MessageFactory`, `MCMessageFactory` | buffers, the binary protocol, factory and registries, both ends of a stream | `MessageFactoryProofs` |
| `DomNode`, `JsonConverter` | the tree, its text and its size | |
| `JsonParser` | the parser, and a program that writes and reads trees | |
| `JsonProtocol`, `MCJsonProtocol` | the JSON protocol of messages on top of it: trees, texts and a stream | |
| `JsonGrammar` | which texts are documents, and which trees a text can carry | |

`MC...` modules only define values for constants and symmetry. Operators whose
comment says "mutant" are plausible bugs: replacing the definition that follows
by one of them makes a property fail, which shows that the property has teeth.

### ThreadPool

One action is the code between two points where another thread can interfere.
`bufferMutex` and `poolMutex` name the owners; a critical section that contains no
such point (the push in `schedule`) is one action. `wait(lock, pred)` is split into
the test, the blocking and the wake-up, because `m_terminating` is written by
`stop` without the mutex and can change between test and blocking. Functions are
numbered in the order of their pushes; while one runs it may call the pool
(`FuncCalls`), but not `stop`, which would join the calling thread. The history
variables `pushed`, `begun` and `done` serve the properties.

`WorkQueue` says the same without threads: a piece of work begins at most once and
ends at most once, at most one per thread is in service, and one begins only if the
earlier ones that have not begun, with those in service, leave a slot. So the
Readme's "first come, first serve" holds up to the functions that threads have
already taken: between taking a function and running it a thread can be overtaken.

### ThreadLifecycle

The owner (who calls `start` and `stop` in sequence, as the class has no lock), the
started thread step by step (`m_alive = true`, `set_value`, `exec`, the loop, a body
that may block, `m_alive = false`), and the pending signal. `scheduleStop` of a
one-shot task does nothing.

### LocalBus

Routing and the listeners it calls share a thread, so a routing is a frame on a
stack: sender, packet, iterators, and, for the properties, who was addressed when it
began, who has been called, and who came or went since. Addressed packets walk the
live inner map with an iterator and an end; erasing an element makes the iterators
on it `Dangling`, and using one of those sets `undefined`, after which nothing is
claimed. Packets to all types walk a copy of each inner map, made when the loop
reaches the type. Addresses are unique, as the Readme demands. A listener that
throws unwinds one or more frames.

A connection that is called notifies the listeners of a vector (`AbstractConnection`),
and they may change that vector: the loop's iterators are then invalid, which sets
`undefined` too. `removeMessageListener` erases one element behind the result of
`remove_if`, so a listener that was added twice leaves a listener behind, possibly
another one's second call; `wanted` and `doubled` record what the listeners asked for, and
`RoutedExactly` says that without a double registration each is called once.

### ThreadedBus and BridgedBuses

`ThreadedBus` composes the buses with the pool by instantiating `WorkQueue`, which
`ThreadPool` is proved to implement: a packet is a piece of work, numbered in the order
of sending. The routing takes no lock, so a connection or listener that comes or goes on
a bus where a packet is being routed is a data race; it sets `failure = "race"` and the
model goes no further, as nothing can be said of the program then. In all other
executions the tables are as they were when the routing began, so a routing is the
set of calls it has still to make (`left`), a connection and the position of a listener each,
made in the order of the table; the loops themselves are the subject of `LocalBus`.

`BridgedBuses` adds what the listeners are. The application connects, disconnects and
destroys nodes, adds and removes processors, sends, and builds and destroys bridges in the
four steps that the members of `BridgeNode` give: between them a bridge receives
already, or still. `messageReceived` of nodes and forwarders runs on the pool's threads,
where an exception (`failure = "not connected"`, "not registered", "wrong class") ends the
program. `origin` and `trail` are the history of a packet: the packet it descends from and
the forwarders since. The connections of one bridge are its own and on different
buses, as BridgeNode.h asks ("each of which should be connected to a different bus").
What disagrees with comments without being a property: a node does not connect when it
is created although Node.h:12 says so.

### NetworkBus

A connection is one TCP connection of one client. Each direction is a FIFO stream
of messages; a `read` takes one or several off it and the first is what is
deserialized, since nothing frames them. The accept thread, one reader per accepted
connection, and each client's own thread and reader interleave. A send to a client
that has closed is lost or kills the server (`SIGPIPE`, or an exception nobody
catches on a reader thread). The maps shared by the server's threads have no lock:
an update made while another thread is in the same map takes place, is lost, or
kills the process (`Update`), and `raced` records it. The vector of a socket's listeners
has no lock either. Its first `push_back`, by the accept thread or by the client's
`connect`, may come while the reader starts its loop over it: the loop sees the listener,
or does not, or runs over a range that mixes the old and the new memory and kills the
process (`LoopBreaks`, in `AddHandshakeListener` and `ClientDies`). Inside the reader's own
loop the handshake is erased and the connection is pushed: this invalidates the loop's
iterators by the letter of the standard, but a vector of one element keeps its memory, the
slot is overwritten and the loop ends, so it is modelled as well defined. The bus is a `BasicBus` and
messages are broadcast; other addressing is the subject of `LocalBus`. Thread
start and stop are single steps here: their windows are the subject of
`ThreadLifecycle`. Reads that return part of a message are the subject of
`MessageFactory` and `JsonProtocol`. Not modelled: the client's own failing sends, and
the deregistration of a client: `clientDisconnected` is never called, and
`BasicServerConnection::disconnect` returns false, so what ServerBus.h says of
deregistering cannot happen.

### BeanManager and Context

One thread, but re-entrant: `getBean` runs a constructor, which may call the manager
(through a global, as the repository's tests do), throw, and catch. `calls` is the
real stack of constructors, `m_beanNameStack` what the code believes it to be; they
differ once an exception has passed, because only a successful `getBean` pops its
name. `raised` is the exception on its way. `Context` adds `registerConfiguration`
and `assemble`, whose place is `pc`; what it calls are the manager's own actions, so
all of this interleaves with user code in constructors and in `postInit`. What the
macros declare for each class (`RESOURCES`, `BEANS`, `DEPENDENCIES`) is `decl`.
The list of missing resources that a waiting configuration keeps is a set here: the code
only asks whether it is empty, and the checker whether a name is in it. `verifyContext`
uses `HasCycle` where the code calls the checker; that they agree is proved
(`AnswerIsExact`) and shown by `di_cycles`. Left out: auto-registration (a build option), the instance
that `SmartSingletonBeanCreator` shares between managers, destructors, and calls of
the manager made by the constructor of a reference singleton (it runs inside
`registerBean` and is one step here), and calls of `registerConfiguration` or `assemble`
by constructors and `postInit` while an `assemble` is under way (user code uses the
manager's part of the context only).

### CircularDependencyChecker

`checkAllResources` and `followResource` call each other; one call of both is a frame.
A compound name `config::resource` is a pair, so names that contain `::` themselves
are not considered. `HasCycle` defines a cycle without any search.

### MessageFactory and BinarySerializer

A sender and a receiver have factories of their own, and register lists of message
classes in any order, also repeatedly and with the same name for different data
(`registerMessages` stops at the first name that is taken). A packet is serialized
into an `OutputBuffer` of the announced size, capped by the factory's, and throws if it
does not fit. (The code appends value by value and throws at the first that does not fit;
the buffer is then deleted, so only the sum of the sizes counts.) What was sent is a stream of bytes; a `read` takes
any number of them, and `deserializeMessage` takes them for one message. An exception
on the reading thread is caught by nobody and ends the program (`terminated`).
A byte has few values and integers few bytes, so that every width stays visible: an
integer is written in two's complement, a length in its own width, and strings, vectors,
maps, arrays and structs follow the templates of `BinarySerializer`.

A template that calls itself for the types of the parts is a recursive function of the
type: `sizeOf[type][data]`, `serialize[type][data]`, `deserialize(in)[type][i]`, the last
with the index where the value is read. So the types a program uses, and the data it may
write, are constants: `Types` contains the types of the parts of its types, which are
nested less deeply (`Height`; a struct that contains itself through a vector or a pointer,
for which an application would have to write serializers that recurse, is left out), and
`Data[type]` what may be written (`IsOf`: an integer fits its C++ type and a length fits
`size_t`, as nothing else can exist in the program). Not modelled: the ownership of
messages, floating point numbers and pointers (the templates for `T*` copy the `sizeof(T)`
bytes of the object, also of a string or a container, whose contents then stay behind).

### DomNode and JSON

The parser's functions call each other; `calls` is their stack, and an action is what
one of them does up to its next call. Where a character is looked for, an operator says
at which index it is found, or which exception leaves the function (a negative index).
The program builds a tree by assignments or is given a text, writes its tree
and reads it back. `JsonGrammar` defines the documents without an index or a stack.
Not every tree can be carried by a text: a string with a quote in it, a plain value with
a space or without a character, a plain value `null`, an empty array, or a child of a
node that also has a value are lost or refused, so `RoundTrip` speaks of the trees
that `Carried` names, and shows that whatever is read is one of them.

### JsonProtocol

The same program may instead exchange messages: `sendPacket` builds the tree of a message
(name, address, data), writes its text with a zero byte into a buffer that may be too
small, and puts it on a stream; a `read` takes any number of bytes, and
`deserializeMessage` takes them for a text up to the first zero byte. When the read
ended before one, the text goes on with whatever the memory behind the buffer holds
(`Behind`). The data of a message is the application's: a list of integers as in the
handshake, or a tree of any form (`ownTree`). Integers are written by their digits and read by
`atoi`, which stops at the first other character and gives 0 without a digit; a number
beyond `int`, for which C leaves the result open, wraps around as glibc's does on 64-bit
Linux. A stream is FIFO and serializing has no state, so all packets
are sent before the first read. Names of messages and children are one letter.

## 3. Runs

| Run | Bounds | Shows |
|---|---|---|
| `pool_safety` | 2 workers, 2 clients, 3 functions | four invariants of the pool, that it implements `WorkQueue`, and that scheduled work is executed unless the pool is stopped |
| `pool_stop_hangs` | 1 worker | **violated**: `stop` can hang (lost wake-up) |
| `thread_safety` | all kinds of task | flag, ownership, and the end of `stop` |
| `thread_start_window` | a loop that does not block | **violated**: a stop right after start is forgotten |
| `bus_routing` | 3 connections, 2 listeners, 2 sends, nesting 2, 2 disconnections or changes of listeners | table, routing to connections and listeners, where iterators can break |
| `bridge_forwarding` | 2 buses, a node on each, 2 bridges (one standing), 2 pool threads, 3 kinds of packet, 5 possible rules | delivery once per path, nothing sent back, overtaking, exceptions, and that everything sent is routed |
| `net_safety` | 2 clients, 2 connections, 2 messages, early sends | order, handshake, clean-up, and that an answered handshake registers the client |
| `net_init_lost` | 1 client | **violated**: the first message can be dropped |
| `di_cycles` | 3 configurations, 3 beans, up to 2 resources each, 3 calls of `add` | cycles are found iff present, reported minimal, and the search ends |
| `di_context` | 4 programs of 3 configurations, 2 beans; 2 registrations, 2 assemblies, 2 calls by user code | construction, singletons, order of assembly, the verdict, termination |
| `message_codec` | 9 packets of 5 classes, 2 registrations, 2 sends, 16-byte buffer, 15-byte reads | buffers, delivery of whole messages and refusal of parts |
| `json_roundtrip` | trees of 2 assignments of 11 values, texts 1 or 2 edits from a correct one, 2 reads; 9 packets, 2 sends, integers of 16 values, 44-byte buffer, 42-byte reads, 5 texts behind the buffer | documents, round trip, sizes, termination; messages delivered as sent, parts refused |

Violated properties state what a comment or Readme says; `findings` quotes it.
Other behaviour of the same kind is in the models without a run of its own, and
the passing properties say how far it goes: a signal handled between the test of
`m_quitting` and the blocking call is lost (excluded by the premise of
`StopEndsTask`); a broadcast walks a copy of the table, so a connection that was
disconnected meanwhile may still be called (`RoutedExactly` allows it); the
HandshakeCompleteMessage is sent before the client is registered, so a broadcast
in between misses it; stopping the server leaves its clients registered, and so does
a client that closes its connection (the code has a TODO there); a bean whose
constructor threw is reported as a cycle when it is requested again; a configuration
that failed half-way, or is registered twice, cannot be loaded any more because its
beans are registered already; `m_terminating` is never reset, so a pool that is started again
executes nothing (the property `ScheduledIsExecuted` speaks of pools that are not
stopped); a packet for one instance may also reach a neighbour that connects while
it is routed, because the end of the walk was taken before (`RoutedExactly` allows
it to those who came meanwhile); `JsonConverter::size` announces one character for an empty
array and `toString` writes two, which the parser then refuses (`SizeIsExact` and
`Carried` exclude empty arrays); a text that ends too early throws `std::out_of_range`, where
`JsonConverter.h` documents a `ParseException` (`AcceptsDocuments` only asks for a
refusal); a read that ends inside a JSON message can be completed by a closing bracket in
the bytes behind the buffer into another message (`JsonPartRejected` says when a part is
refused); a read that begins inside a JSON message, at data that looks like a message
itself, delivers this data as a message that nobody sent (the run has such data, and
`JsonPartRejected` speaks of reads that begin where a message does); removing a
listener that was added twice, and rules of bridges that send messages in circles
(`ForwardingEnds` excludes them, and nothing in the code does).

Why the bounds are enough to be interesting. Pool: two workers give the lost
wake-up, overtaking and the race of `stop` with both, and with three functions every
slot of the abstract queue fills while one waits behind them. Bus: nesting two lets an inner routing disturb an outer one;
two disconnections (with reconnection) can erase both an iterator and an end;
packets cover known and unknown type, each wildcard, and a message that one
connection does not know. Bridges: two bridges in parallel are the smallest net with two
paths between nodes and with circles; two rules can make a circle, of one message
through both bridges; `MaxWork` is large enough, as a packet that could not be forwarded
for lack of work would stay unfinished and `ForwardingEnds` would fail; `MaxChanges`
allows a destruction, disconnection or removal while packets wait. Network: two connections are two clients at once or one
client that returns while its old registration is still there; two messages make
order visible and let one read swallow a message. Checker: three configurations give
all shapes of circle up to three, with a way that leads into it, and a name or a bean
that is added twice. Context: two calls by user code are a constructor that asks for
another bean, whose constructor asks back for the first; two assemblies are a retry
after an exception. Messages: two registrations on two sides are equal, different,
overlapping and repeated ones; two packets make a read cut the first, join both or
begin in the middle; the sizes of the packets lie on both sides of the buffer and of the
socket's limit. JSON: two assignments give children, grandchildren, replaced ones
and children of a node with a value; two edits remove a bracket together with its
partner, or move a separator; the packets of the protocol have the extreme values of
each integer, data that looks like a message, data with brackets in a string and data that
no text can carry, and sizes on both sides of the buffer and the socket; the texts behind the
buffer close brackets or only go on with a number, a string or a list.

Deadlock is not checked where the program may really stop: a pool whose function
waits for the mutex that `stop` holds, or whose workers missed their wake-up; a
server that has died; listeners and clients that have used up their bounds; a search
or an assembly that is done; a program that has read its texts or whose receiver is gone.

Fairness. Pool: strong fairness for each thread, because a waiting thread is
eventually given a mutex that is released again and again; spurious wake-ups and
calls are never assumed. Thread: weak fairness of the owner inside a call and of the
thread, but no event is assumed to end a blocking call. Network: weak fairness of
the accept thread, of each reader, and of a client inside `connect`; nobody need
send or disconnect. Bridges: the threads of the pool run on (`pool_safety` shows that
a pool that is not stopped does); the application may stop at any time. Dependency injection:
`checkForCycle` and `assemble` go on, and constructors return or throw. JSON: the parser
runs on its caller's thread until it returns or throws.

## 4. Proofs

`ThreadPoolProofs` proves every invariant of `pool_safety` and its refinement for any finite non-empty set of workers, any finite set of clients,
any permitted calls and any number of functions, from the assumptions named in
`ThreadPool`. No invariant but the types is inductive alone, so they are proved in
layers:

1. `Inv1`: types; `LockInv` (a mutex's owner is the thread whose place in the code is
   inside its scope); `BufferInv` (the buffer is the run of the last numbers pushed,
   and a worker about to block has found it empty), which contains `TakeIsSafe`. That
   holds although `m_terminating` is written without the mutex because the flag only
   ever becomes true.
2. `PlaceInv`: everything pushed and no longer in the buffer is finished or held by
   exactly one thread. This gives `ExactlyOnePlace`, and with the order of the buffer
   `FirstComeFirstServed`.
3. `LifeInv`: outside `start` and `stop`, a pool that is not started has no thread;
   this gives `StoppedIsQuiet`.
4. `NoLostWakeup` is inductive on top of these: a push adds a notifier, a notifier
   leaves only after waking a sleeper, and a worker goes to sleep only on an empty buffer.
5. Refinement: what is skipped when a function begins, and what is in service, are
   held by distinct other workers, so they fit in the other slots.

`ThreadLifecycleProofs` proves `AliveIsAccurate`, `NeverOverwritten` and
`StopMeansGone` from one invariant relating the owner's place to the thread's.

`CircularDependencyCheckerProofs` proves `SearchPath` and `CycleIsReal` for any graph,
from an invariant that adds that the walk is empty between two searches. That no cycle
is missed (`NoCycleMissed`) is an invariant over every circle of configurations
(`CircleInv`): no member of one has been dealt with yet, neither in the loop of
`checkForCycle` nor in that of a call, because a loop over a member's resources would
have to pass the one that leads on along the circle, and the call made for it would
have returned before: each finished loop needs an earlier one. Both
directions together are `AnswerIsExact`, on which `Context` relies.

`ContextProofs` first shows that every operation of the manager preserves `CallsOnStack`,
which is what makes the cycle check reliable in spite of names left behind:
`getBean` refuses a name on the stack, hence no constructor is re-entered
(`NeverReentered`), hence a singleton is made once (`SingletonOnce`). It then
lifts this to whole programs and adds `ActiveInOrder`: while `assemble` is at a
configuration, the resources it has passed are registered by configurations built
before (`Progress`), and beans are never removed or replaced.

`NoConfigurationLost` (`NothingLost`) counts positions: `AccountInv` says that the
registrations of a class are as many as its wrappers and its active configurations, and
the lemmas before it say what appending to, joining and erasing from a list do to the
number. `VerdictTheorem` (`VerdictIsRight`) is an action property. Its invariant `WaitInv`
says that a wrapper's list has lost only names whose beans are there, and that in a
pass that has loaded nothing the wrappers already visited are `Tested`: their lists are
what they lack now, and not empty. The last step of such a pass has therefore tested all of
them against the same beans, and the graph given to the checker is the graph of what
is lacking (`CheckerIsGiven`). The only assumptions are that a
program has finitely many classes and that they declare what the macros let them
declare. That registering a class with its dependencies, which may go round, pushes a
finite list is proved (`DependenciesList`), by induction on the classes that are not being
registered.

`BridgedBusesProofs` is about any number of buses, nodes and bridges, any rules and any
interleaving. `BusesUseThePool`: every step of the buses is a step of `WorkQueue`, or none;
`OvertakingIsBounded` (`FewOvertakers`) follows from the queue's promise alone: what a
packet has overtaken when it begins is what it skipped or what is in service, which leaves a
slot, and later it only shrinks. The others rest on the invariant `BusInv`:

1. `ListenInv`: a connection's only listener is the node or forwarder that uses it, as
   long as that exists.
2. `NodeInv`: bridges have rules only from the time they are built, and are connected on both
   sides until their destruction begins; processors convert to classes of their type.
3. `PacketInv`: only packets in service have calls left, and those are for listeners that
   still exist, of other connections of the sender's bus (any change of that would have been
   a race); a forwarded packet is sent by the connection of the last forwarder.

A forwarder that receives a packet listens on the sender's bus and on another
connection than the sender, so neither it nor its twin has sent it: `NeverSentBack`. A
forwarder that is called still listens, so its bridge is built, and then connected, or half
destroyed: `CrashOnlyByMisuse`.

`NoCopiesOnAPath` (`OncePerPath`) adds `PathInv`: no two packets have the same origin and
trail. A forwarder's packet extends the history of the one it received, and the call
in which that happened is used up (`Done`), so no second packet with this history can be
made; the same holds for what a node is given.

`LocalBusProofs` is about any set of connections and listeners, any packets and any depth of
nesting, with listeners that send, connect, disconnect, come, go and throw inside the
loops. `TableIsExact` needs only the table's part of the invariant: the flag of a
connection is the only thing that keeps it from being inserted twice. For
`RoutedExactly` the invariant describes every routing on the stack (`FrameInv`), also those
that wait for an inner one to return:

1. `CallInv`, `WalkInv`, `CopyInv`: where the iterators can stand. A frame that is not
   broken has its iterators on connected elements of its own type, in order.
2. `SentInv`, `RangeInv`: who is expected follows from who was connected and listening
   when the packet was sent, up to those recorded as touched, and what is expected lies in
   the range between the iterators.
3. `CallsInv`: an expected listener has been called, waits in the loop over its
   connection's listeners, or its connection is still ahead; and nobody is both.

The order of the table makes this work: an address is fixed, so a connection that leaves and
returns comes back at the same place, before or behind the iterator as it was, and
cannot be met twice. A broadcast is simpler, as it walks copies, but its types are
reached one after the other. `UndefinedOnlyByErasure` follows from the first group. The
constants need the assumptions of `LocalBus`: addresses are unique positive numbers
(the Readme's demand), packets are addressed by integers, and no connection is named
like an iterator's mark.

`NetworkBusProofs` is about any number of clients, connections and messages, for clients
that wait for the handshake and for those that do not. `NetInv` has, for each connection:

1. `PhaseInv`: how far the handshake is, by the place of the reader thread, who listens, and what
   can be on the streams then; `AnswerInv`: at most one answer is on its way, and only to the
   handshake.
2. `CompleteInv`: before the HandshakeCompleteMessage is sent the stream has at most the
   HandshakeInitMessage, and afterwards begins with it until it is read. This is
   `CompleteComesFirst`.
3. `MapsInv`: registered connections are those past the handshake, and handshakes in
   progress are in the handler's map, unless a map was raced for. This gives `SafeToSend` and
   `HandshakesCleanedUp`.
4. `SendInv`, `OrderInv`: the messages of one sender are in order on its stream, newer than
   those routed, and those on the streams of the receivers are no newer than the one
   being routed, and older where that has still to be sent. This gives `OrderedDelivery`.

`MessageFactoryProofs` is about every set of types, all widths of bytes and integers, and any
messages, registries and buffer sizes. The functions of `BinarySerializer` are recursive
along the nesting of types, with a loop over the parts inside, so before anything can be
said of them it has to be shown that they exist:

1. `NatInductive` and `HeightInduction` are induction for a set of numbers or types, got
   from the well-foundedness of the natural numbers. `RunExists` and `RunUnique`: a loop has exactly one
   run; `FixpointExists`: a recursion along the nesting has a solution. This gives the
   equations of the three functions (`SizeEquation`, `BytesEquation`, `ReadEquation`), the last
   for any bytes whatsoever, also those that nobody has written.
2. `ValueOfBytes`: an integer that fits is read from its bytes, with its sign.
3. `SizeIsLength`: what `sizeOf` announces is what `serialize` writes.
4. `ReadAsWritten`: where a buffer holds the bytes of data as far as it reaches,
   `deserialize` gives the data and moves behind it if the buffer reaches that far, and
   throws otherwise. The induction goes over both cases at once, because the loop over
   the parts stops at the first part that the buffer cuts. Maps are read back because every
   key is written once (`MapOfPairs`).

With these the state machine is simple. `CodecInv` says that both maps of a factory have the
same classes, also after a registration that failed half-way (`RegisteredInBoth`), and that the
bytes of each packet are in the stream from where it began; with `PacketRead` this gives
`DeliveredAsSent` and `PartIsRejected`, and `MessageSize` gives `BufferIsExact`. The assumptions
are those on the constants: `WidthAssumption`, `TypesAssumption`, `DataAssumption`,
`PacketsAssumption` (what is sent is data of the class's type) and `FactoryAssumption`.

Some invariants are proved and not checked by a run of their own: `TypeOK` of the pool,
the thread and the checker, `FirstComeFirstServed`, `StopMeansGone`, `SearchPath`,
`CallsOnStack`, `StackIsCallStack`, `ExactAnswer` and the inductive invariants themselves,
which are layers of the proofs above.

Only model-checked: all liveness (TLAPS does not reason about fairness here), and what
is said of JSON (`AcceptsDocuments`, `RoundTrip`, `SizeIsExact`, `JsonDeliveredAsSent`,
`JsonPartRejected`): trees, texts and the grammar are recursive operators, which the prover
cannot use. Every other safety property of the passing runs is a theorem.

## 5. What is left

The models cover pool, threads, local, threaded and remote bus, listeners, nodes and
bridges, dependency injection, messages in both protocols and JSON; the proofs cover every
safety property outside JSON. What could be added:

1. JSON with functions of bounded depth in place of recursive operators, as in
   `BinarySerializer`, and proofs by induction on the depth.
2. Shorter proofs where lemmas of `LocalBusProofs` and `NetworkBusProofs` can be shared.

Not modelled, and why: the local protocol (every function throws; packets on a local bus are
never serialized); `NetworkInfo`, exception texts, the tests and the vendored mocking
library (no state or control of their own); the memory of prototypes, packets and
buffers, and destructors other than those of nodes and bridges; auto-registration of beans (a
build option) and the instance that `SmartSingletonBeanCreator` shares between managers
(it matters only to programs with several managers, which the models do not have);
`clientDisconnected` and the deregistration of clients (nothing calls them); floating point
numbers.
