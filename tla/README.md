# A TLA+ model of the Y window system

Y is a window system: a single-threaded server (`Y/`, C) that owns the screen, the keyboard and
a tree of widgets; drivers, themes and a window manager that it loads as modules (`modules/`);
and a client library (`libYc++/`, C++) through which applications create objects in the server,
call their methods and receive their signals. This directory holds TLA+ modules translated from
the source, configurations that check them with TLC, and proofs that TLAPS checks.
`PROJECT.json` says for every definition which lines of the source it models.

1. [The system](#the-system) · 2. [Modules](#modules) · 3. [Runs](#runs) ·
4. [Bounds and fairness](#bounds-and-fairness) · 5. [Proofs](#proofs) ·
6. [Where the code falls short](#where-the-code-falls-short) ·
7. [Not modelled](#not-modelled) · 8. [Plan](#plan)

## The system

| part | state | operations | what is hard | what makes it correct |
|---|---|---|---|---|
| event loop (`Y/main/control.c`) | table of descriptors with masks and callbacks; queue of timers; signal handlers | register, change, unregister; delay, cancel; iterate | callbacks change the table and the queue while the loop goes through them; descriptor numbers are used again | a callback gets what `select` said about *its* descriptor; no timer is early, none is forgotten |
| Unix driver (`Y/main/unix.c`) | per client a control socket, a channel, an input and an output queue, queued control messages | accept, authenticate and pass a channel, read, write, close | partial reads and writes; end of a client at any moment; a full table of descriptors | descriptors and registrations agree; what is queued is watched for writing; replies are complete and in order |
| clients and messages (`Y/message`) | index of clients; per client its objects and its subscriptions to objects of others | register, close, reassemble and despatch messages, encode and decode values | pieces of messages; arguments of other types; a message that closes its sender | what is sent is received; a call gets the arguments that were given, in the types it asks for |
| objects and classes (`Y/object`) | index of objects, owner, properties, per signal a list of subscribed clients; chains of classes | create, destroy, subscribe, emit, invoke, get and set properties | a subscription is recorded at the object and at the client; memory of clients is used again | index, owners and tables agree; events go only to who asked; a property keeps its type |
| client library (`libYc++/Y/c++`) | buffers, list of messages, map of replies, lists of descriptors, mode; map of objects; set of timers | send, wait for a reply, poll, dispatch, `run()`, `runThreaded()`, `stop()`; construct and delete objects; set and cancel timers | threads, a mutex for each structure; handlers that make requests, delete objects and timers, and register descriptors from inside the dispatch | messages are handled in order and once; each request returns with its reply; the maps name what exists |
| containers (`Y/util`) | queue of timers, red-black trees with and without parents, lists, z-order, hash table, chains of buffer elements | insert, remove, find, walk, iterate | redundant links and counters; rebalancing loops; iterators that move both ways past either end; walks whose functions remove what they visit; offsets at boundaries | each implements the abstract container it stands for |
| screen and viewports (`Y/screen`, drivers' events) | list of viewports with invalid rectangles and update timers; size; renderer with a stack of regions | register, resize, invalidate, update, render | the update is delayed, and its identity is the flag that one is on its way; several viewports show one screen | every stale point waits for an update; what is rendered is what is on top |
| pointer (`Y/input/pointer.c`) | position, widget under it, grabbing widget | move, press, release, grab | the widget under the pointer is destroyed; the screen shrinks | the pointer is on a viewport; enter and leave alternate |
| keyboard (`Y/input`) | focus, keymap state, modifiers; keymaps and options read from a file; a compiled automaton; key that repeats | strokes, repeat, actions, load, update, select maps | actions of the automaton rebuild the automaton; references to keymaps are counted; one timer is replaced from three places | the state is a node of the automaton in use; each map is freed once |
| widgets (`Y/widget`) | tree of containers, windows in z-order, geometry, two layouts, buttons and radio groups, console, canvas | add, remove, raise, focus, lay out, drag, paint | plain pointers to widgets that clients destroy; what is kept in two or three places; division of sizes with remainders | parents, children, focus and grab agree; layouts fill their space and respect minimum sizes |
| buffers and painters (`Y/buffer`) | pixels, hints of sizes, list of painters with saved states | create, resize, lock, paint, destroy | memory moves while painters refer to it | a painter draws on the memory the buffer has |
| modules, themes, window manager (`Y/modules`, `modules/`) | loaded modules, chain of themes, the manager in charge | load, unload, manage a window | order of unloading | the chain names what is loaded |
| configuration (`Y/main/config.c`) | groups of items with values | parse, look up | lines that are nothing | what the file says is what is found |
| sample clients | the calculator's stacks | keys | precedence | the display shows the value of what was typed |
| start-up, tracing, text, themes' painting, GLX | | | input and output, or pixels | |

How they interact: the event loop calls the driver (descriptors), viewports, the keyboard and the
display drivers (timers). The driver feeds `clientReadData`, which despatches a message to a
method of an object; replies and events go back through the client's output queue. Objects hold
clients (subscribers), clients hold objects and subscriptions. Input comes from a driver to the
pointer and the keyboard, which hand it to the desktop and the focussed widget; widgets invalidate
rectangles of the screen, and a timer renders them. In a client process one thread or
more send requests into a shared buffer, and whichever thread polls moves bytes and dispatches
messages for all of them.

## Modules

The code has one thread in the server, so one action is one message, one callback, one event of
input or, where a loop repairs a structure or a callback runs inside it, one round of that loop. In a client with threads one
action is one critical section or system call. Variables have the names of the fields they stand for.
A variable `crashed`, `undefined`, `twice` or `aborted` is set where the C program would follow a pointer to
freed memory, free something twice or abort; nothing is claimed after that, and a property says that it does not happen.
Where freed memory *may* still work, the step has both outcomes. History variables
(what was asked, said, due) are read by properties only.

### The server's core

- **`ObjectSystem`** — `object.c`, `client.c`: objects, owners, subscriptions. A client is the memory block its
  record occupies, because that is what a list of subscribers holds, and `clientClose` gives the block back for the next connection.
  `Disciplined` separates clients of libYc++, which name only objects they created, from arbitrary ones. Two actions are
  disabled for them, so that `LibrarySpec`, which the run checks, leaves those out of `Spec`, of which the theorems speak.
- **`Transport`** — `control.c` (descriptors), `unix.c`, reassembly in `client.c`, and the client's
  end in `connection_unix.cc`. The lowest free descriptor is used next, so that a number can change
  hands while the loop holds what `select` returned (`ready`). A callback with both bits set is two actions, `...Read` and
  `...Write`, because the first may close what the second uses; a write moves unit by unit and the client reads meanwhile.
- **`Timers`** — the timers of `control.c` with three users: the repeat of keys, the delayed update
  of a viewport and the polling of a display, inside which keys go down and up. Times are seconds and parts of a second, added as
  `controlTimerDelay` adds them and compared as the loop compares them. Its queue is the set of `TimedQueue`.
- **`Methods`** — `tuple.c`, `message.c`, `class.c`, `object.c`: a request names an object, a method
  and arguments; a method is looked for in the class and those above, one of its types is chosen, the arguments are cast and the function is called; the result, or nothing, goes back.
- **`Wire`** — the encoders and parsers of both sides and the two loops that take messages out of a stream.
- **`Modules`**, **`Config`** — loading and unloading with what themes and window managers do then; the parser of the configuration.

### The client library

- **`Connection`**, contract **`RequestReply`** — threads, buffers, replies. A thread is a stack of
  frames, one for each call in progress, because a handler may make a request whose poll dispatches the next
  event and so on. The server is a pair of bounded queues with answers in order (`Serve`) and events at any time (`SendEvent`).
- **`Descriptors`** — the two lists given to `poll`, registrations made inside callbacks and by another thread.
- **`Proxies`** — objects and classes whose numbers are asked for at first use, with everything that
  may be dispatched while the constructor's answer is waited for.
- **`ClientTimers`** — timers and tickers, which set, cancel and delete each other in their callbacks.
- **`Calculator`** — `clients/calculator`.

### Containers, each with its contract

| module | code | contract |
|---|---|---|
| `PQueue` | `pqueue.c`, a linked list with a pointer to its last node | `TimedQueue`: earliest first, of equals the oldest |
| `RBTree` | `rbtree.c`, with parents and a `nil` node | `SortedIndex`, without its iterator |
| `Index` | `index.c`, without parents, an explicit stack, iterators | `SortedIndex`: a set, and an iterator over it |
| `LList`, `ZOrder` | `llist.c`, `zorder.c` | `ItemList`: a sequence, moves to an end or past a neighbour |
| `HashTable` | `yhash.c`, `yprimes.c`: chains that grow and shrink, owned keys and values | a dictionary, stated in the module |
| `DBuffer` | `dbuffer.c`: chains of elements and the shared free list; memory is an array per element, so that a copy to the wrong offset shows | `ByteQueue` |

The two mirror images of a rebalancing case are one action with a side as its parameter.
`AnyDeleted = FALSE` leaves out exactly the deletions of case `Detaches` of `RBTree` (see
[below](#where-the-code-falls-short)).

### What the user sees

- **`Desktop`** — `desktop.c`, `window.c`, `widget.c`, `pointer.c`, the default window manager: the
  stack, the selected window, focus, grab and dragging. Without geometry: an event may hit any node.
- **`WindowGeometry`** — one axis of a window that is dragged, resized by any edge, constrained, maximised, and pushed back when the screen shrinks.
- **`GridLayout`**, **`RowLayout`** — sizes shared by columns and cells, with what happens to the widget the pointer is in.
- **`Buttons`** — buttons, toggles and radio groups under a pointer, with clients that set them.
- **`Screen`** — invalid rectangles, viewports, updates and the pointer's place; **`Rendering`** — one
  update of a viewport through the stack of regions of the renderer, in one dimension.
- **`Painting`** — buffers that change size and the painters and canvases that use them.
- **`Console`** — cells, colours, scrolling and resizing, with the size that the terminal believes.
- **`KeymapFile`** — the tables of keymaps and options with their counted references, loads that fail in the middle and updates;
  **`Keyboard`** — keymaps compiled to an automaton that strokes drive and whose own actions replace it.

### Harnesses and proofs

`MCStructures`, `MCDesktop`, `MCServices` and `MCControl` instantiate several components over disjoint
variables. A variable `which` chooses at the start the one that works; the others keep one
initial state. Their properties are conjunctions: each part belongs to one component and is defined, with its comment, in that component's module.
`ObjectSystem`, `Connection` and `Transport` are checked as they are. `ObjectSystemProofs`, `TimersProofs`,
`TransportProofs`, `ConnectionProofs` and `PQueueProofs` hold the theorems about the module they are named
after, `ServicesProofs` those about `ClientTimers`, `Descriptors`, `Modules`, `Proxies`, `Console` and `Methods`. `DesktopProofs` extends the harness
`MCDesktop`: it holds the theorems about `Desktop`, `WindowGeometry`, `GridLayout`, `RowLayout`, `Buttons`, `Screen`, `Rendering` and
`Painting`, and from them those about the harness's own properties. What they suppose of the constants has names in
`MCDesktop`, where `ASSUME Supposed` has TLC evaluate it for the instance that the run checks.

Operators under a comment that begins with "Mutation" are wrong versions of the definition that follows: they
stand for mistakes a change of the code might make, and every property checked is one that some
mistake breaks; the parts of the harnesses' conjunctions have mutations of their own.

## Runs

| run | what it asks | answer |
|---|---|---|
| `objects_library` | clients of libYc++ come and go: do index, owners and tables agree (`OwnershipAgrees`), is no released record used (`NeverUndefined`), does every subscriber and every event belong to a client that asked (`SubscribersAsked`, `EventsAsked`)? | yes; 56 k states |
| `connection_single` | one thread makes requests, and handlers of events and `run()` make more, so that polls nest: order (`InOrder`), no abort or NULL (`NoFault`), no reply lost (`NoLostReply`), `stop()` ends the loop (`StopEnds`), requests are asked, answered and returned from, and end (`KeepsContract`) | yes; 109 k states |
| `connection_threaded` | `runThreaded()` and an application thread with requests: what is received is dispatched (`ReceivedIsDispatched`) while a timer is due | yes; 95 k states |
| `connection_wakeup` | the same property when no timer is due | **no**: a wake-up is lost |
| `transport` | two clients that may end at any moment, one may quit, and a table of descriptors that fills: `RepliesInOrder`, `DescriptorsAgree`, `WellDirected`, `QueuedIsWatched` | yes; 152 k states |
| `control_loop` | three users of timers and time that passes at any moment (`OneRepeat`, `UpdateOnItsWay`, `NeverEarly`, `EveryTimerEnds`); a client that stays gets its channel and every reply (`EveryoneServed`) | yes; 146 k states |
| `structures` | seven containers: `TreesBalanced`, `LinksAgree`, `KeepContracts`, `LoopsEnd` | yes; 40 k states |
| `rbtree_delete` | `TreesBalanced` with every deletion | **no**: the tree is damaged |
| `desktop` | eight parts of what the user sees: `FocusFollows`, `SizesFit`, `PointerFollows`, `ScreenKept`, `ReshapesRight` | yes; 751 k states |
| `services` | twelve parts of what server and library keep: `MapsKept`, `ServerAgrees`, `ClientAgrees`, `CallsRight`, `CellsKept` | yes; 175 k states |
| `errors_unsent` | a failing request is answered | **no**: it is not |
| `keyboard_words` | `MapsKept` when the configuration names two keymaps | **no**: the state is a freed node |

What the conjunctions of the harnesses say, part by part:

- `TreesBalanced`: `RBTree!Sane`, `Index!Verified` — search trees, balanced, with the right count and parents.
- `LinksAgree`: `ListShape` (the queue's last node), `ZOrder!Agrees`, `LList!Sane` (links both ways, length,
  nothing freed twice), `Consistent` (every key in its slot, owned pointers destroyed once), `Accounting`,
  `ElementsOnce`, `ReadsAgree` (buffers).
- `KeepContracts`: each container begins as its contract does, and each of its steps is one of that or none.
- `FocusFollows`: the selected window is the one on top (`SelectedOnTop`); the keyboard is with its focus, unless that
  widget was destroyed (`KeyboardFollows`); windows and children name each other, and the only pointers that a destroyed
  object leaves behind are the focus of a window and the grab (`References`).
- `SizesFit`: a window is as large as its child asks, also when the screen shrinks (`Constrained`); the columns fill the
  layout and each widget gets its columns and its minimum (`Tiled`); a buffer's memory holds its size, painters draw on
  the memory there is, and save and restore pair up (`SurfaceFits`, `PaintersLive`, `StatesMatch`).
- `PointerFollows`: enter and leave alternate and at most one widget is entered, in both layouts
  (`EnteredOnce`); what is pressed twice in memory agrees, one radio button of a group is selected, a held button has the grab (`OnlySelected`, `HeldWhileDown`).
- `ScreenKept`: what is stale waits for an update that is due, and no timer is left for a viewport that has gone (`StaleIsQueued`,
  `TimersLive`); the screen is the smallest that covers its viewports (`ScreenCovers`), and the point the pointer is moved to
  is the nearest on them (`NearestFound`); when an update is over, what is on top is what is shown (`RendersRight`).
- `ReshapesRight` (steps): the edge not dragged stays unless a maximum intervenes, and the handle is under the pointer
  (`OtherEdgeStays`, `HandleUnderPointer`); the cells of a row make up its width to the last pixel (`RowTiled`); rendering
  an update changes nothing outside the part it is for (`StaysInside`).
- `MapsKept`: references to keymaps are counted right and each is freed once (`RefsCounted`); the state
  of the keyboard is a node of the map in use (`MapInUse`); keycodes bind late, to the last keymap that names them (`BindsLate`), and
  the order of definitions within a keymap does not matter (`OrderFree`).
- `ServerAgrees`: the chain of themes and the manager are loaded; a property has the type of its class; the
  console's size is the product that its array has; what a configuration says is what is read; with clients that name any object, objects and owners agree
  and a client's record of a subscription has its counterpart (`OwnershipAgrees`, `RecordsBacked`).
- `ClientAgrees`: messages arrive as they were sent, none is left waiting and a cut one is refused; the numbers
  of objects agree with the server's and an event finds its object; the set of timers is what
  the timers think; the two lists of descriptors are equal when both are needed; the stacks of the calculator match.
- `CallsRight` (steps): a call is made with the values that were given, of the types asked for; an update of keymaps happens as
  a whole or not at all; a modifier pressed in the middle of a sequence of keys leaves the sequence where it was; no timer's function runs
  early or twice in a pass; each ready descriptor is served; the result is that of what was entered.
- `CellsKept` (steps): each cell that changed is painted again, scrolling keeps the lines it moves, resizing keeps the cells that fit.

Besides, every module with variables has a type invariant, which the run of its harness checks (`TypeOK`).

`CHECK_DEADLOCK FALSE` is given where the modelled system may rest: a server without clients
waits in `select`, a connection without requests has nothing to do, the bounds on time and on
inputs end a behaviour. `ObjectSystem` is checked for deadlock as well.

## Bounds and fairness

*ObjectSystem.* Two blocks are enough for a block to pass from one client to another while a
third party refers to it; four objects let one client own several and destroy them in any order. Arbitrary
clients (in `services`) have two objects, so that each may be a stranger's or the server's.

*Connection.* Four requests, two of them in handlers of the two events, let requests nest while the first waits and
leave one to be made afterwards; a socket of two messages lets an inner dispatch find what an outer one has not handled yet, and makes reads and writes partial. Sequence numbers do not wrap.

*Transport.* A message is two units, its length and its body, so that a transfer can end between
messages, inside one, or (`control_loop`: three units) span several. With six descriptors the listening socket, two control
sockets and two channels, each of which needs two while it is made, do not all fit.

*Timers.* With three parts of a second and delays of up to a second the carry, the equality of
times and the order of seconds and parts all occur. The code's intervals are 500, 50, 20 and
10 ms; `IntervalsAssumption` says that no interval is longer than a second, which
holds for every caller in the tree.

*Containers.* Five events with three times: each place of insertion and removal, with ties. Trees of five keys
reach every case of both loops on both sides. Buffers of elements of two bytes, additions of up to two: before, at and after the end of an
element. Hash sizes 1, 2, 5, keys that collide in all of them. Lists of three nodes: first, middle, last.

*Desktop.* Two windows, two widgets and the root: one window selected over another, one destroyed while it is dragged. On
an axis, two sizes of the screen and of minimum and maximum, with a window that is moved beyond both edges. Two widgets and two
columns, with an odd width so that there is a remainder; numbers are of 8 bits. One plain button, one toggle, two
radio buttons and two groups to move between. Two viewports of different shape, of which one can leave.
A screen of four points with overlapping windows that begin and end outside it. Buffers below, at and above the hint (4 for 800).

*Services.* Words of two digits to base 32, and sequence numbers up to 3, so that both the sign and the wrap occur; two messages
on the way, cut anywhere. Three classes, one below another, with methods that
accept the same arguments by different casts. Three themes, two window managers. A keymap with a modifier, keys that set, clear and toggle others, an alias, a dead key, a second
map and an option with a sub-option selected by keys. Three objects of two classes, one of which the server does not
create, events for them, calls nested three deep. A console of up to two columns and three lines. Files of two items with noise between.

*Fairness* is weak fairness only: of a thread's or the server's own steps, since the scheduler runs what can
run; of the passing of time; of a client's steps where a client is said to stay, and of its reading by itself, because a
client's poll reads whenever there is something; of the rounds of a rebalancing loop, which nothing interrupts. Nothing obliges a
client to make a request or an event to happen, a key to be pressed, a wake-up to be spurious.

## Proofs

`ObjectSystemProofs` (for any sets of blocks and signals and any number of objects):

- `TypeCorrect`, `Ownership`: from the inductive invariant `OwnInv`, which adds to the types and
  `OwnershipAgrees` only that ids not yet handed out name no object (`FreshIds`). Without it,
  filing a new object under its client might steal the object of another.
- `LibraryNeverUndefined`, `LibrarySubscribers`, `LibraryEvents`, under `Disciplined`: from
  `LibInv`, which says that a subscriber is the owner of the object (so it is connected, by
  ownership), and that no client holds a record of a foreign subscription. That is why closing a
  connection finds nothing stale to follow. None of the three properties is inductive by itself:
  a list of subscribers that names a closed client is harmless until the block is used again.
- `Records` (`RecordsBacked`), for clients that name anything, from `RecordInv`: what a client's record keeps of a subscription was handed out before
  (`RecordsOld`), so an id that is new is in no record, and the new owner's record cannot be about its own object.

`TransportProofs` (for any clients, any number of descriptors, any capacities):

- `TypeCorrect`, `Registrations` (`DescriptorsAgree`), `Despatch` (`WellDirected`), `QueuesWatched`
  (`QueuedIsWatched`), from `IInv`: the types; `ServerInv`, which is what holds of the server between any two steps — its
  end of a socket is open once (`Once`), what is registered is open (`Registered`), what a client record holds is open
  and belongs to it (`Held`, `Owned`), and its mask says whether its queue is empty (`Watched`); `Waiting`,
  where the loop is; and `Directed`.
- `Streaming` (`RepliesInOrder`), from `SInv`: for each client, the replies it has, those on the way and
  those queued, followed by what the server has read and not answered and what it has still to read, are one
  stream (`Streamed`), which a read cuts anywhere; each operation moves a piece from one part to
  the next (`Regroup`), and answering a whole message takes it from the front of the rest
  (`NextUnit`, `Reading`). `Untold` keeps that of `written` for which no
  callback is responsible at 0, and the sockets of those who have no channel empty.
- `WellDirected` is not inductive: a number that is closed in the middle of a round may be given out again in the same round, and `select`'s
  sets still speak of its last user. What saves the loop is an order: new descriptors come only from the listening socket, which has the
  lowest number and is despatched first, and from a control socket, which the sets
  spoke of too; `Directed` says so of every number still to come in the round.
  The lowest free number exists because finite sets of numbers have a least element.

`ConnectionProofs` (for any threads, requests, events, and handlers that make requests, to any depth):

- `TypeCorrect` (`TypeOK`), from `TypeInv`, which adds `Stacked`: which calls can lie on each other in the stack of
  each thread, and at which step each waits for the one above. A stack grows and shrinks at its top alone
  (`Moved` and its companions), so a step proves what is new at the top.
- `OrderIsKept` (`InOrder`) and `NeverFaults` (`NoFault`), from `Safe`. `Control` says what `state`,
  `stopping` and the stacks tell of each other, `Sections` who holds the list of descriptors and who a popped message,
  and `Numbered` which sequence numbers are given. Neither property is inductive: order needs that no two threads hold a
  popped message at once, which depends on where each thread is in its calls.
- Their hypothesis is `OneDrives`: either no application thread but `Main` makes requests (handlers may, to any depth, in
  `run`, `poll` or `runThreaded`), or the loop is `runThreaded`'s and nobody stops it or only one thread makes requests. It
  covers both passing runs. Without it two threads poll at the same time, and TLC refutes
  what follows from the lists (`ListNotNull` in the next section).

The second part of `ConnectionProofs` (where no other application thread makes requests: `Apps \cap Callers = {}`):

- `NumbersDiffer` (`UniqueSeqs`), `NoReplyIsLost` (`NoLostReply`): from `Contracted`. The number a request
  has taken and not stored is its own (`Fresh`), an answer on the way belongs to a request that is registered or about
  to be (`Replied`), and a request between sending and registering is the
  only one in hand (`Awaited`, with `OneActive`: one thread at a time is anywhere else than at rest or in the poller). That is
  why the late registration (`connection.cc:312`) does no harm in one thread: nobody else can process the answer.
  With other threads TLC refutes both properties.
- `ImplementsContract`: `Spec => Contract!Spec`, each step maps to a step of `RequestReply` or a stutter. The liveness of
  `KeepsContract` is checked only.

`TimersProofs` (for any keycodes, any division of the second, any intervals of up to a second, any bounds):

- `TypeCorrect` (every time in the queue is normalised), `RepeatTimer` (`OneRepeat`),
  `ViewportUpdate` (`UpdateOnItsWay`) and `Punctual` (`NeverEarly`, an action property), from
  `IInv`: types, fresh ids, the two properties, and `Exact`, that the time of an event stands for
  the instant it is due and that the loop's `now` is not ahead of the clock. The arithmetic is
  in `Split`, `OneSecond`, `MoreSeconds` and `DelayIsExact`.

`PQueueProofs` (for any number of events and any times; `Numbers`: times, and the bound on the number of insertions, are natural numbers):

- `Shape` (`ListShape`) and `Implements` (each step of the list is a step of `TimedQueue` or none), from `Chain`: the `next` of a node is
  its successor in the order of time, then of age; the first node is the least, the last the greatest. That invariant is about
  pairs, and says nothing of paths: what the loops of insertion and removal reach by walking is found as the least element of
  a finite set (`LastOf`, well-foundedness of strict inclusion), in place of an induction along the list.

`DesktopProofs` (for any windows and widgets):

- `TypeCorrect` and `Focus` (`FocusFollows`), from `IInv`:
  unless the server has crashed, the stack names each window once, each can be found in it (`Proper`) and lives (`Shown`), the
  selected one is its top (`OnTop`), a window that is dragged has the grab, and one that has the grab and lives is in the stack (`Dragged`),
  and windows and children name each other (`Packed`). The properties need all of it together, because raising,
  destroying and cycling each look the window up in the stack and use what they find.
- Hypotheses: `Disciplined` (no window is shown twice, none and no widget given away twice: with either, `References` is refuted,
  see the table in the next section) and `Distinct` (a window is no widget).

The second part of `DesktopProofs` is about the other parts of the harness:

- `RadioGroups` (`OnlySelected` of `Buttons`) is inductive with the types: each way to press, set or move a button ends with a
  group that has selected what is pressed (`RadioSet`, `GroupSet`), and a button that moves leaves the old group before it is pressed in the new
  one. `PointerReleased` (`HeldWhileDown`) needs `HeldHeeds`: a button that has the pointer is enabled, so the release finds
  it. Hypotheses: `ButtonKinds` (the kinds are disjoint, clients give 0 or 1), and for the second that no client disables a button that is held.
- `SurfacesFit` (`SurfaceFits`) and `PainterKept` (`PaintersLive`, `StatesMatch`) of `Painting`, from `SurfaceInv` (while its window is
  dragged a buffer has the memory of whole blocks, otherwise of its width) and `PainterInv` (one painter, on the back buffer).
  Hypotheses: `WidthsAreNumbers`, and `Sparing`, the three constants of the table in the next section.
- `WindowsFit` (`Constrained`) and `DragsFollow` (`OtherEdgeStays`, `HandleUnderPointer`) of `WindowGeometry`, from `GeometryInv`; `MotionIs`
  says what one motion does to each edge. Hypothesis: `SizesAreNumbers`, which asks for a least minimum as well.
- `GridTiled` (`Tiled`) and `GridEntered` (`EnteredOnce`) of `GridLayout`, from `GridInv`: the columns make up the width (`Tiled`),
  the grid holds each widget once and only widgets that live (`Holding`), and only a widget that it holds is entered, none while the pointer
  is elsewhere (`Pointing`). Hypothesis: `GridNumbers`, for any width of the integers of the code.
- `RowIsTiled` (`RowTiled`) and `RowEntered` (`RowEnteredOnce`) of `RowLayout`, from `RowInv`. The surplus of a row is shared out by
  a division per stretching cell of what is left, so that the last one gets the remainder; the sum over any
  number of cells is the width because what is left after each cell is a function of what the cells up to it got. Hypothesis: `RowNumbers`.
- The sums of both layouts, and the bounds of the screen, are recursive functions on `0..n`. `Recursion` and `Unfolded`
  give such a function its equations and `SumsAre` its type; where a claim is about every argument, the least for
  which it failed leads to a contradiction (`LeastNumber`, `UpTo`), in place of the library's induction.
- `RendersInside` (`StaysInside`) of `Rendering`, from `RenderInv`: the stack of regions has one entry for each level that
  the walk has entered and not left (`Levels`), each lies within the part that is updated (`Clipped`), and what is still to be
  called is the rest of one walk of the tree of widgets (`Walking`, `RestOf`).
- `RendersTop` (`RendersRight`): when the update is over, each point of it shows the topmost thing there. The order of the calls
  of an update is divided into layers (`Layer0` to `Layer5`: the desktop, its background, the first window, the second, the child of the second, the pointer). `Progress` says, for each
  stage of the walk, that a point shows the topmost of the layers drawn so far (`Picture`), and
  that the region on the stack places it where the tree does (`Regions`, `Sees`). A subtree that the walk skips, because its part of the update is
  empty, would have changed nothing. Hypothesis of both: `RenderNumbers`, for any two windows, children and pointer.
- `StalePainted` (`StaleIsQueued`), `ScreenIsBox` (`ScreenCovers`), `PointerNearest` (`NearestFound`) and `NoTimerLeft` (`TimersLive`) of
  `Screen`, from `ScreenInv`: an update of a viewport is due exactly when it has invalid rectangles, and has a timer (`Queued`), the list of
  rectangles covers what is stale (`Listed`), and the size of the screen is the bounds of the
  viewports that are registered (`Boxed`). The list is shortened by uniting rectangles that overlap, which loses no point (`UnionKeeps`); the
  nearest point is found viewport by viewport and is nearest of all (`NearestIs`). Hypotheses: `ScreenNumbers`, for any number of viewports
  on a screen that begins at the origin; for `NoTimerLeft` also that no driver leaves while an update is due (`~Unloads`).
- `SizesKept` (`SizesFit`), `PointerKept` (`PointerFollows`), `ReshapesKept` (`ReshapesRight`), `ScreenWellKept` (`ScreenKept`), `TypesKept` (`Typed`):
  what `MCDesktop` checks, of `MCDesktop!MCSpec` itself. The harness implements each part's specification, since its other
  steps leave that part alone (`Parts`); so each property of the run `desktop` is a theorem for every value of the constants.

`ServicesProofs` (for any timers, descriptors, modules, objects, sizes of a console and declared methods):

- `TimerEvents` (the set of events is what the timers think), `TimersPunctual` (no timer ticks early) and `TimersOnce` (once a pass), from `TimerInv`:
  an event is due when its timer was set to (`DueAsSet`), and what was set inside a pass is not due in it (`DueLater`); that is
  why a timer set to 0 by its own function does not keep the pass going. Hypotheses: `TimesAreNumbers`, and no cancelled timer is used.
- `PollLists` (`ListsAgree`) and `PollServes` (`AllServed`), from `PollInv`: the list is sorted and has one entry for each descriptor (`Lists`), and
  in a pass what has been served is what was ready up to the place the pass is at (`Passing`). That each place of
  the list has its descriptor is the pigeonhole principle (`EveryPlace`). Hypotheses: `DescriptorsAreNumbers`, and `OnlyChanges`: while the connection
  polls masks change but nothing is registered or taken away. That is the limit the run has as well.
- `ThemeChain` (`ThemesLoaded`) and `ManagerInUse` (`ManagerLoaded`), from `ChainKept`: the chain has what is loaded, once each. `Kinds`: a
  module is a theme, a manager or another. Only the second needs that no client unloads the manager in use.
- `NumbersKept` (`NumbersAgree` of `Proxies`), from `ProxyInv`: an object has a number when its reply was seen and not before
  (`Numbered`), no two calls on the stack wait for the same (`Apart`), what a call waits for is there as long as it holds
  the reply, and what is to be deleted has asked for no events (`Waiting`); who subscribes lives (`Subscribing`), and a reply on
  the way has the number the server gave (`Replied`). `NumbersAgree` alone says nothing of replies still to come, of which the next number is
  made. Hypotheses: `ProxyNames` (objects are no classes), and that no handler waits for what a call below it waits for and no object that gets
  events is deleted; with either, TLC refutes it.
- `ConsoleSize` (`TypeOK`, `SizesAgree`) and `ConsoleCells` (`ChangedIsRepainted`, `ScrollKeepsLines`, `ResizeKeepsCells`) of `Console`, from `ConsoleInv`:
  the contents are a function on the cells of the size, and the last event that the terminal has not handled has that size. The rest is about
  the number of a cell, its column and its row (`CellIs`, `PlaceIs`). Hypothesis: `ConsoleNumbers`, with `~Wraps`: no text passes the end of a row;
  if one does, TLC refutes `ChangedIsRepainted` (see the table).
- `PropertyTypes` (`PropertiesTyped`) and `ArgumentsArrive` (`ArgumentsKept`, an action property) of `Methods`, from `CallInv`. What was cast from one type
  to another fits the type it was cast to and differs from what was sent by a multiple of what a word holds (`WordsDiffer`). The candidates among the
  overloaded types are narrowed one parameter at a time, by a recursive function like the sums of the layouts. Hypotheses: `MethodNumbers`, and `MethodsListed`: what the
  lookup finds is declared as sequences of types, which TLC evaluates for the methods of the run.

The only assumptions are the named `ASSUME`s of the modules and the hypotheses above, which the passing runs meet. What stays
with TLC on the instances above:

- all liveness, which is out of the prover's reach;
- `TreesBalanced`, the refinements of `RBTree`, `Index`, `DBuffer` and `HashTable`: induction over a tree or a chain, for which the library's
  theorems take an operator that no installed backend instantiates;
- `DBuffer`, whose recursive operators no theorem may reach;
- the conjunctions of `MCStructures`, which reaches them, and of `MCServices`, whose instances have concrete constants: the theorems are about
  their parts, each in its module;
- `InOrder` and `NoFault` of `Connection` with two threads beyond `OneDrives`;
- `EventsFound` of `Proxies`, which counts the elements of a sequence with `SelectSeq`;
- `RightType` and `ErrorsSent` of `Methods`: a parameter of type `any` counts as an exact match, so the first is not true of every declaration, and depends on those of the run;
- of `services`, the keyboard and the keymaps, `Wire`, `Config` and `Calculator`; `LList` and `ZOrder`, whose properties are about paths
  and would have to be said of pairs first, as in `PQueueProofs`.

## Where the code falls short

Four runs end in a violation of what the repository says of itself:

- **`rbtree_delete`** (`rbtree.c:417`). When the deleted node's successor is its right child, is
  black and has no child, `x` is `nil` and `nil.parent` is set to the node that is being
  deleted, not to the successor that takes its place. The loop then works on a node that is no longer
  in the tree. Keymaps delete nodes like that when maps and options are unset.
- **`connection_wakeup`** (`connection_threads.cc:98-117`). The poller decides and signals
  without the mutex under which the dispatcher looks at the buffer, and the dispatcher waits
  once per round without testing anything.
- **`errors_unsent`** (`message.c:306`, `348`). "Always send errors", says the comment; the
  condition says never.
- **`keyboard_words`** (`ykb.c:129-132`). Keymaps named in the configuration after the first are added
  when the keyboard already stands on the start of the map, which is freed and built anew.

The properties that hold are claimed within limits. Where a call sequence or an environment leads out of them, the module has
a constant for it, and TLC finds the violation when a configuration, run by hand, sets it. The
constants are those of the module in the first column (the values of the checked runs are in the harness).

| module and setting | property | what happens |
|---|---|---|
| `ObjectSystem`, `Disciplined = FALSE` | `SubscribersAsked` | `objectUnsubscribeSignal` (`object.c:237`) looks the client up by the signal's name; a foreign subscriber that closes stays on the list, and the next client in its block inherits the subscription |
| `Transport`, with `Quitters` | `NeverUndefined` | after a `YMO_QUIT` the loop of `clientReadData` (`client.c:203`) tests the queue of the client it has released |
| `Transport`, with `Leavers` | `NeverUndefined` | the read half of a callback closes the client and the write half uses it (`unix.c:421`) |
| `Transport`, with `Leavers` | `ServerSurvives` | a write to a client that has gone leaves SIGPIPE pending; `signalHandler` (`control.c:271`) follows a NULL set |
| `Connection`, two `Apps` | `UniqueSeqs` | two threads take the same sequence number (`message.cc:44`) |
| `Connection`, `Mode = "threaded"` | `NoLostReply` | a message can be answered before its `Reply` is registered (`connection.cc:312`) |
| the same | `WritePolled` | POLLOUT is cleared after output has been added (`connection_io.cc:207`) |
| `Connection`, two `Apps` | `ListNotNull` | the list is copied into before it is tested (`connection_io.cc:73-79`) |
| `Connection`, threaded, an application thread as stopper | `StopReturns` | `stop()` outside the dispatcher waits for the mutex it holds (`connection.cc:228-246`) |
| `Connection`, threaded, with `Handlers` | `RequestsReturn` | a handler waits for the thread it runs in |
| `Connection`, with `Failing` | `RequestsReturn` | a failing request gets no answer (`message.c:348`) |
| `Proxies`, `DeletesNotified = TRUE` | `NumbersAgree` | `destroyObject` tests for the wrong outcome of its search; the map keeps what was deleted |
| `Proxies`, `SharesWaits = TRUE` | `NumbersAgree` | a reply is deleted by the inner of two calls that wait for it |
| `ClientTimers`, `UsesCancelled = TRUE` | `EventsMatch` | a cancelled timer's event is deleted twice |
| `Descriptors`, `WhilePolling` with `"register"`, `"unregister"` | `ListsAgree` | the pass reads beyond the list, or aborts |
| `Wire` | `NobodyThrows` | `parseStream` takes a message whose last bytes are still missing, and throws |
| `DBuffer` | `SpaceIsUnused` | a drained buffer forgets room it could use (`dbuffer.c:257`) |
| `RowLayout` | `BestFitIsStretch` | "the same" (`yrowlayout.c:35-36`) does not hold: when no cell stretches the pixels that the division leaves over go to none, and a widget without a size is counted otherwise |
| `LList`, `Destructors = {"deletes"}` | `Sane` | a destructor "may delete from the list" (`llist.h:98-106`); then nodes are freed twice |
| `KeymapFile`, `UpdatesSequences = TRUE` | `RefsCounted` | a duplicate shares the members of its sequences, and both free them |
| `Buttons`, `SetsAgain = TRUE`, or `ClientSets` with 0 | `OneSelected` | "one-and-only-one" (`yradiogroup.c:103`) does not survive a client that sets `pressed` on the selected button, or sets it to 0: none is pressed then (`OnlySelected`, at most one, is proved) |
| `Buttons`, `DisablesPressed = TRUE` | `HeldWhileDown` | a button that is disabled while it is held keeps the grab |
| `Desktop`, `ShowsAgain`, `SharesWidgets` | `References` | a window shown twice, or a widget given to two windows, is linked from where it has left |
| `Modules`, `UnloadsManager = TRUE` | `ManagerLoaded` | the manager in charge stays the one called after it is unloaded |
| `Screen`, `Unloads = TRUE` | `TimersLive` | the update of a viewport outlives the driver's viewport |
| `Console`, `Wraps = TRUE` | `ChangedIsRepainted` | text that passes the end of a row writes and paints the wrong cells |
| `Config`, `End = <<>>` | `ReadsWhatIsSaid` | an integer that ends its line makes the line be ignored |
| `Painting`, `StartsLarge`, `ResetsResized`, `RestoresMore` | `SurfaceFits`, `PaintersLive`, `StatesMatch` | a window wider than the hint grows past its memory; a canvas reset after a resize keeps a painter of freed memory (`canvas.c:211`, `buffer.c:49-50`); a client restores more than it saved |

Seen while translating and modelled as they are, without a property of their own: `llist_dup` reverses; `tupleCheckType` and
`tupleStaticCast` compare one too many (`tuple.c:579`, `778`); the hook of a property gets its
arguments swapped (`object.c:298`, against `class.h:52`), and an unset of what was never set calls it (`object.c:270`);
a selected map that fails to load leaves `config_mapset` NULL, and `list[0]` stands for `list[i]` (`ykb.c:451`);
`GridLayout` counts a span without a sign and divides by a span of 0; a window with a maximum is moved by the drag of its low
edge; a maximised window restores to where it was although the screen shrank; the pointer stays outside after a viewport
shrinks; the intersection of disjoint rectangles has a positive size (`rectangle.c`), and `renderer_draw_filled_rectangle` does not
ask whether there is one; `pointerRender` enters a region it does not leave; the calculator
associates to the right (8-3-2 is 7) and its "C" leaves the stacks. Timer numbers wrap after 2^31 (`control.c:309`).

## Not modelled

- *Client library's widgets*: wrappers that send messages and keep no state.
- *Drawing*: pixels, which cairo and FreeType compute (fonts, text, decorations of themes, the GLX driver), the options of renderers; memory, sizes, clipping and order of what is drawn are in `Painting` and `Rendering`.
- *Hooks of properties*: each belongs to a class of widget; `Methods` has the call, and the widgets' modules what some of them do.
- *Input and output*: tracing, command line, paths, `libYconfig` (a second parser of the same format, used by nothing in the server), the lexer of keymap files, the printing of maps, build system and generators.
- Inside what is modelled: credentials and the file of the socket, failures of `connect`, several
  channels per client (the library uses one), a client that never reads (it blocks the server: hazards),
  wrapping of counters; `rbtree` copying and walking, `pqueueLength`, which have no caller; labels and text fields; `ymenu.c`, which is not compiled.

## Plan

Done: the server's core and its connections, the client library, the containers, messages and
calls, input, windows, layouts, screen, buffers, modules and configuration; proofs about objects, timers, the server's
connections and the client library's, with its contract, the queue of timers with its refinement, the client's timers,
descriptors and objects, the server's modules, its console and calls of methods, and everything that the run `desktop` checks.

What is left, the most useful first:

1. Proofs: `LList` and `ZOrder` against `ItemList`; the keyboard and the keymaps (`MapInUse`, `RefsCounted`).
2. Compositions: descriptors and timers in one loop; `Timers` over `PQueue`; `Desktop` with
   `WindowGeometry`, so that an event hits what is under the pointer; `ObjectSystem` with `Desktop`, so that a
   closed connection takes its windows along.
3. Text fields and labels with their cursors; hooks of properties for each widget.
4. Renderers' options and the lexer of keymap files.
