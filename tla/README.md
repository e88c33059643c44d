# The X server core in TLA+

A verification development of the parts of the XFree86 X server (the tree under
`src/xc`, with the build configuration of its FreeMiNT port) where the order of events
decides: how input reaches the server, how it chooses the client whose requests it
executes, how a client can hold the whole server or a device, sleep, be killed or hang
up, how the table of clients lives through all that and through server resets, how
direct rendering clients draw beside the server, and how a display without a user of
its own gets its session from a manager over an unreliable network.

The server is one thread with no locks. What makes it hard is that everything is
an interleaving all the same: signal handlers that fill the event queue and count the
time, clients that send, hang up and die between any two steps, requests that put their
own client to sleep or close another one in the middle of a round, events that are
played again in the middle of the handler that released them, six sets of file
descriptors that have to agree through every such order, and, with direct rendering, a
lock word and a table in memory that other processes change at the same time.

## 1. Inventory

Paths are below `src/xc/programs/Xserver` unless they start with `lib/` or `xdm/`
(`src/xc/programs/xdm`).

| Component | State | Operations | Interacts with |
|---|---|---|---|
| Input event queue, `mi/mieq.c`, `mi/mipointer.c` | ring of events, `head`, `tail`, `lastMotion`, the two current screens | `mieqEnqueue` (signal handler), `mieqProcessInputEvents`, `mieqSwitchScreen`, warps | drivers, Dispatch, WaitForSomething, the devices of DIX |
| Waiting, `os/WaitFor.c` | `LastSelectMask`, timers, work queue | `WaitForSomething`, block and wakeup handlers, `CheckConnections` | everything that wants to be called |
| Dispatch loop, `dix/dispatch.c` | `clientReady[]`, `grabState`, `grabClient`, `grabWaiters`, `isItTimeToYield` | rounds, one handler per request, `CloseDownClient` | connections, the grab, sleepers |
| Descriptor sets, `os/connection.c`, `os/io.c` | `AllClients`, `ClientsWithInput`, their saved copies, `IgnoredClientsWithInput`, `GrabImperviousClients`, `GrabInProgress` | `OnlyListenToOneClient`, `ListenToAllClients`, `IgnoreClient`, `AttendClient`, `MakeClientGrab(Im)pervious`, accept, close, read, put back | Dispatch, sleepers, extensions |
| Sleeping, `dix/dixutils.c`, `Xext/sleepuntil.c`, `dix/dixfonts.c` | `sleepQueue`, `workQueue`, delayed clients, closures | `ClientSleep`, `ClientSignal`, `ClientWakeup`, `ClientSleepUntil`, `ProcessWorkQueue(Zombies)` | font servers, XTEST, closing |
| Smart scheduler, `dix/dispatch.c` | `smart_priority` and ticks of each client, `SmartLastClient`, `SmartLastIndex`, `SmartScheduleSlice` | `SmartScheduleClient`, penalty and praise, `SmartScheduleTimer` (signal handler) | Dispatch, WaitForSomething, event delivery |
| Client table and reset, `dix/dispatch.c`, `dix/main.c` | `clients[]`, `nextFreeClientID`, `currentMaxClients`, `nClients`, `dispatchException` | `NextAvailableClient`, connection setup, close-down modes, `KillClient`, `KillAllClients`, the loop of `main` | signals, XDMCP, resources |
| Device grabs and freezing, `dix/events.c` | grab, `sync.state`, `sync.other` and frozen flag of each device, `syncEvents` | grabs, `AllowEvents`, `ComputeFreezes`, `EnqueueEvent`, `PlayReleasedEvents`, `ReleaseActiveGrabs` | clients, devices, RECORD |
| Hardware lock, `hw/xfree86/os-support/xf86drm.h` and `linux/drm/kernel` | the lock word in shared memory; its owner's pid and the wait queue in the kernel | `DRM_LIGHT_LOCK`, `DRM_UNLOCK`, `tdfx_lock`, `tdfx_unlock`, `drm_release` | server and clients, signals, the death of a process |
| Direct rendering, `GL/dri/dri.c`, `lib/GL/mesa/dri`, the tdfx driver | `lockRefCount`, the drawable table and its stamps, `drawable_lock`; each client's copy of the clip rectangles | block and wakeup handlers, `DRIValidateTree` ... `DRIPostValidateTree`, `DRIGetDrawableInfo`, console switches; `LOCK_HARDWARE`, `XMESA_VALIDATE_DRAWABLE_INFO` | the hardware lock, windows |
| XDMCP, `os/xdmcp.c`; the manager, `xdm/xdmcp.c`, `xdm/protodpy.c`, `xdm/dm.c` | protocol state, timeout, retransmissions, session; the manager's displays and processes | one handler per packet, `timeout`, keepalives, the end of a session; `request_respond`, `manage`, `send_alive` | UDP, connections, reset |
| Timers, `os/WaitFor.c` | ordered list of timers | `TimerSet`, `TimerForce`, `TimerCancel`, `DoTimer` | WaitForSomething |
| Counters and alarms, `Xext/sync.c` | counters, trigger lists | await, change, alarms | sleeping, idle time |
| Resources, `dix/resource.c` | a hash table per client | add, free, free all of a client | every request |
| Fonts, `dix/dixfonts.c`, `lib/font` | closures, blocked requests | open, list, load glyphs, reconnect | font servers, sleeping |
| Windows, properties, selections, drawing, extensions, Xlib, ICE and session management, clients | see `PROJECT.json` | | |

What makes each correct, in short:

- *Event queue*: nothing delivered out of order or twice; no key lost once it is in;
  a key reaches its device although the server sleeps.
- *Dispatch and grab*: only the holder and the exempt are served during a grab; the
  two records of the holder agree; a grab ends by its holder or with it, and then
  everybody gets a turn whom no client of a higher priority keeps from it.
- *Descriptor sets*: whoever sleeps is not listened to; whoever does not is, now or
  at the end of the grab; buffered requests, which `select()` cannot see, are on record;
  nothing of a closed client is left for the next user of its descriptor.
- *Sleeping*: every sleeper wakes once, and then gets its turn.
- *Smart scheduler*: clients of one priority share the turns; penalties and praise
  starve nobody.
- *Client table*: the least free slot, the bound of the loops and the number of
  clients are right; the server resets when and only when the last client has left;
  nothing survives a reset; no slot is given away while resources are left in it.
- *Device freezing*: held-back events are played in order, once, and not while their
  device is frozen; nothing stays behind or stays frozen without a grab; every handler
  returns.
- *Hardware lock*: one holder, also when processes die with it; nobody sleeps on a free
  lock; whoever takes it without a system call was its last holder.
- *Direct rendering*: nobody draws with rectangles the server has changed, or while the
  console belongs to somebody else; a client cannot lock up the server.
- *XDMCP*: a display that waits has a timer; a session has its connection; no session is
  started twice; display and manager agree in the end on whether there is a session.

The hard behaviours, each at its line, are under `hazards` in `PROJECT.json` with the
properties that cover them.

## 2. Modules

| Module | What it is |
|---|---|
| `EventQueue` | the event queue between the SIGIO handler and the main program |
| `InputStream` | abstract: the ordered stream it implements, which loses a key only when full, and besides that only motions in a run of motions |
| `EventQueueProofs` | theorems about `EventQueue` |
| `InputMasks` | the descriptor sets and the functions of `connection.c` over them |
| `ClientDispatch` | waiting, rounds, requests, priorities, server grab, sleepers, closings |
| `MCDispatch` | what each client may ask for in the runs of `ClientDispatch` |
| `ServerGrab` | abstract: what the core protocol promises of GrabServer, with the one exception the code makes |
| `ClientDispatchProofs` | theorems about `ClientDispatch` and `InputMasks`: the grab, what is forgotten at a closing, the sets, the sleepers, and the implementation of `ServerGrab` |
| `SmartSchedule` | whose turn it is and for how long, with the smart scheduler |
| `SmartScheduleProofs` | theorems about `SmartSchedule` |
| `ClientTable` | the client table, close-down modes and server reset |
| `ClientTableProofs` | theorems about `ClientTable` |
| `DeviceSync` | grabs of devices, freezing, events held back and played again |
| `DeviceSyncProofs` | theorems about `DeviceSync` |
| `HwLock` | abstract: the hardware lock with its memory of the last holder |
| `DrmLock` | its implementation by compare and swap and the kernel module |
| `DrmLockProofs` | theorems about `DrmLock`, the implementation of `HwLock` among them |
| `DirectRendering` | server and clients that share the screen under `HwLock` |
| `DirectRenderingProofs` | theorems about `DirectRendering` |
| `Xdmcp` | display, manager and the network between them |
| `XdmcpProofs` | theorems about `Xdmcp` |

`ClientDispatch` extends `InputMasks` and implements `ServerGrab`; `EventQueue`
implements `InputStream`; `DirectRendering` extends `HwLock`, which `DrmLock`
implements, so what is shown of direct rendering over the abstract lock rests on the
code of the concrete one. The configurations give the constants small values directly,
except for `Ops` of `ClientDispatch`, a function from the clients to the requests they
may make, whose values are in `MCDispatch`; no definition is replaced in one. Definitions whose names end in an underscore and a word (`Attend_OnlyNow`) are
variants with a plausible mistake, at least one for each property, that the property detects.

### 2.1 EventQueue

The handler runs to completion wherever it interrupts the main program, so
`PostKey` and `PostMotion` are atomic and enabled at every `pc`; the main program
takes one step per access to a shared field. `TestBeforeWait` and
`TestBeforeRequest` are the two tests of `checkForInput` in `Dispatch`;
`EnterSelect` ... `Woken` are `WaitForSomething`; `WhileTest` ... `ProcessEvent` are the
statements of `mieqProcessInputEvents`, down to the word-by-word copy of the event,
since a motion may be coalesced in the middle of it. `Coalesces`, `Full`, `Target` and
`Stamp` are the conditions of `mieqEnqueue`. The serial number of a report stands for
its coordinates; `accepted`, `delivered` and `lastOut` are history.

`RefinesStream` maps the ring, plus the event in the locals of the consumer, to the
sequence of `InputStream`. A report there tells whether it is of a key or of a motion,
also one that is dropped (`position` is the last motion reported), and both actions that
drop are guarded: a key only when `Capacity` events wait, the one just being handed over
included, as the test at `mieq.c:105` has it; a motion then, or when it gives way to the
newer position in the slot before. A handler that tosses one event too early
(`Full_Early`) is no implementation.

### 2.2 InputMasks and ClientDispatch

`InputMasks` has one operator per function of `connection.c` on a record of the six
sets and `GrabInProgress`; the handlers of `ClientDispatch` compose them as the code does, in its order
(`Reset` before `Ignore` in GrabServer, after it in `ClientSleepUntil`).

`pc` follows the server: the top of `WaitForSomething` with the work queue, accepting
connections, `select()`, `CheckConnections`, between two clients of a round, in a turn.
`Outside` is the clients, `Answers` the font server and the clock. Every closing, from
whatever place, goes through `CloseDownClient`, which is one step: the code calls
nothing in it that returns to the loop.

What is abstracted:

- a client slot stands for its file descriptor, and `AllSockets` for `AllClients`;
- a request is what it asks, decided when it is read; one that was put back asks the
  same again. A partly received request is one that has not arrived;
- a slice, or a count of requests, may run out after any request; with the smart
  scheduler any ready client of the highest priority may be chosen: `SmartSchedule` says which;
- the clients' descriptors are in one word of `clientsReadable`. `highest_priority` is
  declared inside the loop over the words (`WaitFor.c:440`) and not set again for the
  second, so what clients in two words are compared with is up to the compiler;
- a grab word has `WordBits = 2` clients instead of 32, so two clients cross a word;
- `Backlog` bounds the requests in a socket, `Comers` the clients that may connect later,
  `Fragile` is the set of clients to which a write may fail, `Priorities` what
  SyncSetPriority may give;
- LBX's several clients on one descriptor are left out.

`Heard` is what `WaitForSomething` takes for readable. With the smart scheduler off it is
`ClientsWithInput` itself when that is not empty; with it on, `select()` is asked first, and
when it returns nothing `ClientsWithInput` is again taken as it is, without `AllClients`
(`WaitFor.c:184`, `:369`). This is why `AsideIgnored` speaks of both sets. `Highest` is
the strict priority of SYNC. `Setup` ends with the client accepted, asked for more, or
refused and closed.

`KeepsPromise` maps the loop to `ServerGrab`. Its clients are served only when they are
not shut out, and closed only in the turn of one that is not, with one exception: who is
*late*, that is, a client to which a write has failed or which is still in its setup, may be
closed at any time. The protocol has no such exception ("disables processing of requests
and close-downs on all connections other than the one this request arrived on",
X11.protocol:4002), but `EstablishNewConnections` closes these stragglers whoever holds
the server (`connection.c:884-893`), and `CheckConnections` closes a client whose descriptor
has gone bad. `DispatchClosed` is the counterexample to the protocol's words, and
`DispatchThree` shows what is left of them: that a third client is not closed meanwhile.

### 2.3 SmartSchedule

`SmartScheduleClient(ready)` is the function: `Praised` its first loop's effect on the
priorities, `Best` its choice by priority and then by `Robin`, `Slice` its last part.
`Poll` and `Hear` are the two ways `WaitForSomething` comes to call it, with requests in
some buffer or after `select()`; `StartTurn`, `SliceOver`, `Execute`, `NothingToRead` are
the inner loop of `Dispatch`. `Tick` is `SmartScheduleTimer`, which may come before any
step but not while the server sleeps, since the interval timer counts processor time.
Grabs, sleepers and SetPriority of SYNC, which is strict, only make the set of ready
clients smaller, and are left out here; they are in `ClientDispatch`. The ticks of a client are counted up to `IdleCap`,
beyond which no test tells them apart; a client at normal priority or above is penalized
only at the end of a turn, so its ticks are counted from there.

### 2.4 ClientTable

A slot is free, in its setup, past a security check but not set up, running, retained (the
record of a client that left its resources), or stale (a record whose resources a reset has
freed). `CheckSecurity` is the second of these, for a client that
asks for `XC-QUERY-SECURITY-1` (`os/secauth.c:165`, `dispatch.c:3958`). `CountedOff` is the test of
`CloseDownClient` at `dispatch.c:3574`, which decrements `nClients` for such a client as for a
running one, although only `SendConnSetup` has ever incremented it. `lost` counts the clients
closed in that state, up to `MaxLost`; the properties that need a right count say
`lost = 0`, and `ClientTableChecked` shows the count wrong after the first loss. What a
client does once `nClients` is wrong is in the model all the same, and checked for its types
and for `ResetComes`. `CloseDownClient` is
the counting half of the function that `ClientDispatch` models from the side of the
masks. The loops of `KillAllClients` and `CloseDownRetainedResources` take one step per
slot, so that connections, signals and the shrinking bound meet them half-way. `Ask` is
a signal or XDMCP. Memory never runs out.

### 2.5 DeviceSync

One handler runs at a time, but `ComputeFreezes` plays waiting events in the middle of
it, and an event that is played may end a grab or begin another and call
`ComputeFreezes` again. `todo` is the stack of what is left to do, innermost first:
`PlayReleasedEvents`, `ReplayEvent`, the press of a repeated key, the restoring of a
saved event, the rest of `ReleaseActiveGrabs`. The server is idle when it is empty, and
`InputEvent`, `GrabDevice`, `EndGrab`, `AllowSome`, `CloseClient` are what may come
then. A device's record has its grab, its window, `sync.state`, `sync.other`,
`sync.event`, `frozen` and whether its key is down. `pending` is the list with `tail`,
what `pendtail` points to.

Windows are the depths of the tree under the pointer. Passive grabs are not kept: a
press may meet any grab of any client at any depth. A device has one key. It is the
processing without XKB (`events.c`); with it, `xkbPrKeyEv.c:80-88` sends the two halves of a
repeated key the same way. Requests of the Input extension (THAW_OTHERS among them),
confinement, focus and timestamps (every request is CurrentTime) are left out. `id`,
`done`, `phys`, `split` and `lastReport` are history.

### 2.6 HwLock and DrmLock

`HwLock` has the holder and the last holder: `TakeLight` for the last holder, `TakeHeavy`
for anybody, `GiveUp`. `DrmLock` has the word (held, contended, context) and the program
counter of each process: user space, with its compare and swaps (`LightLock`,
`LightUnlock`), and the two ioctls. The kernel's code runs under the big kernel lock,
which `Sleep` gives up; the word itself may change between any two of its steps. `Die`
ends a process wherever it is in user space, `drm_release` is the closing of its descriptor. `ImplementsHwLock`
reads holder and last holder off the word.

Left out: the branches under `#if 0`, `context_flag`, the take-down of the device with
`hw_lock == NULL`. Contexts are never used again (`tdfx_context.c:37-42`), so a process
stands for its context and for its process id.

### 2.7 DirectRendering

A geometry is the number of the change that made it; `seen` is the geometry a client's
copy is of. The server's places are the main loop, waiting in `select()` without the
lock, the spin lock of `DRIValidateTree`, the tree being validated, `DRIPostValidateTree`.
The client's are the steps of `LOCK_HARDWARE`, of `XMESA_VALIDATE_DRAWABLE_INFO` with its
excursions to the server, and of drawing. A test of the spin lock and the compare and swap that
follows are two steps. Console switches nest in the count, which starts at -1. `Die`
frees the hardware lock but not the spin lock.

`Patient` says whether the server gives up on a spin lock only when its owner is dead,
`Rebinds` whether a client makes another window current. One screen, the tdfx driver.
Client and server write the same value 1 into the spin lock (`dri_mesa.c:532`; the comment
at `dri_mesaint.h:182-185` says otherwise). Wrap-around of stamps, the destruction of
drawables and `DRICloseScreen` are left out.

### 2.8 Xdmcp

The display's handlers have the names of `os/xdmcp.c`, the manager's those of `xdm`.
The network is a set of datagrams that may be lost, overtake one another and, up to
`Capacity`, stay for any time; an overflow loses the new one. `timeout`, the keepalive
timer and the retry of a retransmission may come at any time. `HostDown` and `HostUp` are a crash of
the manager, which forgets its sessions. `LocalClient` is a client on the display's own
host that connects while a session is negotiated. The display asks one manager; with
`-broadcast` and `-indirect` the automaton is the same. Authentication, addresses, host choosers and
`-once` are left out.

## 3. Runs

| Run | Question | Bounds |
|---|---|---|
| `queue_one_screen` | is a key that was let in ever lost, does the ring implement the stream and toss keys only when it is full, does a key reach the keyboard? | ring of 3, 5 reports: fills, wraps and overflows |
| `queue_two_screens` | does the inductive invariant hold, is delivery in order, through screen switches and warps? | ring of 3, 2 screens, 4 reports |
| `dispatch_smart` | grabs, fonts, delays, kills, failed writes, a late connection: are the sets right after every order? Is the promise of the grab kept, but for late clients? | 2 clients, 2 requests in the socket |
| `dispatch_rounds` | the contention for the server with plain rounds, a client that sleeps and becomes exempt at any time and one that sets priorities: who is served, and does everybody of the highest priority get a turn once the server is grabbed no more? | 2 clients, 1 request in the socket, 2 priorities, writes do not fail |
| `smart_schedule` | are turns shared, and is nobody starved by penalties, whenever the ticks come? | 2 clients, priorities -1 .. 1, slices of 1 and 2 ticks |
| `table` | are the counters right, does the reset come when the last client leaves, and leave nothing? | 3 client slots, all modes, SIGTERM at any time, one client lost in its security check |
| `device_sync` | freezes, thaws, replays, deaths: is any event lost, stranded or overtaken, does every handler return? | 2 devices, 2 clients (symmetric), 2 windows deep, 3 events |
| `drm_lock` | one holder, known to the kernel, no sleeper forgotten, the abstract lock implemented? | 4 processes, all but the server may die anywhere |
| `direct_rendering` | does a client ever draw with stale rectangles or on a lost console, does the server get on? | 2 clients, 2 windows and entries, 2 changes of the tree |
| `xdmcp` | does the display always have a timer and a connection, is no session started twice, do both sides agree in the end? | 2 sessions, 2 datagrams in flight, limits 3 and 2 |

Why these are enough. A coalescing race needs one waiting motion and one new one; a
wrap and an overflow need three slots. Every function of `connection.c` tells apart the
client concerned, the holder and the rest, and within the rest only by membership in
sets that two clients fill in every combination; each invariant quantifies over one
client and the holder. In `dispatch_rounds` a grab is waited for by the client that was exempt
when it asked, which is the only way to wait, and released by a request, a death or a change
of holder; a priority is raised and lowered in the turn of the one that sets it, for both.
The scheduler compares two clients at a time; every
priority is below, at or above normal and can be bounded at both ends, and the slice
can be short, longer and full. Four slots (one is the server's own) are the least at which a hole
lies between two clients and the bound has to come down by more than one. A device that freezes
another, an event of each that waits and a third that
overtakes need two devices and three events; a second client is the one that may take
over. Four processes are a holder, two sleepers and one that takes the lock between
them. Two changes of the tree are one a client has seen and one it has not, and a third
behaves as the second. Two sessions are the one the display thinks of and the one the manager
does; two datagrams may overtake each other; a limit of 3 has a first, a middle and a
last retransmission. The theorems of section 4 remove the bounds for the invariants they
name.

Two more runs each show a disagreement between the code and what is said of it; the
`findings` of `PROJECT.json` quote both sides.

| Run | What it shows |
|---|---|
| `dri_stolen_spin` | a server that steals the spin lock of a client that is only slow is locked up: the client's unlock frees the server's lock, and the server's own unlock waits for ever |
| `device_record` | a pointer event that waited is reported to RECORD twice, the second time after later events |

### Further configurations

They are kept beside the runs to be tried by hand. Most end in a counterexample, where
the code does not do what one would wish or what is written of it:

| Configuration | What it shows |
|---|---|
| `EventQueueRace` | a motion coalesced into the slot the consumer has just copied is lost, and the server sleeps with a stale pointer position |
| `EventQueueSleep` | an event enqueued between the last test and `select()` without a timeout waits for the next wake-up |
| `EventQueueSwitch` | an event of another screen is taken for a switch whatever its kind, so a key is swallowed, against the comment at `mieq.c:155` |
| `EventQueueTime` | `lastEventTime` is compared and never updated, so times may go backwards |
| `DispatchAside` | an exempt client put to sleep during another's grab is listened to when the grab ends |
| `DispatchOrphan` | UngrabServer wakes one waiter; if it dies before it asks again, the others wait for nobody |
| `DispatchTwice` | a client signalled but not yet woken that closes has its function queued and run a second time |
| `DispatchClosed` | accepting a connection closes stragglers the grab shuts out, though the protocol holds back close-downs (X11.protocol:4002) |
| `DispatchPervious`, `DispatchLost` | a client made pervious during a grab it was listened to in disappears from both masks when it is not in the saved one, and is never served again |
| `DispatchRelease` | an exempt client's UngrabServer ends a grab it does not hold |
| `ClientTableChecked` | a client lost between the security check and its setup is counted off without having been counted in, against the comment at `dispatch.c:3569`; the server then resets under its last but one client, or not at all |
| `ClientTableReset` | after SIGHUP or the end of an XDMCP session the record of a retained client sits in the slot `nextFreeClientID` names |
| `SmartPraise` | user input can keep a busy client above normal priority for ever; another client is not served |
| `SmartTimers` | while buffers hold whole requests the server only polls and no timer runs |
| `SmartSlice` | the long slice a client has earned is inherited by the next one that is alone |
| `DeviceSyncRepeat` | a repeated press is cut in two halves; when the first freezes the keyboard the second is queued behind later events, and a key stays down |
| `DriRebind` | a client that makes another window current and then the first one again takes its old copy for a current one |
| `DriTableFull` | with more windows than entries the search for the oldest entry leaves entry -1, and the window evicted is still listed |
| `XdmcpSequence` | UNWILLING and DECLINE that come late end a running session, though `xdmcp.ms:1274` says that packets out of sequence are ignored |
| `XdmcpKeepalive` | the count of retransmissions of the negotiation goes on in the keepalives, against `xdmcp.ms:1203` |
| `XdmcpRefused` | a Manage request that is delivered a second time is refused, against the comment in `manage()` |
| `XdmcpBusy` | without a pause in the requests of local clients no keepalive is ever sent |

`SmartThree.cfg` (three clients, invariants only) and `DispatchThree.cfg` (`KeepsPromise` with a
third client that a grab shuts out while stragglers are closed) pass.

### Fairness

- `EventQueue!FairSpec`: the main program goes on while it is not asleep, and a timeout
  given to `select()` expires. Devices and clients owe nothing. `KeyReachesDevice` holds
  only with a timeout; the server has one when a screen saver, DPMS or a timer is set.
- `ClientDispatch!FairSpec`: the server goes on (weak fairness of its steps); a font
  server answers and a time that has come is noticed (strong fairness: only a pass
  through `select()` offers the occasion). `AllGetTurns` uses the plain rounds, where every
  ready client of a round is served; nothing is assumed about which client is served
  first. It asks that grabs end, since a client may hold the server for ever, and promises
  turns only to the clients that from some time on have the highest priority of the connected ones,
  since SYNC's priorities are strict. Two cases that the code gets wrong are left out by name:
  a second waiter for the grab (`Cardinality(grabWaiters) <= 1`; `DispatchOrphan`), and an
  exempt client awake in a grab it slept into (`ExemptSaved`; `DispatchLost`). Exempt
  clients, waiters and their waking are in the run otherwise.
- `SmartSchedule!FairSpec`: the server goes on, and time with it. Strong fairness of
  `Tick`, since blocked in `select()` the server uses no processor time. Clients and users
  owe nothing. `NormalServed` asks that user input has stopped lifting clients above
  normal; `SmartPraise` shows why.
- `ClientTable!FairSpec`: the loops run on; a turn ends when its slice does (strong,
  because a client can be chosen again and again); and `WaitForSomething` returns when a
  reset is due, which `WaitFor.c:344` and `:378` test before and after `select()`.
- `DrmLock!FairSpec`: a process in the kernel runs on, a holder ends its drawing, and one
  that waits for the big kernel lock gets it although others take it in turn. Nobody has
  to ask for the lock, to die or to be hit by a signal.
- `DirectRendering!FairSpec`: the server and the clients go on with what they are doing,
  and the server gets the hardware lock and the requests their answers although others
  come between. No client has to draw, to die or to be alive.
- `Xdmcp!FairSpec`: timers expire and the handlers run, and a connection whose process
  has ended is closed. The network owes nothing at all. A keepalive is sent although
  there is other activity now and then (strong fairness); `BusySpec`, without it, is what
  `XdmcpBusy` refutes.
- `DeviceSync` needs none: that handlers return is an action property, `HandlersReturn`,
  by a measure that every step of a handler makes smaller.

Deadlock is checked except in `ClientTable`, where the server does exit, in `Xdmcp`,
where the display does, and in `dri_stolen_spin`, where the end of all steps is what is shown.

## 4. Proofs

All theorems are for every value of the constants allowed by the assumptions in the
modules that declare them (`QueueAssumption`, `ClientsAssumption`, `DispatchAssumption`,
`TableAssumption`, `DevicesAssumption`, `NoneAssumption`, `BoundsAssumption`, `ProcsAssumption`,
`RenderingAssumption`, `XdmcpAssumption`, `SmartAssumption`).

**EventQueueProofs.** `TypeCorrect` (`TypeOK`). `QueueCorrect` (`QueueInv`, which is
`TypeOK /\ QueueOrder`) and `OrderedDelivery` (`DeliveredInOrder`): order in the slots alone
is not inductive, because the consumer holds half an event in its locals while the
handler may replace the slot; `ReadInOrder` says for each `pc` what has been read and
where it lies in the order, and that the kind is never replaced. `NoKeyLost`
(`KeysKept`) assumes one screen: with two, the code loses a key that comes right after a
switch. `StreamImplemented` (`RefinesStream`), under the same assumption, follows every step through
the sequence the ring stands for: `SlotAt` and `StoreSlots` say what lies how far behind
`head` before and after a report, the lemmas on `Front` and `Waiting` turn that into
`Append`, a new last element or nothing, and the copying of the head changes nothing
because the copy counts as soon as it is complete. `Full` and `Coalesces` give the guards of the
stream's two drops.

**ClientDispatchProofs.** `GrabCorrect` (`GrabInv`) and `GrabKnown` (`GrabAgrees`). That a turn goes only to clients that may have one is not
inductive: turns come from the round, and rounds from the masks, so `HeldMasks` and
`HeldRound` carry the exclusion back to `OnlyListenToOneClient`; `kickout`, the state
between a grab and the end of the round it happens in, is where a round may hold others
and none is served. The first part of the module proves of each function of `InputMasks`
what it does to holder, exempt clients and exclusion; the second part takes one case per
action and uses only those lemmas.

`TypeCorrect` (`TypeOK`) and `Forgotten` (`ClosedForgotten`), with exempt clients and all,
rest on `MemInv`. What the property says of the live sets is not inductive: the end of a
grab brings the saved sets back and `UngrabServer` lets a waiter into them. So `Known`
holds the saved sets to clients that are connected while somebody holds the server, `Pending` the waiters,
the sleepers and every item of the work queue, `TurnTypes` the round, which is empty whenever
a connection is accepted, and `Accepting` says that what is taken off
the queue after accepting is what began it. Items are dropped from the queue by a recursive
function (`Without`); that what is left are items of other clients is shown through a
least counterexample, which needs no induction rule.

`SleepersIgnored` (`AsideIgnored`, for both sets that clients are chosen from), `NobodyDropped`
(`OthersHeard`), `NoRequestForgotten` (`BufferedKnown`) and `PromiseKept` (`KeepsPromise`, the
implementation of `ServerGrab`), all under `NoExempt`: nobody is exempt at the start and nobody
asks for it. Without it each of the three invariants has a counterexample among the
further configurations or their neighbours. `Kept(m, S, A, F)` says where every client
must be in the sets `m`, given who is set aside, who is connected and who has requests in
the buffer; the first part shows what each function of `InputMasks` makes of it. `MaskInv` adds that
no client waits for a grab, which only an exempt client can do, and what the buffers hold.
For `PromiseKept`, `Ending` says of every closing under way that it is in somebody's turn, or
of one late client; nothing more can be proved of the code, since that is where it closes
clients the protocol would have it leave alone.

**ClientTableProofs.** `TableCorrect` (`TableInv`, which is `TypeOK /\ Counters`), `ResetClean`
(`NothingSurvives`), `SlotsNotShared` (`NoTakeover`), `LastLeaverResets` (`LastOneResets`), all
under `NoForcedReset` (`"reset"` is
not requested from outside; without it `ClientTableReset.cfg` is a counterexample) and, in the
properties themselves, until a client is lost in its security check (`ClientTableChecked.cfg`). The
two searches of the table are `CHOOSE`s of a least or greatest index; `LeastNat`, from
well-foundedness, gives their existence (`ShrunkFinds`, `NextFreeFinds`). `CountRight`
needs the cardinality lemmas of `SetsOfSlots`. `ResetInv` is what makes `NothingSurvives`
inductive: a reset is due only when nobody is past setup, no turn begins until it is
done, clients in setup are in DestroyAll, and what the loop of `KillAllClients` has
passed is free.

**DrmLockProofs.** `TypeCorrect`, `MutualExclusion` (`HeldOnce`), `OwnerKnown`
(`OwnerIsKnown`), `SleepersNoticed` (`NoLostWakeup`) and `Implementation` (`ImplementsHwLock`).
`IInv` adds three facts: code between two steps of the kernel has the big kernel lock; while
the kernel holds the word for itself nobody else changes it; and the context in the
word, held or not, is that of the process in `pid`, unless it is just being recorded,
which is why the path in user space may leave `pid` alone.

**DirectRenderingProofs.** `CountTellsTruth` (`LocksAgree`) and `AwayLocked`
(`AwayKeepsLock`) from `LockInv`, which computes the count from where the server stands and
who has the console. `TypeCorrect`. `DrawingIsCurrent` (`NoStaleDrawing`) under `Room`, no more windows
than entries, and no `Rebinds`, the two conditions whose absence `DriTableFull` and
`DriRebind` refute: a copy that carries the stamp of its entry is current or the
server is in the middle of a change with the hardware lock, and who is in the word as the
last holder has looked since.

**XdmcpProofs.** `TypeCorrect`, `NeverStuck` (`TimerRuns`), `SocketKept`
(`SessionHasSocket`), `OneSession` (`StartedOnce`), from an invariant in two halves, the
display's and the manager's, which share only what a packet may say.

**DeviceSyncProofs.** `TypeCorrect`, `FreezeExplained` (`FreezeIsExplained`) and
`NothingLeftBehind` (`NothingStranded`). In the middle of a handler the table of devices is
only `Sound`; `ComputeFreezes` makes it `Fresh`, and does so at the end of every path.
What is on the stack of continuations must be a duty that fits the state, in an order
that ends with the play of released events; and while that plays, what lies before its
position in the list is frozen.

`OrderIsKept` (`OrderKept`) and `ReplayOfLast` (`ReplayIsCurrent`) add `InOrder`. An event on its
way is in the queue, half processed on the stack, or kept with a grab for replay, and the
order has to hold across the three: the ids in the queue increase and are above the last
one processed of their device (`Increasing`, `Ahead`); a duty on the stack is about the last event
processed of its device, and is done before the loop plays another one of it, or
nothing of that device waits (`Due`); so is what a grab keeps (`Current`). For the keys,
the last press or release that waits tells what the user did last (`Matched`), and where none
waits the server knows, or the press half on the stack will tell it (`Agreed`). All this ends at
the first repeated press that is cut in two, as `DeviceSyncRepeat` shows it must. The
provers see the queue through positions: `IsWithout(r, q, i)` says that `r` is `q` without its
`i`th place, by a map of positions, and every cut, push and pop is an instance of it.

`EveryHandlerReturns` (`HandlersReturn`), with `WorkIsCounted`, has no such exception. The steps of a handler make the
tuple `Work` smaller, in the order of its six numbers: an event played is an event less, unless it
is a press half, which can be put back in the queue as often as its device is frozen again; that
it then is not ready, and that the half is of a key that is up, so that it is not split
again, is the invariant `Halves`. A replay is a duty less and can begin a grab; a step of
`ReleaseActiveGrabs` ends a grab. `Places` and `Number` turn the positions above into
cardinalities, which is why `Devices` is assumed finite (`inputInfo` counts them).

**SmartScheduleProofs.** `TypeCorrect` (`TypeOK`), `RobinTurns` and `TurnsShared` (`NotOvertaken`). That a
client is passed by fewer turns than there are clients is not inductive by itself:
`RobinInv` adds to the turns that passed `c` the clients that the robin could still prefer to
it, and says that these are together fewer than all. A choice that passes `c` by uses up one
of them, since `SmartLastIndex` moves on to the client chosen; the distance is taken
modulo 256 in an unsigned byte (`ModDiff`), which is where the bound on the number of
clients comes from.

Every invariant and action property of the passing runs is a theorem. The four of
`ClientDispatch` under `NoExempt`, those of `ClientTable`, `KeysKept`, `RefinesStream` and
`NoStaleDrawing` are proved under conditions on the constants; their runs meet the same
conditions, and a further configuration shows what happens without each of them.

Only model-checked: all liveness (`KeyReachesDevice`, `AllGetTurns`, `ResetComes`, `SleeperWakes`, `ServerGoesOn`,
`AgreementReached`, `NormalServed`), which with `ENABLED` is outside the prover's reach.
`EveryHandlerReturns` is the part of it that a measure can express: that the steps of a
handler cannot go on for ever; that one is always possible is the absence of deadlock,
which `device_sync` checks.

## 5. Plan

What is worth adding next, in this order:

1. The composition of `ClientDispatch` and `ClientTable` through `CloseDownClient`, for a
   reset during a grab; it is worth its state space for that question only.
2. The Input extension in `DeviceSync` (THAW_OTHERS, more than one key).
3. Resources freed while deletion functions change the table (`dix/resource.c`).
4. Font closures shared between clients, and the reconnection to the font server.
5. The locks and the reply queue of Xlib, and the phases of session management.

Theorems next: the absence of deadlock inside a handler of `DeviceSync`, stated
as the existence of a step; the invariants of `ClientTable` with a forced reset, where
`TableInv` has to let go of the retained slots; and measures like `Work` for the loops of
`KillAllClients` and of `mieqProcessInputEvents`, from which `ResetComes` and
`KeyReachesDevice` would follow under their fairness.

## 6. Not modelled

`PROJECT.json` lists every component with the reason. Most of the tree cannot gain from
this treatment: drawing (`mi`, `fb`, `cfb`, the drivers' accelerators), fonts and their
rasterizers, the x86 emulator, the tables of the drivers and of XIE are computation on
pixels and bytes or hardware access, without state that an interleaving reaches; LBX is a
protocol of its own; toolkits, utilities and makefiles are no part of the server.
Windows, properties and colormaps change only inside one request. Of `dispatch.c` the
requests without effect on scheduling are the one action `Noop`. The list of timers
(`TimerSet`, `DoTimer`) is sequential code; of it the models have the skipping of timers
while the server polls, and the delays of `ClientSleepUntil`. Counters and alarms of SYNC are
sequential arithmetic; that their clients sleep is in `ClientDispatch`. Running out of memory is
nowhere modelled.
