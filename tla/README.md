# Verification of the Xsisusb X server

TLA+ models of the X server in this repository: the X.Org 1.3.99 tree as
`debian/rules` builds it for Maemo, which is the kdrive server `Xsisusb`
(`hw/kdrive/sisusb`) with its device independent parts (`dix`, `os`, `mi`,
`miext`, `randr`, `Xext`). TLC checks the models on small instances; TLAPS
proves the theorems for every value of the constants.

`PROJECT.json` has the machine-readable lists this text refers to: the
components, the runs, one mutant of the code per property, the lines behind
every definition, the hazards, the findings and the theorems.

## 1. The system

One thread runs `Dispatch`: it waits for clients and devices, serves one client
for a time slice, and comes round again. Three signals interrupt it anywhere:
SIGIO (a device has input), SIGALRM (the interval timer of the scheduler) and
SIGTERM/SIGHUP (end of the server or of its generation). There are no locks;
what the handlers share with the thread are the input queue, the tick counter,
a flag or two, and `dispatchException`.

```
 devices --SIGIO--> KdSigio -> KdMouse machine -> mieqEnqueue --ring--> mieqProcessInputEvents
                                                                             | device routines
 clients --socket--> WaitForSomething -> SmartScheduleClient -> Dispatch --> requests
                        |  timers             ^ SIGALRM ticks                |    |
                        |  block handlers     |                    grabs, SYNC   RandR
                        v                                          IgnoreClient   v
                   shadowRedisplay ------> frame buffer ------> USB device   sisusbRandRSetConfig
```

| component | state | operations | hard behaviour | what makes it correct |
|---|---|---|---|---|
| Input event queue `mi/mieq.c` | ring, `head`, `tail`, `lastMotion`, `lastEventTime`, screens | enqueue, switch screen, process | handler between any two accesses; full ring; coalescing; two screens | a FIFO; the slot in hand is never written; time order |
| Kdrive input `hw/kdrive/src/kinput.c` | mouse machine, held event, timeout; table of descriptors | pointer and key events, timeouts; enable, register | a machine with lists of actions, some of which return early | buttons the emulation is not about pass unchanged (those it is about do not, see 6) |
| Whom the server listens to `os/connection.c`, `os/io.c`, `dix/dispatch.c` | the descriptor sets, their copies during a grab, ignored clients, buffered requests | connect, close, grab, ignore, attend, impervious, read, wait | combinations and orders of all of these | the sets agree with who is ignored and held back; no request is forgotten |
| Timers `os/WaitFor.c` | ordered list, clock of 32 bits | set, cancel, free, check, run | wrap of the clock, clock set back, callbacks that change the list; ways out of `select` that pass the timers over | order, no early expiry, none missed while timers are looked at |
| Smart scheduler `dix/dispatch.c` | priorities, slices, turns | choose, expire, stop, praise | priorities that change while turns are kept | turns in order; nobody starves |
| Main loop and signals `dix/dispatch.c`, `os/WaitFor.c`, `os/utils.c` | place in the loop, interval timer, `dispatchException` | wait, serve, the handlers | signals before `select`; timer stopped while it is needed | input first, slices end, SIGTERM ends the server |
| Sisusb screen `hw/kdrive/sisusb`, `miext/shadow`, `kshadow.c` | shadow, damage, frame buffer, device, rotation in three places | draw, redisplay, RandR requests, reset | reconfiguration that fails half-way; stale damage | the display shows what was drawn; updates stay in bounds; one rotation |
| Client output `os/io.c`, `os/connection.c` | buffers, the clients with output pending and those whose socket is full | write, flush, close, ignore and attend, look for broken connections | partial writes; a connection that breaks in the middle of anything; two lists and their marks; clients that send without end | a stream per client; nothing waits unlisted; closed descriptors are those of clients `CheckConnections` looks at, or that sleep or are shut out by a grab |
| Device grabs `dix/events.c` | grabs, freezing, the queue of frozen devices | grab, ungrab, allow, replay, press of a button that is delivered, unmap, destroy, close down | an event played from the queue may grab, freeze or thaw in the middle of a request | order of events; who freezes a device can thaw it; grabs end |
| Work queue and sleeping clients `dix/dixutils.c`, `dix/dixfonts.c` | a linked list with a pointer to its last link, the sleepers, closures of requests | queue, process, sleep, signal, wake up | the list is walked inside its own walk; a sleeping client is closed | jobs called in order; the closures allocated are those of the sleepers, and no freed client is listed; who is answered wakes |
| Resources `dix/resource.c` | hash table | add, free, find | deleted while walked | not modelled yet |
| SYNC `Xext/sync.c` | counters, triggers | change, await, alarm | triggers that fire each other | not modelled yet |
| XDMCP `os/xdmcp.c` | protocol state, retransmissions, the session's number and connection | send, time out, receive, keep alive, connections that open and close, reset | packets lost, repeated, late; managers that crash; whoever connects first; clients that put the timer off by talking | a client's record watches over the session; dead sessions are noticed; a session comes in the end |
| Saver, DPMS, MIT-SHM `Xext` | states, segments | | timers | not modelled yet |
| Event delivery, windows, Xi, XKB, fonts, rendering, composite ... | large data | requests | sequential | not modelled, see 7 |

## 2. Modules

| module | models | runs |
|---|---|---|
| `MiEq` | `mi/mieq.c`, one step per access to a shared field | through `MCMiEq` |
| `InputFifo` | what the queue promises: a bounded FIFO with coalescing | refined by `MiEq` |
| `KdMouse` | middle button emulation | itself |
| `ClientInput` | descriptor sets, server grabs, ignored clients | through `MCClientInput` |
| `OsTimer` | the timer list | itself |
| `SmartSched` | who is served, how long | through `MCSmartSched` |
| `ServerLoop` | the loop with its signals | itself |
| `SisusbScreen` | shadow, frame buffer, device, RandR | through `MCSisusb` |
| `SyncGrabs` | active and passive grabs, freezing and replay | through `MCSyncGrabs` |
| `ClientOutput` | output buffers, broken connections, `select` | through `MCClientOutput` |
| `OutputStream` | what the output promises: a stream of bytes per connection | refined by `ClientOutput` |
| `WorkQueue` | work queue, sleeping clients, font requests, close-down | through `MCWorkQueue` |
| `JobQueue` | what the work queue promises: jobs called in order, those of a closed client earlier | refined by `WorkQueue` |
| `Xdmcp` | the XDMCP protocol, network and managers | through `MCXdmcp` |
| `DeviceInputProof`, `ClientInputProof`, `DispatchProof`, `SisusbScreenProof`, `SyncGrabsProof`, `ClientOutputProof`, `TimeoutProof`, `WorkQueueProof` | theorems; three are about two components each, and extend both: `DeviceInputProof` is about `MCMiEq` and `KdMouse`, from where its events come, `DispatchProof` about `ServerLoop` and `SmartSched`, which the loop asks, `TimeoutProof` about `OsTimer` and `MCXdmcp`, for which `WaitForSomething` keeps time. Hence the names `SchedInit`, `XdmcpNext`, `MouseSpec` and the like in the second of each pair | |

**MiEq.** `events`, `head`, `tail`, `lastMotion`, `lastEventTime` and the two
screens are the fields of the struct; `pc` is the place of the main thread in
`mieqProcessInputEvents`, `pending` what the running handler has still to
enqueue. Reading the screen, the two coordinates and moving `head` are steps of
their own, because SIGIO may come between them. `rootX` and `rootY` carry the
number of the burst an event came in, so that parts of two events never agree
by chance. Devices report for ever; `posts` tells the bursts of the beginning
apart and no longer counts then. `InputFifo` is the abstract queue, and `MCMiEq!ImplementsFifo` the
refinement: the queue is the slots between `head` and `tail`, and what the
dispatcher holds is read where the code reads it, in the popped slot itself.

**KdMouse.** The table `kdInputMachine`, the classification of events and the
two actions of a transition; a loop over the buttons is a function of the button
it has come to (`EachButton`). Actions `KdEnqueuePointerEvent`,
`KdHandleKeyboardEvent` and `KdWakeupHandler` are the three ways in;
`logical` is the device as `UpdateDeviceState` sees it.

**ClientInput.** `masks` holds AllSockets, AllClients, ClientsWithInput, their
saved copies, the impervious and ignored sets. Requests are counted; their kind
is chosen when they are executed. Every path of `Dispatch`,
`WaitForSomething`, `ReadRequestFromClient`, `YieldControl...`,
`OnlyListenToOneClient`, `ListenToAllClients`, `IgnoreClient`,
`AttendClient`, `MakeClientGrabImpervious`, `CloseDownConnection` that touches
these sets is an action.

**OsTimer.** A clock that counts modulo `W`, a sorted list, and the places of
`WaitForSomething` that matter: the poll for clients with buffered requests
(`BeginPoll`; `someReady` lasts for the call), the wait (`BeginWait`,
`CheckAllTimers`), the ways on from `select` (`Selected`), and the timers
(`LookAtTimers`, `RunTimers`). A poll that finds nothing and a return with events
of devices waiting do not look at the timers (`os/WaitFor.c:275-285`); which
descriptors are ready, and whether a client or a device among them ends the wait,
is left open. `-dumbSched` is not given.
The end or reset of the server is left to `ServerLoop`. Callbacks set and cancel
any timers. The assumption that delays,
lags and set-backs together stay below half the range is what signed differences
need; the code has 2^31 ms, 24 days, for it.

**SmartSched.** Ticks are kept as ages, bounded where the code can no longer
tell the difference. `passed` is history: whom a waiting client has seen chosen
before it.

**ServerLoop.** The main thread, one step per test or call whose order matters,
and the handlers as steps between any two of them. `update` is an assignment to
`dispatchException` that has been loaded but not stored: handlers may run in
between, since `|=` and `&=` of a volatile variable are a read and a write (on the
ARM target they are several instructions). `asked` remembers a SIGTERM that came
anywhere else.

**SisusbScreen.** `bits` is what the shadow holds, `frame` is `priv->base`,
`panel` the memory of the device; `Place` is where `shadowUpdateRotatePacked`
puts a pixel, by the directions it walks in. A configuration succeeds or fails
for want of memory (`Succeed`, `Fail`, the label `bail4`).

**SyncGrabs.** `dev` is the core pointer and keyboard with their `activeGrab`
and `sync`; `pending` and `pendtail` are the list of `syncEvents`, whose tail
addresses the next field of a member. The server is one thread, so what it has
begun and not finished is a call stack: `stack` keeps those calls during which
input handlers may run again (`PlayReleasedEvents`, the replay of a press, the
two halves of a repeated press, `UnrealizeTree` with `DeleteWindowFromAnyEvents`,
the passes of `ReleaseActiveGrabs`). Events and requests come when it is empty.
`sync.other` names the device whose `activeGrab` it points at, and reads what
that holds now, as the code does. An event that no grab takes is delivered to a
window (`DeliverDeviceEvents`): whoever selects for the press of a button there
(`Selections`) has the pointer grabbed for it, Async in both modes
(`dix/events.c:1651`), which thaws the pointer and may thaw the keyboard; a press
that is replayed to the windows has the same effect. Windows form one chain.

**ClientOutput.** `out` is a client's `ConnectionOutput`, its bytes numbered by
message, so that a byte lost, repeated or out of place shows; padding is
`Garbage`. `FlushClient` is one step with the socket's answer: as much as there
is room for, an error when the peer has gone, or no memory. The loops over the
descriptor sets are steps of their own (`FlushNext`, `Straggler`, `Check`), so
that clients come and go between them only where the code lets them.
`writable` is `clientsWritable`, which is not initialized when `select` was not
asked for it: then any set. While requests wait in buffers `select` only polls,
and is not asked about the clients they are of (`os/WaitFor.c:192-196`). A client
that sleeps is out of `AllClients` from `IgnoreClient` to `AttendClient`; when it
is woken is left open. The refinement of `OutputStream`
(`MCClientOutput!ImplementsStream`) takes what has been written as what the
socket has taken followed by the buffer.

**WorkQueue.** `workQueue` is the address of the list's head, `next` the links,
`workQueueLast` a link, as in the code; `p` and `zp` are the links at which
`ProcessWorkQueue` and, inside a function it has called,
`ProcessWorkQueueZombies` stand. A request for a font sleeps (`Request`), its
font server answers in a wakeup handler (`Answer`), which signals the client;
the queued function is run by either walk (`RunFont`) and goes on waiting, or
finishes and wakes the client. `EstablishNewConnections` is the job that closes
other clients (`Straggler`, `Accept`). A node in hand is taken out after its
function has returned, through the link the walk stands at. Clients are marked
for an error only where requests or jobs are run. A function called a second
time with a freed closure changes nothing in the model; that it comes to be
called is an observation, see 6.

**Xdmcp.** `state`, `timeOutRtx`, `SessionID`, `req_sockaddr` (a manager) and
`sessionSocket` are the code's. The four `send_..._msg` functions are `Packets`
and `Awaiting` in `send_packet`, the `recv_..._msg` functions one handler each,
and `NotAwaited` is what the others do with a packet that comes in another
state. How long the timer takes is left open (`Elapse`), but not what sets it anew
nor when it is looked at: only after a `select` that found nothing, so that
anything else that is found passes it over, and in a running session sets it to
a whole dormancy once more (`Talk`, `os/xdmcp.c:723-724`). Clients that no manager
starts come and go too (`Guest`, `HangUp`, together `Visits`), and the first to come
while the server waits for its session's is taken for it. `open` are the
descriptors the records of clients are known by; `FlushClient` may have closed one
of them itself, and until the record is closed, which is the first thing to happen
when it is given out again (`os/connection.c:843`), it still stands for the client.
What the end of the last client raises is an option (`dispatchExceptionAtReset`),
as `-once` is. Descriptors are numbers, and the lowest that is free is the next: one of
a session may come to belong to another client. `net` is what the network holds;
when it is full it loses what comes, it delivers in any order, and up to the bound
`MaxFaults` it loses other messages and repeats them. Managers follow the protocol: they offer the same session
again until its client connects, and take a request from a display with a
session for the end of that session. Packets are handled only while
`dispatchException` is clear: `WaitForSomething` calls the wakeup handlers without
descriptors otherwise (`os/WaitFor.c:229`, `253`), so that they see the timer and no
packet.

ServerLoop stands for one client and leaves whom to choose to `SmartSched` and
whom to listen to to `ClientInput`; `MiEq` and `OsTimer` are the queue and the
timers it only counts. `KdMouse` produces what `MiEq` queues.

## 3. What the runs check

All runs are complete: TLC exhausts the state space. Deadlock is checked but
where `CHECK_DEADLOCK FALSE` says that a bound on outside events, or the end of
the server, may stop the model.

| run | question | bounds, and why they are enough |
|---|---|---|
| `mieq` | Does a ring read in place and filled by a handler behave as a FIFO with coalescing (`ImplementsFifo`), keep the time order (`TimesOrdered`), leave the slot in hand alone (`InHandStable`), bring screen switches in order (`ScreensInOrder`), and is it drained once the devices fall silent (`Drains`)? | ring of 5, three bursts of any devices, and with one screen a pointer that then goes on for ever: it fills, wraps and tosses; three events per slot, so that valuators overflow it; two times, so that the clock steps back. Behaviours are of two kinds (`switching`): with two screens the ring does not fill up, since then switches may be torn, see 6; with one screen devices do as they like |
| `kd_mouse` | Are buttons passed through unchanged: all of them without emulation, and those it is not about with it (`ButtonsKept`, with the types)? | four buttons, two positions inside and outside the window, clock of 2 past a timeout of 1 |
| `client_input` | Do the sets agree with who is ignored and held back (`Listened`), is a grab exclusive, is no buffered request forgotten? | two clients with SYNC or delays, or three of which one is impervious: a grab needs a holder, a waiter and a third party |
| `os_timer` | Is the list ordered across the wrap (`ListSound`, with the types), does the server sleep no longer than it may, is no timer early, or missed (`EachExpires`) unless timers are passed over for ever? | two timers, clock of 14 units with lag, setback and slack in proportion; the run wraps many times; polls, events and descriptors that are ready at any `select` |
| `sched` | Are turns kept while priorities move, and is everyone served? | three clients, three priorities |
| `server_loop` | Are events processed before requests, do slices end, whatever signal comes when? Is SIGTERM obeyed (`Terminates`), unless it falls between the load and the store of an update of `dispatchException`? | slice of 2 ticks, two events |
| `sisusb` | Does what is drawn reach the display at its place, do updates stay in bounds, do the three rotations agree, through RandR requests that succeed and fail? | a panel of 2 by 1 turns into 1 by 2, so that sides, directions and addresses all differ; two addresses to tell old buffers from new; all four turns and a reflection |
| `sync_grabs` | With events played in the middle of requests: do the events of a device stay in order, each handled once (`InOrder`)? Is a device frozen exactly when a grab holds it (`FrozenByGrab`), and can who holds it thaw it (`OwnerCanThaw`)? Do grabs end with buttons and windows (`GrabEnds`), and does all that was begun end (`Finishes`)? | two clients with three passive grabs and one active one, each freezing something, each selecting for presses on one of two windows (`Selecting`), two events of each device: a press that freezes, one behind it in the queue that grabs again, and a client or window that goes meanwhile |
| `client_output` | Does each client read a beginning of what was written to it (`ImplementsStream`)? Is buffered output always on a list (`NotForgotten`) and sent in the end, unless the client always has another request in its buffer (`Arrives`)? Are the closed descriptors `select` is asked about of clients that `CheckConnections` looks at, or that sleep, or that a grab shuts out, and of no other (`BrokenListened`)? | two clients, of which one grabs, sleeps and asks, never more than two requests ahead but without end; messages of 3 bytes padded to 2, a buffer of 4 and a socket of 2: buffers overflow, writes end in each of the three parts; two messages, two connections, one of the clients gone at a time |
| `work_queue` | Is the list a queue (`ImplementsJobs`), also when a walk shortens it inside of another? Are the clients on both lists there, the closures allocated those of the sleepers, and has a client that stays one job at most, of a request it sleeps for (`SleepersSound`: `NoZombies`, `ClosuresFreed`, `SignalledOnce`)? Is who is answered woken (`Awakened`)? | three clients, of which one is closed while the job of another is run; two requests that sleep and two answers, so that jobs of both stand behind a connection; two connections; six nodes hold all jobs there can be, and one is always left (`TypeOK`) |
| `xdmcp` | Is there, while a session is said to run, a client's record with the descriptor whose end is to end it (`SessionOpen`)? Is a session its manager has forgotten found out, unless clients or devices talk within each dormancy for ever (`Noticed`)? Does a session come about again and again, whatever happened before, once answers are timely and the timer is seen (`Established`)? | one manager; the defaults, and `-once` with `-noreset`; the network holds two packets and loses what is beyond that; one further fault: a packet lost or repeated, a REQUEST that cannot be sent, a refusal, a crash, or a client of no manager that comes or goes; limits of 2 retransmissions for 7 and 4; two descriptors; five session numbers, so that a new one is used nowhere, and any number of sessions |
| `xdmcp_once` | A finding: does `-once` end the server when the session ends (`OnlyOnce`)? | as `xdmcp`, with a limit of 3 retransmissions of requests |

The types of `MiEq`, `ClientInput`, `SmartSched` and `ServerLoop` are not run:
the theorems `TypeCorrect` prove them, as `CoalescesMotionOnly` does what
`lastMotion` says of the newest slot.

Every property of a run that passes has a mutant, a plausible slip in the code that violates it:
an index not wrapped, an assignment in another order, a test left out.

## 4. Fairness

* `MiEq`: weak fairness of the handler, which runs to its end, and of a started
  `mieqProcessInputEvents`. Nothing is assumed of devices: `Drains` has their
  falling silent as its premise, `<>[][~Posted]_vars`, and fails without it, since
  `mieqProcessInputEvents` goes on as long as it finds something queued
  (`mi/mieq.c:204`).
* `OsTimer`: the thread runs, time passes, and `select` returns when its time is
  up; weak fairness throughout. Nothing is assumed of clients or devices:
  `EachExpires` excuses the behaviours in which, from some time on, each `select`
  was a poll that found nothing or came back with events waiting (`PassedOver`),
  since these ways out do not look at the timers. A client that always has
  another request in its buffer can bring that about, as long as nothing else is
  readable; one that keeps `select` busy in other ways cannot.
* `SmartSched`: `Dispatch` goes on to the next client, SIGALRM ticks while one
  is served, and slices end, which is `SliceEnds` of `ServerLoop`. Clients owe
  nothing; `Served` excuses behaviours in which they stop early or are praised
  forever.
* `ServerLoop`: the thread runs, `select` returns when it has a reason, and the
  interval timer ticks unless it is stopped. No signal but SIGALRM is owed;
  `Terminates` is about a SIGTERM that does not fall into an update.
* `SyncGrabs`: `Continue`, the single thread goes on with what it has begun.
* `ClientOutput`: the thread goes on; timers do not expire each and every time
  that `select` returns (`SF(Look)`: when one has, the sets are not looked at,
  `os/WaitFor.c:306`); a client's turn ends if it can again and again
  (`SF(Leave)`: slices end, `SliceEnds` of `ServerLoop`, though it always has
  another request); a client that is there reads what its socket holds. No
  client owes a request, none owes an end of its requests, and the thread may be
  interrupted by writes anywhere. `Arrives` excuses two things: that whenever `FlushAllOutput`
  comes to the client it has another request in its buffer and is put off
  (`PutOffForEver`; `os/io.c:755-758` means it so), and the hang that `BrokenFound`
  is about, see 6.
* `WorkQueue`: the thread goes on. Clients, font servers and connections owe
  nothing: a job on the queue when `select` is reached is called since the loop
  comes round, as it does for any request or timer.
* `Xdmcp`: the server reads packets, a timer whose time has come while `select`
  finds nothing is seen, a connection that ends is noticed; managers answer and
  begin the sessions they accepted. It is not assumed that the timer's time comes
  in that sense: `Talk` and `Visits` put it off. Hence the premise of
  `Noticed` and `Established` that in the end nothing but managers' clients and
  packets is found when it would be due (`Silent`); TLC finds both violated
  without it, for the clients of a session whose manager has crashed may talk for
  ever. `Established` supposes more, of the end of a behaviour too (`Timely`):
  answers come before the timer expires, and do not overtake the end of a
  connection. The second is needed: a manager that ends an old session because of
  a new request closes its connection, and when the server sees that after the new
  ACCEPT, it is the last client that goes, the server resets, and may be out of
  step in the same way the next time.
* `SisusbScreen`: `Redisplay`, since `WaitForSomething` calls the block handlers
  whenever `Dispatch` comes round (`os/WaitFor.c:225`), which `SliceEnds` says
  it does.

## 5. What is proved

| theorem | says | rests on |
|---|---|---|
| `DeviceInputProof!TypeCorrect`, `CoalescesMotionOnly`, `HandStable` | for every ring size, the indices stay in the ring, `lastMotion` describes the newest slot, the handler never writes the slot in hand | `IInv`: types, the slot in hand is just before `head` from the pop on (`HoldsSlot`), queued slots are not empty. `lastMotion` must be wrong nowhere for the coalescing to be right, hence it is in the invariant |
| `DeviceInputProof!RingIsFifo`, `SwitchesWhole` | for every ring, devices and screens: the ring implements `InputFifo`, step by step, and screen switches are dispatched in order and whole (for `MCSpec`, the two kinds of behaviours of section 3) | `RInv`: `IInv`, and what the dispatcher has copied from the slot before popping it is still what the slot says (`ReadWhole`). Only a coalesced motion could make it untrue: with one screen it changes nothing that is compared (`OneScreen`), with several the shape of what is left of a burst (`Bursts`) shows that it comes from a warp of the idle dispatcher only. `ContentPut`, `ContentOver` and `ContentTake` turn changes of slots into changes of the sequence |
| `DeviceInputProof!TimesForward` | with a clock never set back by `Window` or more, queued events are in order of time | `NewestTime`: `lastEventTime` is not before the newest entry |
| `DeviceInputProof!ButtonsAsReported`, `NeverPending` | for any number of buttons: without emulation the server's picture of the buttons is the device's, with it that of the buttons from the fourth on; and the machine never leaves `start` and `button_2_down` | `MouseInv`: only a press of button 1 or 3 is ever held (`Held`), and only `hold` swallows an event, and it swallows what it holds. A loop over the buttons goes as far as one likes (`LoopGoes`) and posts what it should (`ButtonsPosted`), by least counterexample. Since `hold` returns before the next state is entered, most of `kdInputMachine` is dead: no timeout is set, and no middle button generated |
| `ClientInputProof!TypeCorrect`, `GrabExclusion` | for any clients, no request of a held back client is served | `IInv`: who is in the live sets (`HeldOut`), and who is being served, is not held back; the second because a client goes on being served, and is marked again, while it changes the grab or its own imperviousness |
| `ClientInputProof!Listening`, `NothingLost` | for any clients, of which none sleeps or waits for a counter if one can be impervious, and at most one can (`Apart`): the server listens to just those it should, and a request it has buffered is marked where the next wait, the end of the grab or the awakening will find it | `LInv`, a predicate of the sets: who is in the live ones, what the end of the grab will bring back (`Saved`), and where each buffered request is marked (`Marked`), also of the client that is being served. There is a lemma for each thing that happens to the sets (a client sleeps, is awakened, begins or ends a grab, leaves), cited by the requests that do several of them |
| `DispatchProof!SchedInvariance`, `SchedTypeCorrect`, `TurnsTaken` | for any priorities and slices of `SmartSched`: bounds of all indices, and round robin at one priority | `TurnKept`: who has been preferred to a waiting client comes after it in the next round, by distances modulo 256 from the last index |
| `DispatchProof!TypeCorrect`, `TimerRuns`, `EventsFirst` | for any slice and queue of `ServerLoop`: the interval timer runs whenever a client is served; at most one request is executed while events wait | `IInv`: where the timer may be stopped (`Awake`), and where the queue has been looked at (`Looked`) |
| `WorkQueueProof!SleepersKept` | for any clients and requests: no freed client is on either list, the closures allocated are just those of the sleepers, and who stays has at most one job, of a request it sleeps for | `IInv`: whatever is on the list while a client is closed, each client has one job, but the one that is closed two, and the last put there is one of them (`OneEach`). So a node is always free, given one for each client, the server and two more; and the walk for a client that is gone leaves nothing of it |
| `WorkQueueProof!ListIsQueue` | the list with its two walks implements `JobQueue`, step by step | `ListInv`: the links lead through the nodes in use, each of them once, and the inner walk has passed only jobs of others; `workQueueLast` is right but while a walk has still to set it (`Placed`). `Appended` and `Taken` turn changes of links into changes of the sequence. The links determine the sequence (`ListIsReached`): `ReachedBy` is recursive, so it is shown of the first place where they would differ |
| `SisusbScreenProof!SubUndoesAdd` | the arithmetic on rotation bits is that of rotations | sixteen turns |
| `SisusbScreenProof!RotationAgreed` | for every screen, start and failure, the driver, the shadow and RandR agree on the rotation | `SubUndoesAdd` for `RRGetInfo` |
| `SisusbScreenProof!UpdatesInBounds`, `PictureMirrored` | on a panel of any size, started upright: updates stay in bounds, and what is drawn is on the display at its place or damaged | `BoundInv`, that sides do not change and damage is on the panel; distinct pixels have distinct addresses and places; `PictureInv`, that frame buffer and panel agree wherever there is no damage |
| `SyncGrabsProof!TypeCorrect`, `FreezesHeld`, `EventsInOrder`, `OwnersThaw` | for any devices, clients, windows and grabs: the tail of the queue is where it should be, only a grab that is there freezes a device, events are handled in order and once, whoever holds a device can thaw it | `IInv`: `HeldByGrab` and `FrozenIsHeld` of the devices at every call, since each handler starts from them; `Ordered`, that the queue holds what was sent and not handled; `Drained`, that what is queued is of frozen devices or being played; and that the calls on the stack carry events that fit these. The automatic grab of a press that is delivered or replayed to a window is one more way in which handling an event may change all devices (`DeliverDeviceEvents`), and goes through the lemma about `ActivateGrab` |
| `SyncGrabsProof!GrabsEnd` | for a pointer and a keyboard and any clients, windows and grabs: between requests, the window of a grab exists, and an automatic grab of the pointer has a button down | `EndInv`: events that are played while a window goes may activate grabs on it until it is unmapped, so before it leaves the list the calls under way still unmap it and then end the grabs on it (`Cleared`), or end all there are (`Swept`); a press that is kept for a replay has its button down. `DeleteWindowFromAnyEvents` deactivates the grabs of `inputInfo.pointer` and `inputInfo.keyboard` only, so the theorem is about these two devices |
| `ClientOutputProof!TypeCorrect`, `OutputListed`, `BrokenIsListened` | for any sizes, rooms and clients: output is on a list and the list is marked; a closed descriptor that `select` is asked about belongs to a client that is there and is listened to, sleeps, or is shut out by another's grab | `IInv`: every client is listened to, ignored, or saved by a grab whose client is there (`MasksInv`); only clients wait to write; the place of the thread says whether `current` is a client and whether a flush has someone left (`PlaceInv`) |
| `ClientOutputProof!OutputIsStream` | the buffers implement the streams of `OutputStream` | `SentAndKept`: what a write takes and what `FlushClient` keeps make up buffer, message and padding, wherever the write ends; `FlushSends`, one flush is one step of the stream |
| `TimeoutProof!ListIsSound`, `WakesInTime`, `NoneEarly` | for any timers, delays and width of the clock: the list is in order and without repetition, across the wrap and after the clock was set back; until then `select` is not given more time than the first timer has, and no callback is run early | `IInv`: every timer is `Near` the clock, by no more than its delay and what the clock was set back, or by the lag; so offsets from the clock add up like integers (`OffsetsAdd`, `ClockMoves`) and the order of the list is that of the offsets (`Comparable`). For `NoneEarly`, what is due at the time taken before is due on the clock (`RunInv`), and a timer set by a callback is not due |
| `TimeoutProof!SessionWatched`, `SessionEndsLoop` | for any managers, clients, limits, losses and crashes of `Xdmcp`: while a session is said to run a client's record has the descriptor it is known by; a session ends only in a step that leaves the decision to reset or to terminate behind | `SessionInv`: the protocol is in a session or in one of the states before it, never in that of a packet, which is sent at once, so that only a client that connects begins a session; and a server that has decided to reset is in none. For the second, the last connection that is closed is never another than the session's |

The assumptions are the named ASSUMEs of the modules and three more.
`UpdatesInBounds` and `PictureMirrored` are about a server that is not started
turned by a quarter (`-screen ...@90`): there, damage left from before a RandR
request lies outside the screen it gives, and the theorem is false. `Listening` and `NothingLost`
assume `Apart`: with two impervious clients that wait for one grab, `Listened` is
false (section 6). `GrabsEnd` assumes the two core devices.

Every inductive invariant was an invariant of a TLC run before it was proved.

Only model-checked: all liveness (`Drains`, `EachExpires`, `Served`,
`SliceEnds`, `InputHandled`, `Terminates`, `Shown`, `Finishes`, `Arrives`,
`Awakened`, `Established`, `Noticed`), which is out of the prover's reach.

## 6. Findings and observations

The finding with a run that shows it:

* `xdmcp_once`: with `-once` a session that the keepalives find dead ends in a
  reset, and the server asks for another (`os/xdmcp.c:876`), though the manual
  says it terminates.

Observations without a run of their own. Those of the first list can be seen
with the definition and the constants named, by adding the definition to the
`.cfg` as INVARIANT or PROPERTY; TLC finds each of them violated:

* `MiEq!PositionWhole`, `SPECIFICATION Spec` of `MiEq` with `QUEUE_SIZE = 3`, a
  pointer and a keyboard that both send core events, and five posts: once the
  ring has been full, coalescing rewrites the slot that the dispatcher is
  reading for a screen switch, and the pointer is put at a position made of two
  events (`mi/mieq.c:140`).
* `ClientInput!NoneDeaf`, with `Roles <- MixedRoles` in `MCClientInput.cfg`: an
  impervious client that is awakened during a server grab is put into the live
  sets only; when it makes itself pervious again it is taken out of them, and
  the end of the grab does not bring it back (`os/connection.c:1207`).
* `ClientOutput!BrokenFound`, with `MCClientOutput.cfg`, and also with
  `Sleepers = {}` there: during a server grab a write finds the connection
  of another client broken and closes its descriptor, which stays in
  `ClientsWriteBlocked` (`os/io.c:1137`). `select` then fails with EBADF for
  good: `CheckConnections`, which should "go find which one and shut it down"
  (`os/connection.c:997`), looks at the client with the grab only, and that one
  is not served any more. A client that sleeps (`IgnoreClient`) is out of
  `AllClients` in the same way, without any grab: an event written to it that
  breaks its connection leaves `select` failing until the client is woken.
  `BrokenListened` says that these are all the cases.
* `ClientInput!Listened`, with `Roles <- TwoTesters` in `MCClientInput.cfg`: when
  two clients are impervious, `IgnoreClient` during a server grab takes a client out of the
  live sets only (`os/connection.c:1152`), so the end of the grab brings back one
  that still waits for another grab. It is harmless: its request fails again and
  it is ignored again. `Apart` leaves it out.
* `MCWorkQueue!DoneIsRemoved`, with `MCWorkQueue.cfg`: a client that sleeps, and
  whose font server has answered, is killed before the work queue is walked.
  `CloseDownClient` signals it again (`dix/dispatch.c:3593`), its function is on
  the queue twice, and is called again after it has finished the request and
  freed its closure.
* `MCXdmcp!CountedAnew`, with `MCXdmcp.cfg`: the retransmissions of the MANAGE
  packet are still counted when the session begins (`os/xdmcp.c:633`), so that a
  session may be declared dead of "too many keepalive retransmissions" when its
  first keepalive is late.
* `MCXdmcp!Established`, with `Managers` and `Queried` both `{m1, m2}` in
  `MCXdmcp.cfg`: a client of the one manager's earlier session connects late,
  while the server asks the other. When it goes before the other's has come it is
  the last client, the server resets (`dix/dispatch.c:3613`) and asks again, and
  the client of the session it then forgets comes late in its turn.
* `MCXdmcp!Noticed` and `Established` without the premise `Silent`: the manager of
  a session has crashed, and its clients send a request within each dormancy. Every
  such `select` sets the keepalive's timer anew (`os/xdmcp.c:723-724`), so that no
  KEEPALIVE is sent. (The dormancy is meant so: keepalives go out when the
  display is quiet.)
* `ServerLoop!Terminates` with every SIGTERM remembered in `asked`, not only those
  outside of `Store`: one that comes between the load and the store of
  `dispatchException &= ~DE_PRIORITYCHANGE` is lost (`dix/dispatch.c:533`), though
  `doc/Xserver.man.pre:501` says the signal "causes the server to exit cleanly".
* `SisusbScreen!ScannedOut` fails when a quarter turn is among the rotations:
  `RRCrtcGetScanoutSize` (`randr/rrcrtc.c:770`) exchanges the sides, and the
  screen has those of the upright one (`hw/kdrive/sisusb/sisusb.c:220`).
  `Mirrored` and `InBounds` are therefore about screens not turned by a quarter.
* `SyncGrabs!NoGhostGrab` fails when a client owns the last window
  (`Owner <- AOwnsTheLast`): after `ReleaseActiveGrabs` its resources are freed
  (`dix/dispatch.c:3568`), which destroys the window and plays events, and one of
  them activates a passive grab of the client that goes. The comment at
  `dix/events.c:1493` sees the trouble coming.

And others, read in the code while it was translated:

* An ALIVE packet about an earlier session ends the present one
  (`os/xdmcp.c:1448`), where REFUSE and FAILED compare the session first; and
  `XdmcpOpenDisplay` takes whoever connects first, a local client too, for the
  session.
* A repeated press is handled in two calls (`dix/events.c:2773`); when the first
  freezes the keyboard, the second half goes to the end of the queue, behind
  what was typed later (`split` excuses it in `InOrder`).
* A passive grab of a key that a replay activates does not set `activatingKey`
  (`dix/events.c:1147` against `2790`), and the release of the key does not end
  it.
* A replayed event is delivered although another client's grab has frozen the
  device meanwhile.
* Unmapping a window ends its grabs, and events played by that may activate a
  passive grab on the same window, which is still realized then.
* The table in `kinput.c:1355` has "<> -> (deliver) start", but `deliver` posts
  the held event (`kinput.c:1735`): after a click a motion in state
  start presses the button again. `hold` returns before the timeout of the same
  transition is set and the next state entered (`kinput.c:1728`), so that a press of
  button 1 or 3 is kept back until another event comes. `ButtonsKept` is about the
  other buttons.
* `doc/smartsched:189` says clients that executed no requests for some time are
  praised; `dix/dispatch.c:335` praises those that had none to execute. A client
  starved by higher priorities is not. `doc/smartsched:161` describes the timer as
  counting CPU time; the code uses `ITIMER_REAL`.
* `mieqEnqueue` drops a valuator event when `tail` is 0 (`mieq.c:111`), and
  attaches valuators of a tossed event to the one before (`mieq.c:136`).
* While a client always has another request in its buffer and nothing else is
  readable, `WaitForSomething` runs no timer (`os/WaitFor.c:275-283`), however long that
  lasts; the same when events wait at each return of `select` (`PassedOver`).
* `WaitForSomething` looks at all timers only if the first one looks wrong
  (`WaitFor.c:206`), and `CheckAllTimers` works with a time read before
  (`WaitFor.c:445`).
* The highest priority in `WaitForSomething` starts anew for every word of the
  set (`WaitFor.c:358`), though "Only the highest priority client is returned".
* Without any timer, SIGIO just before `select` would not wake the server up;
  the screen saver's timer hides this.
* After `bail4` the screen pixmap leads to the freed buffer, and the size of the
  screen is set from that of the panel, whatever it was.

## 7. What is not modelled, and why

* Data without control: pixels other than the copy of the shadow, regions,
  fonts, keyboard maps, window trees, properties. These are sequential
  operations, a request at a time, whose correctness lies in their data.
* Input as `Xsisusb` itself has it: its drivers (`hw/kdrive/sisusb/kbd.c`,
  `mouse.c`) hand nothing to `KdRegisterFd`, so that only a driver added to them
  brings SIGIO and events, and the table of descriptors in `kinput.c` stays empty.
  The input path is modelled as the drivers under `hw/kdrive/linux` use it.
* Libraries and the kernel: D-Bus, HAL, the device's driver. Writes to the
  device succeed.
* `Xsisusb` alone is meant: `debian/rules` builds no other server of the tree,
  and neither GLX nor XTrap.
* In modelled parts: allocation failures but those of the shadow and of output,
  of which the ones at startup end the server; suspend and resume, which nothing
  in this server calls; registers of the device.

## 8. What is left

In the order of their worth:

1. Block and wakeup handlers and the callback lists of `dix/dixutils.c`, which
   are changed while they are walked.
2. `SyncCounters`, `ScreenSaver` with `OsTimer`; `Resources`.
3. Compositions: `ServerLoop` with `SmartSched` and `ClientInput` as a refinement
   of the one client it stands for; `ClientInput` with `ClientOutput`, which
   share the descriptor sets.
4. Proofs of what those modules will promise. Of the present ones every
   invariant that a run checks is proved; liveness is not.
