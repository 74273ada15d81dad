# ps2link: TLA+ models, checks and proofs

ps2link turns a PlayStation 2 into a machine a PC can drive over Ethernet: the
PC opens a TCP connection and serves a file system to the console (`host:`),
and sends commands in UDP packets (run this program, dump that memory, reset).
The code runs on two processors. The IOP has the network; the EE runs the
user's programs. This directory models the parts of that system whose
correctness depends on the order in which threads, interrupts and messages
meet, on calls that fail half-way, and on what survives a restart.

## Inventory

| Part | Code | State it keeps | Operations | Model |
|---|---|---|---|---|
| `host:` driver | `iop/net_fsys.c` | `fsys_sema`, mounted or not, `own_fd` of each file | twelve entries, mount, unmount | `FileIO`, `HostRPC` |
| File RPC client | `iop/net_fio.c`, `iop/fileio_reply.h` | `pko_fileio_sock`, `send_packet`, `recv_packet` | `pko_open_file` .. `pko_get_stat`, `pko_accept_pkt`, `pko_close_socket` | `FileIO` |
| Connection server | `iop/net_fio.c` (`pko_file_serv`) | `pko_fileio_active`, the listening socket, a new client | accept, reconnect, stop | `FileIO` |
| PC and TCP/IP stack | not in `src/` | connections, streams, handles, files | serve, break, connect | `FileIO`, `MemCmd`, external |
| Command listener | `iop/cmdHandler.c` | `recvbuf`, `excepscrdump` | forward, exec_iop, reset, power button | `Console`, `SifCmd`, `Packets` |
| SIF command channel | `iop/cmdHandler.c`, `ee/cmdHandler.c` | `rpc_data`, the DMA queue, the mailbox | fill, queue, transfer, interrupt | `SifCmd`, `Packets` |
| EE command thread | `ee/cmdHandler.c` | `cmdThreadID`, `userThreadID`, wake-ups | run, refuse, kill and reset | `SifCmd` |
| Memory and register commands | `ee/cmdHandler.c` | `dataBuffer`, host descriptors | dump, write, registers, GS | `MemCmd` |
| Boot and reset | `ee/ps2link.c`, `ee/cmdHandler.c` | `if_conf`, `excepscrdump`, the handler | configure, restart, load, `initCmdRpc`, `pkoReset` | `Console`, `Packets` |
| IOP module entry | `iop/ps2link.c` | none | mount, listen, naplink | `Console` |
| IOP exception handler | `iop/excepHandler.c`, `iop/exception_packet.h` | `excep_buffer` | find the module, send a packet | `SifCmd`, `Packets` |
| EE exception handler | `ee/excepHandler.c` | saved registers | stop the user program, dump | `SifCmd`, the threads |
| naplink | `iop/nprintf.c` | none | print | `Console`, its start |

How they meet. A driver entry holds `fsys_sema` around one call of the RPC
client. The client reads `pko_fileio_sock` anew for each `send` and `recv`; the
server thread, which does not take `fsys_sema`, replaces that variable when the
PC reconnects. A reset unmounts the driver, which takes the semaphore and then
deletes it, and only then is the reset command sent to the EE. The sender of a
command and the IOP's exception handler share `rpc_data`; the EE's interrupt
handler and its command thread share the mailbox, which a command goes on
reading while the next packet may land there; the command thread and the user
program share `userThreadID`. A restart of the EE keeps the mailbox and
`.data`, and clears everything else.

What makes each part correct:

* driver and client: calls are served one at a time; a request is executed at
  most once; a result that is no error is the PC's answer to this request;
  every call the PC answers returns, and an unmount gets through unless a call
  waits for ever on a silent PC;
* server: the shared handle names the connection it was made for;
* channel: other traffic on the SIF does not make a packet run again, and the
  one in the mailbox is run unless the command thread is deaf;
* command thread: the program that has its thread is the one a reset can stop;
* memory commands: exactly the range and the file the packet names, nothing
  else, and descriptors are given back;
* boot and reset: ready means complete, the boot gets past the restart that
  configuration costs, no command crosses a restart, and a reset restarts the
  machine, whoever asks for it, unless its packet is lost or finds the command
  thread deaf.

Some of these the code keeps only up to a point; "Runs" says where it ends.

The hazards, each at its line, are in `PROJECT.json`.

## Modules

`FileIO` is the file system with its server, the network and the PC. Its
variables have the names of the code's statics where there is one
(`pko_fileio_sock`, `send_packet`). A thread's place is `pc[a]`; a step reads
or writes a shared variable at most once, so `pko_fileio_detach_socket` is
`CloseRead` and `CloseClear`, and each read of the handle is a `Capture`. A
stream is a sequence of tokens: a request header, a block of data, a reply
header, a reply body. The ten operations whose request and reply have a fixed
size differ only in the reply length they expect, so one family of actions
stands for them; read and write have the extra steps they have in the code.
`up[c]` and `down[c]` are the bytes of connection `c` that nobody has taken
yet. A handle in the code is a number, and lwIP hands a closed one out again.
In the model a handle is known by the connection it was made for; `num` is its
number, one of `Nums`, and `fd` is what it names by now: `Accept` takes any
number that no open connection has, and every handle of that number names the
new connection from then on. `reused` remembers that this happened to a handle
some thread still held (`Held`): in the shared variable, as the argument of a
`send` or `recv`, or about to be closed.

The PC is external. It takes a request's bytes off the stream whatever they
really are (a torn header is completed by what follows it), executes it, and
replies correctly, with a wrong count, with another type or length; or it goes
away, with some of its reply delivered. Stray data that no request announced
is dropped.

`HostRPC` is what that amounts to for a caller, in six actions and without
connections, packets or a semaphore: a call is asked, granted, executed by the
PC at most once and only after it was granted, answered with an error or with
the value it was executed with, and returned. `FileIO!Host` maps a thread's
place to a stage of its call and the PC's history to what was executed;
`ImplementsHostRPC` is `Host!Spec`. The promise (`Promised`) ends when the
driver is destroyed, since a caller that waits for the deleted semaphore goes on
without it, and when a handle is handed out again under a thread that holds it.

`SifCmd` is the command channel. `Fill` and `Queue` are the two halves of
`pkoSendSifCmd`, with the exception handler's own sending between them;
`Transfer` copies whatever `rpc_data` holds by then; `IntrRead`, `IntrChain`
and `IntrWake` are the interrupt handler, with the SIF free to transfer again
after `iSifSetDChain`. `Resume` and `Dispatch` are the command thread's
`SleepThread` and switch, and the `Exec...` actions are the steps of
`pkoExecEE`, whose program may crash or exit at any time it is running. A
packet is its command and a number for the rest of its contents; the commands
that touch only memory, registers or a mode are one action, `RunOther`. `again`
remembers the packets that were run a second time, and `crowded` those that
landed on one still to be run (`StillToRun`), or that landed twice because
`rpc_data` was refilled before a queued transfer had read it.

`MemCmd` is what `RunOther` leaves out: `pkoDumpMem`, `pkoWriteMem`,
`pkoDumpReg` and `pkoGSExec` on the command thread, one step for each thing
they read from the mailbox, size, offset and path, and each call of the file
system. `Land` puts the next packet into the mailbox between any two of them,
and a field read from a packet of another kind may have any value (`SizeRead`).
The GIF is sent whole quadwords, as many as the size holds (`QuadBytes`), and
where that is more than `dataBuffer` has, what lies behind it (`Beyond`). A
call returns what `FileIO` lets it return: an error, or a count that may be
short. The PC has a descriptor table, which a lost connection empties, so that
a number may mean the user program's file afterwards. `want` and `before`
remember the packet and the world as they were when the command was chosen;
`upset` remembers a short count, a lost connection and a packet read together
with another one, the three things a command cannot see.

`Console` is the machine from power-on to restart: `main` with its two passes,
`loadModules`, `initCmdRpc`, the command thread as far as modes and resets go,
`pkoReset` with `ExecPS2`, `_start` on the IOP, the listener, and the power
button's reset on a thread of its own. The command thread can go deaf in it the
two ways it can in the code: `IopException` puts a packet on the SIF whose
command sleeps on the command thread (`excepsleep`), so that the next wake-up
only ends that sleep; and a command that takes a while may turn out to have
been a program that could not be started, which clears `cmdThreadID`. `missed`
remembers the commands that reached it then. Modules may fail to load, and
`Mount` to mount `host:`. Below it everything is abstract: a call
of `host:` holds the semaphore until it ends (`FileIO`, `CallsReturn`), a packet
on the SIF may be replaced or dropped (`SifCmd`), a command takes a while
(`MemCmd`, `CommandEnds`). Restarting the EE keeps `config`, `scrEE` and
`mailbox`, which are in `.data` or outside the image; resetting the IOP keeps
nothing of it (`IopCleared`). A packet carries the number of the boot it was
sent in.

`Packets` holds the pure code: `getIpConfig`, `makeArgs`, the arguments of
`pkoExecIop`, `ExceptionGetModuleName`, `pko_copy_exception_name`, and
`pkoSendSifCmd`'s length with the packets of `hostlink.h`. Its machine takes one
input, applies the operator and stops; each invariant compares the outcome with
a definition of what was meant, written without the loop.

`MCFileIO`, `MCSifCmd`, `MCMemCmd`, `MCConsole` and `MCPackets` add symmetry
sets and small inputs. The theorems are in `FileIOProofs` (the semaphore and
the handle), `FileIOStreamProofs` (what is under way on a connection),
`HostRPCProofs` (the refinement), `SifCmdProofs`, `MemCmdProofs` (ranges and
descriptors), `MemCmdDataProofs` (types, leaks and contents), `ConsoleProofs`
and `PacketsProofs`. Definitions named `X_Y` (`Acquire_NoWait`)
are faulty variants of `X`: each property is run against one of them, which
must break it.

## Runs

| Run | Instance | Checks |
|---|---|---|
| `FileIOReconnect` | 1 caller, 3 connections, 2 numbers of handles, 2 requests | `AckTruthful`, `StreamClean`, `NoOverwrite`, `HandleNeverStale` |
| `FileIOContend` | 2 callers, 1 unmounter, 1 connection, 2 requests | `TypeOK`, `SemaExclusion`, `ImplementsHostRPC` |
| `FileIOProgress` | 1 caller, 1 unmounter, 2 connections, 2 numbers, 1 request | `CallsReturn`, `UnmountCompletes` |
| `SifCmdChannel` | 2 senders, 3 packets, 2 programs, all faults | `TypeOK`, `ProgramTracked`, `RunOnce`, `ServedUnlessDeaf` |
| `MemCmd` | 2 commands of all four kinds, chunks of 3 bytes, sizes 0, 2, 3 and 4, quadwords of 2 bytes, GIF sizes 1, 3 and 4, 2 descriptors, 2 connections | `TypeOK`, `ChunkInside`, `TransferExact`, `OthersUntouched`, `LeakOnlyOnFailure`, `OutsideUntouched`, `CommandEnds` |
| `Console` | all eight modules, 1 failure, 2 packets, 1 press of the button | `TypeOK`, `NoStaleCommand`, `ReadyComplete`, `ModesAgree`, `BootCompletes`, `ResetRestarts`, `PowerRestarts` |
| `Packets` | all texts of up to 9 characters, all packets of 6, all pairs of command packets, whole, short or long | `ConfigParsed`, `ArgsSplit`, `IopArgsSplit`, `ModuleFound`, `NameEnds`, `NameArrives` |

Three connections are needed for a caller to hold a handle across two
reconnections, the shortest history in which the handle it holds can name
something else, and two numbers are the fewest with which a connection can be
replaced, so that the third one must take up a number again; two requests are
needed for an operation to meet what an earlier one left behind; a length of 1
separates an empty, a full and an oversized count. The refinement is checked
with two callers and an unmounter, so that a call may be granted while another
one waits and after the driver has gone. `FileIOProgress` has reads and writes
only, whose steps include those of an operation of fixed size. Two senders and
one exception are enough for a buffer to be refilled twice before its transfer,
and a queue of two for it to be full. In `MemCmd` sizes 0, 2, 3 and 4 against
chunks of 3 are nothing, part of a chunk, a chunk, and a chunk with a rest, GIF
sizes 1, 3 and 4 against quadwords of 2 are no quadword, one with a rest, and
two, which is more than `dataBuffer` holds; two commands are one that runs and
one that lands on it, and two descriptors with two connections let a number
mean another file after a reconnection. In `Console` two packets and a press
give two resets that cross, or a reset from the button while the listener is
inside a module. The texts of `Packets` are short because its buffers are:
`ConfLen`, `Field`, `PathLen` and `NameBytes` are constants, chosen in the
proportions of the code's. Only the lengths of command packets are the real
ones, counted in pairs of bytes. `Word` is small: an `argc` of 0 wraps to it.

The bounds (`MaxReqs`, `MaxLen`, `MaxSends`, `MaxOther`, `MaxProgs`, `MaxCmds`,
`MaxFds`, `MaxLinks`, `MaxFails`, `MaxPackets`, `MaxPresses`) end every
behaviour, so the runs do not check for deadlock: a system whose requests are
used up stops.

Five more runs, one disagreement each, show what the code does against its own
comments:

* `FileIOOwn`: a call that fails because the server closed its connection for a
  reconnecting PC closes the new connection in turn.
* `FileIOWrite`: a reconnection between a write's header and its data sends the
  data down the new connection.
* `FileIORecycle`: a handle read before two reconnections may name the newest
  connection when it is used; the operation then leaves bytes there for the
  next one. `StreamCleanAlways` is `StreamClean` without its excuse.
* `SifCmdFault`: `iopException` sleeps on the command thread, so the command
  after an IOP exception only ends that sleep. It is never run.
* `SifCmdStart`: when `StartThread` refuses the program, the failure path
  clears `cmdThreadID` instead of `userThreadID`, and no later command wakes
  the command thread.

What the passing properties excuse is said in them and is part of what they
show. `AckTruthful`, `StreamClean`, `HandleNeverStale` and `ImplementsHostRPC`
hold until a handle is handed out again under a thread that holds it: the
code's late use or late close of it then hits the new connection, and nothing
in the code can tell. `UnmountCompletes` excuses a call that waits for ever on
a PC that keeps the connection and says nothing, `CallsReturn` one that waits
on a connection which never carried its request. `RunOnce` excuses a packet
that landed on one still to be run, which has two wake-ups, and one that landed
twice; neither has a remedy in the code. `TransferExact` excuses a short count,
which the loops count as a whole chunk and `pkoGSExec` does not look at, a lost
connection, after which a number kept in `own_fd` may mean another file, and
parameters read from two packets; `OthersUntouched` the second of these, and
`OutsideUntouched` the third. `LeakOnlyOnFailure` counts one descriptor left
open for each command that gave up. `ServedUnlessDeaf` excuses the two ways of
going deaf above. `ResetRestarts` and `PowerRestarts` excuse a packet that was
dropped, replaced, arrived while no handler was installed, only ended
`iopException`'s sleep or found `cmdThreadID` cleared, an EE without its
command thread, and `pkoReset` spinning because `SifIopReset` was refused or
the IOP was back before it looked; `ModesAgree` excuses a mode packet that was
lost or missed in the same ways. `NameArrives` excuses a path of a memory
command that needs the last two bytes of its field, where the command word in
front of the packet pushes them past the rounded length, and, in a datagram
shorter or longer than its packet, a name that ends less than four bytes before
it does.

## Fairness

In `FileIO` a thread inside an operation takes its next step unless it is
blocked: the IOP's scheduler runs every ready thread in the end, since the
server, the thread of highest priority, blocks in `accept`. Nothing obliges a
thread to call, a PC to connect or to answer, or `accept` to fail, and a `recv`
on a connection whose PC stays silent blocks. That the PC answers (`PCAnswers`)
is a premise of `CallsReturn` alone, which leaves out one case: a caller that
waits for a reply on a connection which never carried its request, because the
PC reconnected in between. No PC will ever answer that. `UnmountCompletes`
assumes nothing of the PC, but says what can hold a reset up: a call that keeps
the semaphore and waits for ever in `recv` on a connection that is up and
brings nothing (`WaitsForPC`), stranded or not. In `SifCmd` an interrupt is
taken, the SIF carries what is queued when it may, and the command thread,
whose priority (20) is above the user program's (64), runs when ready; nothing
obliges a sender to send.

In `MemCmd` the command thread takes its next step: a call of the file system
returns, which `FileIO` shows of a PC that answers, up to its one exception. In
`Console` the EE, `_start`, the SIF and the IOP's own boot go on, and calls of
`host:` end. The listener and the power button's thread wait for the semaphore
under strong fairness: `SignalSema` hands it to a thread that waits, so a
program that calls again and again cannot keep it from them. Nothing obliges
the PC to send, the button to be pressed, a user's IOP module to return, or
another transfer's interrupt to come.

## Theorems

| Theorem | Statement | Argument |
|---|---|---|
| `FileIOProofs!TypeCorrect` | `Spec => []TypeOK` | inductive as it stands, with lemmas about the sequences a stream is built from |
| `FileIOProofs!MutualExclusion` | `Spec => []SemaExclusion` | `SemaInv` adds that the count is 0 while any thread is between `WaitSema` and `SignalSema`; `HoldingStep`: only `Acquire` lets a thread in |
| `FileIOProofs!NothingOverwritten` | `Spec => []NoOverwrite` | `CloseInv`: only the server stores a handle, and it is gone from the moment the server has cleared it or found it clear |
| `FileIOProofs!HandleValid` | `Spec => []HandleNeverStale` | `FreshInv`: a handle somebody holds names its own connection or nothing, and the shared one its own; a close clears the global before it frees the handle, and a new connection's number is one nobody holds |
| `FileIOStreamProofs!AnswersTruthful` | `Spec => []AckTruthful` | `StreamInv`, below: what a caller reads is the rest of the PC's answer to its own request, which was executed when that answer was sent |
| `FileIOStreamProofs!StreamAlwaysClean` | `Spec => []StreamClean` | `StreamInv`: an exchange that ends well has read its answer to the end, any other ends with its connection closed |
| `HostRPCProofs!HostImplemented` | `Spec => ImplementsHostRPC` | `BoundInv`, `OnceInv`, below, and one lemma per action of `HostRPC` |
| `SifCmdProofs!TypeCorrect` | `Spec => []TypeOK` | inductive with the fact that a loaded program has a thread |
| `SifCmdProofs!ProgramIsTracked` | `Spec => []ProgramTracked` | `TrackInv`: between `CreateThread` and `StartThread` the program is not alive, and no other one is because `pkoExecEE` found `userThreadID` 0 |
| `SifCmdProofs!NothingReplayed` | `Spec => []RunOnce` | `Single`: a packet that landed alone is either still owed its interrupt or due to be run, once, and has not been run; `OrderInv`: packets land in the order of their numbers, so one that was run does not land again uncrowded |
| `MemCmdProofs!ChunkAlwaysInside` | `Spec => []ChunkInside` | `Placed`: `LoopLen` says a round starts with a length the buffer holds, which after the first one the range holds too; `NextLenBounds` does the rest |
| `MemCmdProofs!WritesInside` | `Spec => OutsideUntouched` | `Placed` again: while no other packet was read, `Follows` says `offset` has moved from the packet's by what was done, so that with `ChunkInside` a round stays in the range |
| `MemCmdProofs!OthersAlwaysUntouched` | `Spec => []OthersUntouched` | `Owned` adds `OwnFd`: while the connection lasts, `fd` names the file that was opened and no other step closes it |
| `MemCmdDataProofs!TypeCorrect` | `Spec => []TypeOK` | `Typed` adds to `Placed` that no descriptor stands past the end of its file, and that the range a loop goes through is a range of memory even when its parameters are those of two packets |
| `MemCmdDataProofs!LeaksAreFailures` | `Spec => []LeakOnlyOnFailure` | `Accounted`: but for the descriptor it holds, a command has left none; giving up counts one, a lost connection leaves none |
| `MemCmdDataProofs!TransferAlwaysExact` | `Spec => []TransferExact` | `Undisturbed`: while nothing upset the command, what it has moved so far is a first part of the range; `WrittenTwice`: two chunks written one behind the other are one longer write |
| `ConsoleProofs!NoCommandCrosses` | `Spec => []NoStaleCommand` | `Crossing`: while the IOP boots and until the image runs again nobody is there to send (`NobodyThere`), so what is on the wire is of this boot; what is older can only be in the mailbox, whose flag is cleared before the handler is installed (`Fresh`) |
| `ConsoleProofs!ReadyIsComplete` | `Spec => []ReadyComplete` | `Boot`: each module that has had its turn is loaded or broken (`TurnsTaken`), and `_start` has done what it has passed unless a reset undid it (`Started`) |
| `ConsoleProofs!TypeCorrect` | `Spec => []TypeOK` | `Granted`: a restart uses up a reset that the first boot, a packet or a press brought, and those under way are counted wherever they are, so `boots` stays within its bound |
| `ConsoleProofs!ModesAlwaysAgree` | `Spec => []ModesAgree` | `Follows`: the mode the IOP chose last is the EE's, or is on the wire or in the mailbox, or was lost or missed |
| `PacketsProofs!ConfigAlwaysParsed` | `Spec => []ConfigParsed` | `NextFieldIs`: a round copies a field into an empty rest, cut to `Field`; the three of them follow each other, and the file cut at its spaces is three texts that are no longer than that |
| `PacketsProofs!ArgsAlwaysSplit`, `IopArgsAlwaysSplit` | `Spec => []ArgsSplit`, `[]IopArgsSplit` | `Walk`: going on by `strlen` plus one passes the starts of the packet's texts in order, and behind the last one leaves the packet |
| `PacketsProofs!ModuleAlwaysFound` | `Spec => []ModuleFound` | the code's test differs from "inside" only just behind a module |
| `PacketsProofs!NameAlwaysEnds` | `Spec => []NameEnds` | the length copied is below `NameBytes`, whatever the limit |
| `PacketsProofs!NameAlwaysArrives` | `Spec => []NameArrives` | `SentCounts`: each packet carries its number over all that its transfer takes; the rest is arithmetic on the sizes of `hostlink.h` |

They hold for every set of callers, unmounters, connections, operations,
senders and programs, every size of buffer, memory and file, every text, packet
and list of modules, and every bound, from the named assumptions of the
modules: the threads are distinct (`AgentsAssumption`), the invalid handle is
not a connection or a number (`HandleAssumption`), read, write and the type of
a wrong reply are no fixed-size operations (`OpsAssumption`), every range a
packet may name is inside memory (`MemAssumption`), `ps2link` is one of the
modules (`ConsoleAssumption`), three fields with their terminators fit the
configuration's buffer and packets are as long as their buffers
(`PacketsAssumption`), NUL and the space are characters (`CharsAssumption`), at
least one packet is sent, no name in it is longer than its field and the
packets the code itself makes or checks have their length
(`SendListsAssumption`), and the bounds are numbers.

None of them assumes that the numbers of handles are not used again. What they
exclude, a number that is handed out under a thread that still holds it, is a
state of the model (`reused`), is part of the properties, and is what
`FileIORecycle` shows.

The streams. `AckTruthful` speaks of a call's end and `StreamClean` of the
moments between calls; neither says what a connection holds in the middle of an
exchange, when it may break or be replaced. `StreamInv` does: for each caller
inside an exchange, and for the two connections near to it, the current one and
the one whose handle it has captured, `Talk` says what may be under way there.
Upwards this is nothing, the request, or the request with its block; downwards
nothing, the rest of the true answer, or a wrong one that the checks of the
reply will refuse; on a connection that did not carry the request, at most a
block without its header. `Knows` says what the caller has concluded by then.
`SpentInv` comes first: a connection that was not the current one yet is empty.
A caller inside an exchange is alone because of `SemaInv`, and the handle it
has captured names its own connection or nothing because of `FreshInv`, as long
as `reused` is false.

The refinement. Every action of `FileIO` is shown to be one action of `HostRPC`
or to change nothing it sees (`HostAsk`, `HostGrant`, `HostServed`,
`HostExecute`, `HostReturn`, `HostDestroy`, `HostOthers`). Executing a request
at most once needs `OnceInv`: while the driver lives no two calls have one
number, and a request's header is on its way at one place at most, after its
caller has sent it and before the PC has executed it. Answering with the value
executed needs `AckTruthful`, and that every value is one of `HostRPC`'s needs
`BoundInv`.

The loops of `Packets` are recursive functions, and what such a function
computes is said by induction. Its least counterexample does for that
(`Induction`, about a set of numbers): the least element of a set of naturals
comes from `WFMin` of the library. `Recursion` builds the function that a
recursive definition chooses.

With these, every safety property a passing run checks is a theorem. What
remains model-checked only is liveness under fairness, which is out of the
prover's reach: `CallsReturn`, `UnmountCompletes`, `ServedUnlessDeaf`,
`CommandEnds`, `BootCompletes`, `ResetRestarts` and `PowerRestarts`.

## Abstractions

* `memcpy` into `rpc_data` is one step in `SifCmd`; the exception handler
  cannot cut it in two. It can come before and after it.
* `send` hands over a header or a block as a whole, or fails with a torn
  header.
* A descriptor in `MemCmd` is the PC's, the one kept in `own_fd`; that the EE
  and the IOP number it again on the way is left out. A lost connection drops
  what is under way.
* A byte of memory, a register and a byte of a file are numbers that say where
  they were first; a file's name is the number of its packet. A byte behind
  `dataBuffer` is a value of its own, which no file has.
* What lies behind a packet in `Packets` is taken to be empty texts, and the
  last 4 bytes of a datagram that fills `recvbuf`, which `memcpy` puts behind
  `rpc_data`, go nowhere.
* `CreateSema` in `fsysMount` succeeds.
* In `SifCmd`, `pkoLoadElf` returns: in the code it calls the file system.
* What a user program does to the machine, other than run, crash, exit, open a
  file and call `host:`, is not modelled.

## Not modelled

* The VU assembly of `pkoDumpReg`, `pkoStartVU` and `pkoStopVU`, the addresses
  in `ee/ps2regs.h`, `ee/exceptions.S` and the register dumps: hardware state
  with no order to get wrong that a model of this kind could see.
* naplink after its start: it prints its argument and answers.
* `elfName`. It is copied after `restartIOP`, hence after the first boot's
  `pkoReset` has passed it on empty; nothing reads it but `argv[0]` itself.
* `PoweroffShutdown`, after which nothing runs.
* Thread priorities, and with them an `accept` that fails without a pause and
  starves every other thread.

## What could follow

* `FileIO` and `Console` in one module, with a reset that waits for a call the
  PC does not answer.
* What still holds after a handle was handed out again under a thread that
  holds it: only that thread's operation and the connection it hits are harmed.
