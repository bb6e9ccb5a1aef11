# Homegear-EnOcean: a verification project

TLA+ models of the EnOcean module of Homegear (`src/src`), the TLC
configurations that check them and the TLAPS proofs about them. Paths below are
relative to `src/src` unless they start with `src/`.

The module connects Homegear to EnOcean devices. Threads of Homegear (RPC calls,
scripts), one listen thread per interface, one packet processing thread per
interface, the workers of the central and of the interfaces, and the threads
started for pairing and firmware updates all meet in four places: the interface,
the peer, the central and the list of interfaces.

    RPC threads ---> EnOceanCentral ---> EnOceanPeer ---> IEnOceanInterface ---> device
                        |    ^             |    ^            |         ^
             pairing,   |    |   worker, --+    |            |         |
             update,  --+    |   every peer     |       getResponse   listen thread
             pinging         |                  |            |         |
                             +--- packetReceived+<---- raisePacketReceived

## Inventory

For each component: its state, its operations, what it shares with others, what
is hard about it, and what makes it correct.

**Serial command exchange** (`PhysicalInterfaces/IEnOceanInterface.cpp`,
`Usb300.cpp`). State: `_serialRequests`, `_getResponseMutex`, one
`SerialRequest` per command with its response, flag and condition variable; the
serial device, `_stopped`. Operations: `getResponse`, `checkForSerialRequest`,
`rawSend`; the listen loop with its reopening of the device. Hard: any thread
against the listen thread, acknowledgements that are late or lost, an
acknowledgement that names no command, a response written without a lock.
Correct when: one exchange at a time, nothing left in the table, the answer
belongs to the command, every exchange ends.

**Radio request exchange** (same files). State: `_enoceanRequests`, a map of
maps, `_packetId`, one `EnOceanRequest` per call. Operations:
`sendAndReceivePacket`, `checkForEnOceanRequest`, `sendEnoceanPacket`. It calls
the serial exchange once per chunk while it holds the request's mutex. Hard: the
listen thread needs that mutex and is at the same time the one that delivers the
acknowledgements; failure in the middle of the chunks; retries racing answers.
Correct when: only telegrams that fit the filter are returned, the maps are
exact on every path, everybody gets on.

**Command requests of a peer** (`EnOceanPeer.cpp`: `sendPacket`, `worker`,
`packetReceived`). State: `_rpcRequests` by frame id or `"ANY"`, the fields of
`RpcRequest`, `_sendPacketMutex`. Shared by RPC threads, the worker and the
packet processing thread. Hard: a wait without predicate; entries used after the
table's mutex was released and erased by key; early returns that leave entries;
resends that race answers. Correct when: success means answered, answered means
no more resends, commands return, entries leave.

**Rolling codes** (`EnOceanPeer.cpp`, `Security.cpp`). State:
`_rollingCodeInbound` (what Homegear sends with), `_rollingCodeOutbound` (what
the device sends with), keys and sizes, and their rows in the database.
Operations: `encryptPacket`, `decryptPacket`, the secure part of
`packetReceived`, teach-in, `loadVariables`, resets by `ENCRYPTION`, security
profiles (`remanSetSecurityProfile`). Hard:
read-increment-save in several steps, two threads, a crash between sending and
saving, the 128-code window, the widths. Correct when: codes are sent in order
and once, and no telegram is accepted twice.

**Device configuration queue and remote management** (`EnOceanPeer.cpp`:
`queueSetDeviceConfiguration`, `setDeviceConfiguration`, `updatedParameters`,
the `reman*` operations). State: `_updatedParameters`, the two queue flags, the
configPending message, the stored parameters, whether the device is locked.
Hard: RPC against the signal telegram of a sleeping device; restart; early
returns between unlock and lock. Correct when: what was queued is sent or still
pending, and a session ends with the device locked.

**Meshing and pinging** (`EnOceanCentral::pingWorker`,
`EnOceanPeer::updateMeshingTable`). State: repeater id and repeated addresses of
every peer, the table in the repeater. Hard: one relation kept in two peers and
a device, failure of either half. Correct when: both halves agree.

**Pairing, remote commissioning, peer registry, RF channels**
(`EnOceanCentral.cpp`). State: `_pairingInfo`, `_pairingData`, the commissioning
queue, `_peers`, `_peersById`, `_peersBySerial`, `_wildcardPeers`. Hard: the timer
thread against RPC and packets, a queue filled and emptied under different
mutexes, channels computed before they are taken, deletion of a peer in use.
Correct when: one peer per device and channel, the maps agree.

**Firmware update** (`updateFirmwares`, `updateFirmware`, `sendFirmwareBlock`).
State: `_updatingFirmware`, the blocks each device has. Hard: lost blocks,
devices that drop out, two updates at once. Correct when: a device that is told
to switch has every block.

**Interface life cycle** (`Usb300.cpp`, `Hgdc.cpp`, `Interfaces.cpp`). State:
`_stopped`, `_initComplete`, `_stopCallbackThread`, the threads,
`_updatedHgdcModules`. Hard: init, reconnect and stop in different threads; updates
reported during an update. **Gateway** (`HomegearGateway.cpp`): `invoke` against
`processPacket`, responses that come too late. **Chunking** (`EnOceanPacket.cpp`):
the sequence counter. **Blinds**: a position estimated over time.

## Modules

| module | models |
| --- | --- |
| `SerialChannel` | abstract: the half-duplex channel a serial interface promises |
| `SerialExchange` | `getResponse` against `checkForSerialRequest`, closing and reopening the device; implements `SerialChannel` |
| `RadioExchange` | `sendAndReceivePacket` against `checkForEnOceanRequest`, on top of `SerialChannel` |
| `PeerRequests` | `sendPacket`, the resends of `worker`, the request lookup of `packetReceived` |
| `RollingCode` | `encryptPacket` under its callers, the database and restarts |
| `InboundCode` | teach-in, `decryptPacket` and the checks before it, `ENCRYPTION`, `remanSetSecurityProfile`, restarts |
| `RemoteManagement` | sessions: unlock, commands, apply, lock, of every operation that has one |
| `DeviceConfig` | the configuration queue against the signal telegram; EXTENDS `RemoteManagement` |
| `Meshing` | repeaters: `pingWorker`, the meshing calls, `updateMeshingTable` |
| `Firmware` | `updateFirmwares`, `updateFirmware`, `sendFirmwareBlock`; EXTENDS `Meshing` |
| `PeerLife` | abstract: the one life of a peer that the registry promises |
| `Registry` | the maps of peers, pairing, commissioning, creation and deletion; implements `PeerLife` |
| `Usb300`, `Gateway`, `Hgdc` | the life of each type of interface, and `invoke` |
| `Interfaces` | one interface of any type; EXTENDS the three |
| `RadioExchange_proofs`, `PeerRequests_proofs`, `RollingCode_proofs`, `InboundCode_proofs`, `DeviceConfig_proofs`, `Firmware_proofs`, `Registry_proofs` | theorems about each, those of `DeviceConfig` with `RemoteManagement`, those of `Firmware` with `Meshing` |
| `Interfaces_proofs` | theorems about `SerialExchange`, and about `Interfaces` with its three modules |
| `MC...` | instances for TLC |

Operators named "faulty variant" in a comment are not part of a specification:
each is a plausible bug of the operator below it and shows that the property
named for it in `PROJECT.json` can fail.

### SerialExchange

`pc` follows a thread through `getResponse`; `table` is the one entry of
`_serialRequests` the code uses (type 0x02), `mutex` is `_getResponseMutex`.
A request object is named, and can be allocated again when nobody refers to it.
The registration takes both mutexes (`std::lock`) and is one step, as are the
other critical sections of `_serialRequestsMutex`, in which nothing blocks. The
write of the response takes two steps, `WriteBegin` and `WriteEnd`, between
which a reader gets `Torn`: it is not protected. The listen thread reads frames
in order; a damaged frame is dropped; a read error sets `_stopped`, after which
it closes the device, which discards what was buffered, and opens it again. A
caller may set `_stopped` when it returns, as the initialisation does when it
gives up. `rawSend` catches everything and writes nothing to a closed device: the
`catch` of `getResponse` around it is out of reach.

`OneExchange`, `OwnAnswerOnQuietLine`, `ExchangeEnds` and the refinement
`ImplementsChannel` are its properties. Without the condition "on a quiet line"
the second is false: nothing in the protocol ties an acknowledgement to its
command, so one that is a second late answers the next command. `dirty` records
the condition; the code has no such variable.

### RadioExchange

EXTENDS `SerialChannel` and takes its steps as those of each chunk; telegrams
share its line. The request's mutex is held from `LockRequest` on, except in the
wait, so `SetReady` has to wait for it. A thread has one request object, named
like the thread; when the call returns while the listen thread still holds the
object, it becomes `Orphan`. `Chunks` and `Retries` are per caller. At most
`MaxLine` frames are on the line; further ones are lost. `SendRefused` is the
interface that is not initialised or was stopped.

### PeerRequests

A command is synchronous, asynchronous or plain (sent once, without a request:
no response id, or no resends). Time is left out: a resend is due, a wait
expires, an entry is 20 seconds old whenever TLC likes, which includes every
real timing and some that the 20 seconds exclude. The worker holds
`_rpcRequestsMutex` from `BeginPass` to `EndPass`, its transmissions included.
`wait_for` in `sendPacket` takes any notification for an answer; `signalled` is
that notification. Spurious wake-ups are excluded, although the standard allows
them: with them `SuccessIsAnswered` does not hold. Service messages and the
value an answer confirms are left out. `answered` is a history variable.

### RollingCode

`ReadCode`, `LoadCode`, `StoreCode` and `SaveCode` are the accesses of one pass
through the loop of `encryptPacket`: the code is atomic, the increment is not.
All chunks of a packet are encrypted before the first is sent. Database writes
happen in order, at most `MaxQueue` are pending, and a crash loses them; a restart
loads the saved code, adds `Skip` (1000 in the code) and saves. The write a
restart begins with is assumed to be stored before the next crash. `air` is a
history variable: the codes in the order in which they were first sent. Sending
the same encrypted packet again, as `sendAndReceivePacket` does, sends no new
code. `Spec` has no worker that resends, `ResendSpec` has.

### InboundCode

Telegrams are numbered; telegram n carries the code n modulo `Codes`. The code
itself is a 32-bit integer in the program and is not reduced: the CMAC and the key
stream use its low bytes (`Security.cpp:86`), so it may run past the width and
goes on to be right. `Unset` is 0xFFFFFFFF. Each interface has a thread that calls
`packetReceived`: `Verify`, `TakeCode` (explicit codes only, inside
`decryptPacket`) and `Accept` are its steps, and other threads come between. A
telegram may arrive late or several times while fewer than `MaxDelay` newer ones
were sent. The key of a teach-in has two halves; `part` is the first. A restart
loads the code as saved, which an explicit code is only with `saveVariables`.

`remanSetSecurityProfile` sends the device a key and a code for one direction.
`SendOutbound` and `SendInbound` are its part before the answer, `OutboundKeySet`,
`OutboundKeyCleared` and `InboundAcknowledged` that after an acknowledgement, and
`NotAcknowledged` the early return; telegrams, restarts and `ENCRYPTION` come
between. `profile` is the call that waits, one at a time, and `told` the telegram
whose code the device is sent. A code that is not set is taken from the call before
the device has answered (`EnOceanPeer.cpp:2252`), in memory only: without an
acknowledgement Homegear goes on with a code that the device may not have
(`unheard`), and a restart forgets it unless `saveVariables` came between. It is set
a second time, and saved, only when it was forgotten during the call (`2298`). A
device that takes an outbound profile has a new key and goes on from `told`; what it
sent before no longer verifies (`since`). The device may also have taken a profile
whose acknowledgement was lost: then the key Homegear has is of no use (`KeyUnheard`).
Telegrams of an explicit device are refused while Homegear has no code of its own to
send with (`2668`), which is why `FreshVerifies` asks for `~inUnset` there.

The four properties are about codes that are `Settled`: they exclude behaviours in
which two threads handled telegrams of one peer at the same time, or one while its
code was changed (`raced`): then the code that is checked is not the one that is
used, and each of them fails. They also exclude a code that the device was sent and
did not acknowledge (`unheard`). `ForgottenIsRefused` says what switching
`ENCRYPTION` off forgets: whatever brings a code back later, a teach-in, a
profile or a restart, what the device sent before is refused. A profile that
is acknowledged starts the count of telegrams again, and with it `forgotten`: the key
is another one. The run does not follow races beyond `MaxRaced` telegrams: no
property speaks of them until a teach-in, and the theorems have no such bound.
`ReadableInSequence` speaks of the telegram after the last one received, because
decryption uses the stored code and not the one that matched
(`EnOceanPeer.cpp:1343`): after a lost telegram the payload is garbage, although
the CMAC was right.

### RemoteManagement and DeviceConfig

An operation is the list of its commands with what follows when one of them is
not acknowledged, read off each function: it goes on, it goes on but applies no
changes, it locks and ends, or it returns at once. `open` is the device's state.
`OpenOnlyAfterFailure` says how a device may stay open: a command that returns, changes
that are not applied, a lock that is lost, or `remanGetPathInfoThroughPing`, which
never locks. Sessions of other threads may lock the device in the middle of one.

`DeviceConfig` adds the queue. A call sets the message and the flag and adds its
parameters in separate steps; the signal telegram holds `_updatedParametersMutex`
for the whole session. Values are numbered, so that `NoParameterLost` can say that
the one asked for last, or a newer one, is queued or in force. `QueuedIsSent`
excludes a call that overlapped a signal (`overlapped`): then the flag is cleared
after the call has set it (`EnOceanPeer.cpp:1744`), and its parameters wait for
another call. `NothingStaleApplied` is about what a transfer that failed has left in
the device: the session of any other operation applies it later. It may put an older
value in force, but only while the parameter is queued with the last value asked for.

### Meshing and Firmware

A thread's task is a record: its kind, the peer, the repeater, and where it is.
`Return` is what each of the callers of `addRepeatedAddress` and
`removeRepeatedAddress` does with the result. A transfer takes its copy of the
table, deletes all filters, sets them one by one and saves the copy last.
`HalvesAgree` and `TableAgrees` are about what is `clean` and not `dirty`: the code
undoes nothing when one half fails, and two transfers to one repeater may overlap.
What `pingWorker` measures is arbitrary, so that each of its decisions is possible.

`Firmware` runs beside it, because an update reads `_repeaterId` to sort its peers
and stops the ping worker through `_updatingFirmware`. A device is a number: old,
the block it waits for, or new. A block may be missed, or the bootloader may
start again with the first block or with its old firmware. `VersionIsTrue` excepts a
device that fell back to its old firmware during an update: its answer, "not in
the bootloader", is taken for success.

### Registry

It follows the peers of one device, whose serial numbers are its address plus 0, 1
and so on; several threads receive its telegrams. `job` is what a thread does: a
telegram on its way through `onPacketReceived` and `handlePairingRequest`, a creation, a
deletion, or the thread of the pairing mode. A deletion gives the id or the serial
number of a peer; with the latter (`LookUpSerial`, `DeleteFound`) the peer is looked up
twice. It may be one that `buildPeer` has named (`EnOceanCentral.cpp:1490`) and not saved
yet (`1492`), which is then in use and not stored: `InUseIsStored` excepts it, and so
short a use ends without effect, as the peer has no entry by id yet. `uses` are the peers it holds, which
`deletePeer` counts (`peer.use_count()`). A remote commissioning session is one
step that succeeds or fails. Entries pushed to the commissioning queue while the
timer pops one may be lost: the two sides lock different mutexes. `twice`, `rivals` and
`late` record what the properties except, see there.

`PeerLife` is what all this looks like from outside: a peer is drafted, saved, found,
then found no more and deleted, in this order and once, and a restart finds what was
saved. `LifeOf` reads the life of a peer off the maps, the database and the thread that
creates it. Two deletions of one peer are one end of its life: the second changes
nothing there. The maps and the database change in different steps; the refinement says
in which order.

### Interfaces

Interfaces do not interact, so `Interfaces` follows one, whose type is chosen
initially; every step is a step of its module. `Usb300` has two threads that
initialise, that of `startListening` and the one `reconnect` starts, and one that has a
command, at any time: `interface setaddress` of the command line calls
`setBaseAddress` on the running interface (`EnOceanCentral.cpp:1409`), and a firmware
update asks for the duty cycle (`2175`, `2337`). One such command runs at a time.
`Gateway` numbers calls, so that a response is known by its call, which the code
cannot do. `Hgdc` handles reports of the HGDC: the last one replaces those
before it, and one that comes while one is handled is reset with it. A module may
begin to answer for good at any time (`Lasts`), whatever the interface has gone
through by then, and commands set its address, or fail, as those of a stick do.

`AddressIsOwn` says that a stick that takes packets to send has the base address of the
stick that is open, not that of one that was there before. It rests on
`_initComplete = false` in `reconnect` (`Usb300.cpp:222`), before the device is opened
again, and on `Outlasted`. It does not hold while a command is `Unchecked`: from the
moment the stick has taken another address (`Usb300.cpp:96`) to that in which it was
read back (`112`), or the interface was stopped because the answer was lost (`99`).
Nothing keeps other threads from sending with the old address in between; without
`~Unchecked` TLC finds such a state. Inside `init` the same steps are harmless, as the
interface is not initialised yet.

`Outlasted` is an assumption about time: the ten seconds `listen` sleeps are longer
than what is left of an initialisation, or of the read-back of a command, on a stopped
interface. So that one thread initialises at a time is assumed, not shown. Without it,
`reconnect` may open the device under an initialisation that then stops it again.

`Recovers` differs between the types. A stick and a gateway recover from anything. An
`Hgdc` that a failed exchange has stopped does not: `getResponse` returns at once
(`IEnOceanInterface.cpp:33`), and a module that "restarted", or an HGDC that is
connected again, leads to `init` only (`Interfaces.cpp:189`, `257`), which cannot ask
anything. Only `startListening`, for a module that is reported as added, ends that.
`failed` says that an initialisation or a command has failed since, and `lost` that a
report never was handled; `Recovers` is about the modules of which neither is true. It
demands what remains: whatever came and went, in whatever order the reports were
handled, the module ends up open, initialised and with its address known. Without
`~failed` TLC finds a module that answers for good and stays stopped.

## Runs

| run | question | bounds |
| --- | --- | --- |
| `serial_exchange` | safety, refinement and termination of exchanges | 2 threads, 3 request objects: a finished, a running and a waiting exchange, and 3 late acknowledgements |
| `radio_exchange` | request table and answers | 2 callers of one device, 2 functions, 2 chunks and 1 retry, 3 frames on the line |
| `radio_liveness` | does everybody get on? | 2 callers, 1 retry, 2 frames |
| `peer_requests` | requests, answers, resends | 2 callers, 3 objects (two in use and one left behind), 1 frame id and `"ANY"`, 2 resends; callers and objects are symmetric |
| `peer_liveness` | commands return, entries leave | 2 callers, 2 objects, `"ANY"`, 1 resend; no symmetry |
| `rolling_code` | order of codes | 2 callers, 2 chunks, 4 telegrams, codes to 12, `Skip` and `MaxQueue` 3: up to three restarts |
| `rolling_code_resend` | the same with a resending worker: violated | 1 caller, 1 worker, 1 chunk |
| `inbound_code` | what is accepted and read | 2 threads, 6 telegrams, 4 codes (so they start again), window 2, 2 late, profiles with 2 codes, races followed up to telegram 2 |
| `device_config` | queue, sessions and what failed transfers leave behind | 2 calling threads, 1 signal, 2 parameters, 2 values, 1 session of another kind; parameters and calls are symmetric |
| `central_upkeep` | repeaters and updates | 3 peers of which 2 repeat and 2 can be updated, tables of 1 entry, 2 attempts, 2 blocks, 1 retry and 3 in all; 5 budgets that pair checks, calls, restarts and updates |
| `registry` | the maps of peers, and does each peer go through one life? | 2 receiving threads, 1 call (by id or serial number), 2 peers, pairing mode once with one turn, 1 restart |
| `interfaces` | do interfaces recover, with their own address, and do calls get their answers? | 2 sticks with 3 changes of the base address, 3 calls of a gateway, one command at a time |

Two callers are enough for every conflict over one mutex or entry, and a third
object for one that outlives its call. A table of one entry is full with the
second peer, the second peer of a device takes the second serial number, and a
second stick has another address. The runs of the first seven rows,
`inbound_code` and `device_config` check deadlock: none occurs. The other three
say `CHECK_DEADLOCK FALSE`: their budgets (`central_upkeep`, `registry`), or the
sticks and a stopped interface (`interfaces`), come to an end, after which nothing
remains to be done.

Fairness: `FairSpec` of each module assumes that threads which can run do run,
that a timed wait ends, that the listen thread reads, and, as strong fairness,
that a thread waiting for a mutex that is released again and again gets it (the
standard promises less, the scheduler delivers it). `PeerRequests` also assumes
that the interface does not refuse resends for ever. Nothing is assumed about
devices: they may never answer. `Firmware` assumes that an update goes on: each
exchange and each wait for duty cycle ends with its time limit. `Registry` assumes
that of each thread, as exchanges and locks are held for a bounded time; a thread
that waits for others (`WaitForOthers`) has a limit of a minute. `Interfaces`
assumes it of each thread of an interface, one with a command included. `Recovers` says
"once the stick stays and answers and no more commands come" (or the gateway can be
reached, or the module answers, with `~lost` and `~failed`): what happens before is
arbitrary otherwise. `InboundCode` and `DeviceConfig` state no fairness and no liveness: a
device may never send again.

### What the violation shows

`sendPacket` and `sendAndReceivePacket` take `_sendPacketMutex`, "Protected by
Mutex to not mess up rolling code order when using encryption"
(`EnOceanPeer.cpp:2808`, `2835`). `worker` calls `encryptPacket` for its resends
(`EnOceanPeer.cpp:81`) without it. Both threads may read the
code before either stores the next, or one encrypts first and sends last; TLC
finds a behaviour of 13 states in which the codes on the air are not in order.
The device ignores a telegram whose code is not higher than the last one.

### What the other runs show about the code

The properties hold as they are stated. Writing them down brought up the cases
they have to except; these are the conditions in them, read from the code:

- A second copy of the second teach-in telegram is appended to the key
  (`EnOceanPeer.cpp:1323`), and `_lastPacket`, which should filter copies
  (`1262`), is never assigned.
- The number of parameters is compared with a length in bytes to decide on chunks
  (`1678`). Failing to apply changes (`1736`) and `remanGetPathInfoThroughPing`
  leave the device unlocked; so do the early returns of `updateMeshingTable`
  (`485`, `496`, `509`, `519`) and of commissioning.
- A repeater that does not answer is never exchanged by `pingWorker`
  (`EnOceanCentral.cpp:490-496`); taking an entry of a full table leaves
  the repeater id set (`498-499`).
- An update does not end when a peer in the middle of it is deleted
  (`2371-2372`); `UpdateEnds` excepts this.
- `createDevice` swaps the arguments of its test for an existing peer (`1650`); a
  second deletion erases the serial number of a new peer; a restart during a
  waiting deletion brings the peer back.
- `remanSetSecurityProfile` takes an unset code from its caller before the device has
  answered (`EnOceanPeer.cpp:2252-2253`), and does not save it afterwards.
- The base address of a stick is set, and one of its ten changes used, at every
  initialisation with `forcebaseid`. `setaddress` on a running stick leaves a time in
  which packets are sent with the old address. An `Hgdc` whose initialisation or command
  fails is stopped, after which only an "added" report helps; its address is read three
  times, and that all three failed is not noticed (`Hgdc.cpp:167-169`). The gateway's `init` is not repeated
  after a failure. After a call of the gateway was given up, each later call may
  return the response of the one before.

## Proofs

All leaves are checked by TLAPS; the constants are arbitrary but for the
assumptions in the modules. Each module of proofs defines an inductive invariant
`IInv` (`Interfaces_proofs` a second one, `InterfaceInv`), proves `Invariance` (`Spec => []IInv`) with a lemma per conjunct and a case
per action, and derives its theorems from it: `TypeInvariant`
(`Spec => []TypeOK`) and those named below. TLC checked each `IInv` as an invariant
of the run first. The types of `RollingCode`, `InboundCode` and `DeviceConfig` are
proved and no longer checked by runs.

`Interfaces_proofs`, on `SerialExchange`: `MutualExclusion` (`OneExchange`), `OwnAnswer`
(`OwnAnswerOnQuietLine`) and `Refinement` (`Spec => ImplementsChannel`). The
properties are not inductive. `IInv` adds `ReferenceInv`, which object each part
refers to: two callers never share one, and the listen thread has one exactly
while it delivers; and `QuietInv`: for an exchange that began on a quiet line,
every acknowledgement on the way, held by the listen thread or written into the
request is its own. `Quiet` goes on to say that a request that is ready has a
response that is whole. The refinement is proved action by action from `IInv`;
the caller's steps map to `Begin`, `Transmit`, `End` and stutters, the listen
thread's `SetReady` to `Deliver`.

`Interfaces_proofs`, on `Interfaces`: `InterfaceInvariance`
(`InterfaceSpec => []InterfaceInv`), `InterfaceTypes` (`InterfaceTypeOK`),
`InvokeAnswer` (`AnswerIsOwn`) and `OwnAddress` (`AddressIsOwn`), for any number of
sticks, of changes of their addresses and of calls. `InvokeInv` says that one call at a
time sends and waits, the one last numbered; `ResponseInv` that a response on its way,
read or stored is that of this call or is doubted, by a call that was given up or sent
twice, and that there is one of it.
`UsbAddressInv` says that one thread initialises at a time, while the interface is
not initialised or stopped, and that what it has read is the address of the stick that
is open, unless a command has set another and not read it back. That two threads never
initialise at once rests on `Outlasted`, see above.

`RollingCode_proofs`: `Ordered` (`CodesInOrder`). `IInv` adds who holds the mutex
(`MutexInv`), what the holder knows about the code at each step (`ChunkInv`), the
order of the codes on the air, in the encrypted packet, and not yet used
(`OrderInv`), and the chain of pending writes, which leads from the saved code to
the current one without a gap (`QueueInv`). With `MaxQueue <= Skip` the chain is no longer than the skip
(`SkipSuffices`), so a restart ends beyond every code used.

`RadioExchange_proofs`: `RequestTable` (`RegistryExact`) and `AskedFor`
(`AnswerMatchesRequest`). `IInv` says that the command of the serial channel is
that of the thread that sends, which has a chunk left (`ChannelInv`), that a thread
that does not call has no answer (`CallInv`), what the listen thread has while it
delivers (`ListenInv`), and that a telegram fits the filter of its call wherever
it is on its way: held by the listen thread, in the request, or returned
(`AnswerInv`).

`PeerRequests_proofs`: `Undisturbed` (`LoopUndisturbed`), `Answered`
(`SuccessIsAnswered`) and `NotResent` (the action property `AnsweredNotResent`).
`IInv` adds what a caller holds at each place (`CallerInv`), that receiver and
worker have an object from the lookup on (`LookupInv`), that who was signalled was
answered (`SignalInv`), and that an object stays under one key (`KeyInv`): what a
receiver found, it finds again under the same key or not at all. Erasing by key
after the table's mutex was released may remove an entry early; what is proved is
that it harms no command: none is taken for answered that was not.

`InboundCode_proofs`: `Verifiable` (`FreshVerifies`) and, as action properties,
`OnlyOnce` (`AcceptedOnce`), `Readable` (`ReadableInSequence`) and `Forgotten`
(`ForgottenIsRefused`). `HandlingInv` ties the code that matched to the
telegram, `ImplicitInv` and `ExplicitInv` the stored and the saved code to the last
telegram, modulo `Codes` and exactly, `OnceInv` says that without a race one
thread handles a telegram, and none while a profile tells the device a code, and
`AcceptedInv` that while a code is settled what is verified is newer than all that was
accepted or forgotten. They rest on lemmas about
congruence modulo `Codes`: a window no wider than `Codes - MaxDelay` finds only
telegrams newer than the last one, as it ends before the codes of late ones return
(`MatchIsNewer`).

`DeviceConfig_proofs`: `NoneLost` (`NoParameterLost`), `NextSignalSends`
(`QueuedIsSent`) and, about the sessions of `RemoteManagement`, `LeftOpen`
(`OpenOnlyAfterFailure`). An open device has a session that will lock it or was
left open (`OpenInv`). For the queue, `QueueInv` says that of each parameter the
last value asked for, or a newer one, is queued and saved or settled in the
device; `OlderInv` that the device gets an older value only when it will get the
newer one again, which a restart can bring about; and `SentInv` how far a transfer
is that has lost nothing: to be sent, staged, applied. `FlagInv` relates queue, flag
and message while a call is between them. `NoneStale` (the action property
`NothingStaleApplied`) follows: only the end of a session brings something into force
(`ActiveStep`), and `OlderInv` and `QueueInv` say what is queued when that is older.

`Firmware_proofs`, which covers `Meshing`: `TablesAgree` (`TableAgrees`), `Halves`
(`HalvesAgree`) and `TrueVersion` (`VersionIsTrue`). `GoodTask` and `Alone` say what a
task has at each place, and that a transfer that is the only one to a repeater
copied the table as it is. `HalvesAgree` speaks of peers that nothing is busy with;
`Halfway` extends it to a peer with one task, for each kind of task and place.
`Accounted` does the same for an update: who is on its list is in the bootloader or
has the new firmware, or left the bootloader with the old one (`left`).

`Registry_proofs`: `Agree` (`MapsAgree`), `Once` (`PairedOnce`) and `Stored`
(`InUseIsStored`). A creation owns its peer, and its serial number unless that was
chosen twice, until the peer is inserted (`OwnerInv`); until it is saved it can be found by that
number only (`Draft` in `UseInv`); a peer that a deletion took
out of the maps stays out (`DeletionInv`); who is about to create a peer while it
holds the pairing mutex knows what was inserted since it looked (`PairingInv`), from
which `PairedOnce` follows. `ModeInv` bounds the queue of teach-in addresses: each
pairing mode adds one. The proof showed that the serial numbers that were chosen twice
need not be excepted in the last clause of `MapsAgree`: what has a serial number is
registered or being created or deleted, also then. `Refinement`
(`Spec => ImplementsPeerLife`) is proved action by action: `ChooseSerial` maps to
`Build`, `SavePeer` to `Save`, `InsertPeer` to `Insert`, the first `Unlist` of a peer to
`Remove`, the first `Purge` to `Delete`, `Restart` to `LoadPeers`, and all others to
stutters. `OwnerInv` gives that a peer has one creator, and `DeletionInv` that it stays
out once a deletion took it out.

Every invariant and every action property of the runs is proved, and both
refinements. Only model-checked is liveness (`ExchangeEnds`, `ListenerResumes`,
`CallReturns`, `CommandReturns`, `EntryLeaves`, `UpdateEnds`, `DeletionsEnd`,
`Recovers`), which needs fairness and ENABLED and is beyond TLAPS. The run that ends in
a violation, `rolling_code_resend`, is TLC's as well. No module uses a RECURSIVE
operator.

## Plan

What would extend the project, the most important first:

1. RF channels in `Registry`, which are chosen from the registered peers while the
   pairing mutex may or may not be held.
2. An abstract registry with addresses and serial numbers (`PeerLife` has neither),
   that `Registry` implements while no serial number was chosen twice.
3. Spurious wake-ups in `PeerRequests`: which properties remain.
4. Several interfaces at once: the list of `Interfaces.cpp`, the default interface, and
   roaming of a peer.
5. Chunking with its sequence counter, together with what a device makes of it.

## Not modelled

- AES and CMAC: a code stands for what they make of it.
- Payload layouts and chunking (`EnOceanPacket`, `EnOceanPackets`): data to all
  properties; what the sequence counter tells a device is not in this code.
- Blinds and `setValue`: arithmetic over time and conversion of values; what they
  send goes through `sendPacket`, which is `PeerRequests`.
- RF channels, which are chosen from the registered peers; links (`addLink`,
  `removeLink`), roaming of a peer between interfaces, sniffing.
- Several interfaces at once and the choice of the default interface;
  `stopListening` of a gateway, or of all interfaces when Homegear stops.
- Features of a device (`RemanFeatures`): constants once parsed. Every device here
  supports every operation.
- `remanUpdateSecurityProfile`, as far as the rolling codes go: it sends what is stored
  and changes nothing in the peer. Several profiles at once, and those that change the
  kind of the code (explicit or implicit, its size).
- The command line but for `setaddress`, the presentation of state to RPC clients, service messages
  other than configPending, logging, packaging.
- Spurious wake-ups of condition variables, see `PeerRequests`.
- The base library (serial device, TCP, database, threads, HGDC): external, modelled
  where the code depends on what it does.
