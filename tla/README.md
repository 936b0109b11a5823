# midi_daemon: a verification project

midi_daemon turns bytes that arrive over Bluetooth RFCOMM, a serial line and a
local Unix socket into ALSA sequencer events. This directory holds TLA+ models
of it, the TLC configurations that check them, and TLAPS proofs. Paths such as
`bt_daemon.c:426` are below `src/` of the repository.

## 1. The system

One process, with four kinds of thread. They share the table `nSocketList`, the
flag `__io_canceled`, main's local `nSporeSocket` (by its address), the static
buffer `cTemp`, the string `cSndPort` and the structure `tMidiPara`. Only the last
has a lock. The repository also holds the BlueZ library (`lib/`), linked in as
source.

| Component | State | Operations | Behaviour that is hard |
|---|---|---|---|
| Accept loop (`main`, 838-874) | `nSporeSocket`, `nFreeSocketSlot`, `nSocketList` | accept, `getFreeClient`, refuse, store, `pthread_create`, `usleep`, leave on `__io_canceled` | runs against the threads with no lock; a failed accept is not noticed; SIGINT that does not end accept |
| Service threads (`BT_clientService`, 368-440) | copy of the socket, `cBuff`, `nNeedToReadByte` | start, prepare the sequencer, recv, close, `setSocketSlotFree`, release | descriptors are reused between close and the scan; recv that returns 0 |
| Note framing (151-179, 394-423) | `cBuff`, `nNeedToReadByte`, `cTemp` | recv what is missing of a frame, shift at an end symbol, drop a line that is too long | frames cut anywhere; one `cTemp` for all threads |
| IPC server (`updateMidiAttr`, 443-693) | `tMasterFdSet`, `tWorkingFdSet`, `nMaxSocketFd`, `nReadyFd` | select, accept all, recv all, close, clean up | sets must follow the descriptors; client sockets block |
| IPC commands (137-149) | `tMidiPara` | scan the table of formats, change a program, set the volume | commands joined or cut by recv; the scan runs past the table; the terminator may go past `cBuff` |
| Serial receiver (`UART_clientService`, 292-366) | `cBuff` | read a line, play it | short reads leave old bytes in the buffer |
| Note decoding (216-236) | - | four hexadecimal pairs to an event | pairs that are not hexadecimal leave bytes uninitialised |
| Sequencer session (181-214, `midi.c`) | sequencer, port list, source port | open, parse, create, connect, release | what is released after which failure |
| Start-up (695-835) | `cSndPort`, `nPortCount` | options, threads | the IPC thread may read `cSndPort` first; `nPortCount` starts uninitialised |
| HCI devices and requests (`lib/hci.c`) | raw socket, its filter | walk the devices, open, send a command, wait for its event | devices change between two ioctls; events of other commands or of none; late answers; time-outs |
| HCI names (`lib/hci.c`) | tables | bits to text and back | buffers of fixed size |
| SDP records (`lib/sdp.c`) | list of attributes, pattern | set, read, remove, write a PDU, extract, copy, register | lengths that change size at 255 bytes; which of two values stays |
| SDP sessions (`lib/sdp.c`) | socket, `tid`, transaction | connect, query and wait, query and poll, `sdp_process`, register | fragments, late answers, ids that come round |

`sig_term` sets `__io_canceled`; each loop looks at it between two blocking calls.
The daemon itself calls two address helpers of the library, for its log and the
wildcard address; the HCI and SDP parts are modelled as what any client linked
with them may rely on. `rsc/blueagent5.py` (pairing) and
`rsc/rfcomm-server-sdp.py` (a demonstration) are separate programs.

What makes each component correct:

- accept loop and threads: a taken slot has a thread that will empty it; two
  threads never work on one descriptor; at most `MAX_CLIENT_SOCKET_CNT` clients
  are served; a departed client's slot comes back; a queued client is accepted;
  SIGINT ends the process.
- framing: the notes played are those the byte stream stands for, however it is
  cut; recv is never asked for nothing; threads do not disturb each other.
- IPC server: the sets hold its open descriptors and `nMaxSocketFd` the highest;
  no stale descriptor is read; nothing is left open; nobody waits for ever.
- commands, serial receiver, decoding: who sends one whole thing at a time is
  obeyed, whatever others send; nothing is made up of two commands.
- session: what was obtained is released once, on every path, and who plays has
  all of it.
- start-up: every thread that parses `cSndPort` sees what `-p` gave.
- HCI: the answer taken is the answer to this command; a refusal is not success;
  the user's filter comes back; no descriptor is lost; a call with a time-out
  returns.
- SDP: a reader finds what the service set; buffers hold what is written; a
  successful call has the whole answer to its own request; a caller is told once.

## 2. Modules

| Module | Models | State and actions |
|---|---|---|
| `BtServer` | accept loop, slot table, service threads, descriptors, SIGINT | C names are kept; `mainPc` and `pc[t]` are the places in `main` and `BT_clientService`. The two scans of the table take one step per iteration (the test and the store of `setSocketSlotFree` are two), so every interleaving of two loops over `nSocketList` is there. `open`, `peer`, `backlog` are the kernel's side |
| `NoteStream` | what framing promises | a stream, and the notes it stands for: an end symbol, `FrameLen - 1` bytes with none before it, from a place where a piece of the line begins |
| `NoteFraming` | one client's framing | `Recv(chunk)` is recv, the shift and the playing; `CrossTwoFrames` is `handleReceivedDataCrossTwoFrame`. It implements `NoteStream` |
| `SharedFrame` | framing in several threads | a shift is cut into clear (163), save (164) and restore (165-166) on the shared `cTemp`. Instances of `NoteFraming` say what each thread should do |
| `IpcServer` | the IPC server's loop | one action per call of the loop; a blocking call is a disabled action |
| `SeqSession` | start-up and the session of every thread | one action per call of the preparation, of main's options and of each exit; in `nParsePorts` one for each copy, `realloc` and address, so a list that grows and then cannot is held and lost as in the code. `misused` collects what is released again or used after its release; `fresh` says whether a thread's variables still hold what was on its stack |
| `UartReceiver` | the serial thread's loop and `generateEventContent` | the terminal's queue of lines, `cBuff`, the event; a read is at most the rest of one line, or what stands before an end of file character (VEOF, line 278) in it |
| `IpcCommands` | `executeCmdFromUnixSocket` and the two commands | pieces of commands on each socket; what a recv returns is scanned with every format |
| `MidiInputs` | `UartReceiver` and `IpcCommands` in one process | shares `__io_canceled`, and a crash ends both |
| `HciCommands` | the functions of `hci.c` that make a request | one record per function: group, command, event, lengths, what it looks at in the answer |
| `HciRequest` | `hci_send_req` | one action per call and attempt; the filter, the controller, which answers commands and reports events nobody asked for, other processes |
| `HciDevices` | `hci_get_route`, `hci_for_each_dev`, opening and closing | the walks take the kernel's list in any order, one step per device, and devices change in between; each call that may fail, on the way in and out, fails by itself |
| `HciClient` | a client: find, open, send, close | composition of the two |
| `HciNames` | tables of names, `hci_bit2str` and its like, and the ways back | operators only; text is a sequence of names and separators, a space where names are printed and a comma where they are read |
| `SdpData` | data elements, their bytes, their extraction | operators, some recursive |
| `SdpAttributes` | a record's attributes, setters, readers, PDU, copy | operators, some recursive |
| `SdpRecord` | a service that edits, registers, copies a record | one action per call; `wanted` is what should be read, `unheeded` the lists the code is known not to have replaced |
| `SdpSession` | a client's session | `SendRequest`, `SelectFails`, `Receive`, `NoResponse` and `RecvInterrupted` are the loop of a call, `sdp_process` a transaction's; `up` and `down` are the requests and responses on their way |
| `BtServerProofs`, `NoteFramingProofs`, `SharedFrameProofs`, `IpcServerProofs`, `SeqSessionProofs`, `HciClientProofs`, `SdpSessionProofs`, `MidiInputsProofs` | - | the theorems |
| `MC*` | - | what TLC needs besides: symmetry, constants that are sets of records. `MCLibraryData` also puts the names and the records in one run |

Abstractions. A client, a descriptor of the Bluetooth side and a byte of a note
are model values. `accept` returns any free descriptor rather than the lowest,
which covers what the rest of the process opens and closes. In `BtServer` the
sequencer calls of a thread are one step that succeeds or fails; `SeqSession` has
them one by one. In `SharedFrame` one memcpy of at most eight bytes is one step.
The serial and IPC threads do nothing to the state of `BtServer`. In `IpcServer`
`unread` counts what was sent and not received; `IpcCommands` says what it is.
The end of the whole process, which can come at any moment, is simply that
nothing more happens, but in `MidiInputs`, where an access out of bounds may cause
it.

A byte that nothing has stored, and a variable that nothing has set
(`nPortCount`, `tSeqInfo` of a Bluetooth thread), may have any value. In
`HciRequest` commands carry an id that the code does not have: it tells the answer
to a command from another's, and no guard of the code looks at it. In
`SdpSession` the bytes of a request and of an answer are whose they are and which
fragment; ids are counted modulo `Tids`, as a 16-bit number is modulo 2^16. A
response is written whole and read whole, which holds of the datagrams of a
remote session and is assumed of the stream of a local one; there a recv may take
several responses at once. `MayProcess` is the contract `sdp_process` has with the
event loop (comment at `sdp.c:4136-4149`): it is called when there is something to
read, and not once it has returned -1. The code does not check this, and would
call the callback again. In `HciRequest` the setsockopt that puts the user's
filter back is taken to succeed: the code does not look at its result.

Mutants (`X_Something`, next to `X`) are the definition `X` as a plausible bug
would have it; each is replaced for `X` to see that the property it is listed for
notices.

## 3. Runs

`cd` here and `tlc -config <cfg> <module>`. `CHECK_DEADLOCK FALSE` is set
everywhere because the process exits, the IPC thread ends, a client may make no
further call, and peers may stop sending.

| Run | Configuration | Shows |
|---|---|---|
| `bt_slots` | `MCBtServer_slots` | slots are never lost (`SlotHasServer`) and no descriptor is shared (`OwnDescriptor`), if a thread starts within main's sleep |
| `bt_live` | `MCBtServer_live` | departed clients' slots come back, queued clients are accepted, cancellation ends the process once accept returns, when a departure makes recv fail |
| `bt_limit` | `MCBtServer_limit` | **violated**: more clients served than slots |
| `note_framing` | `MCNoteFraming` | `NoteFraming` implements `NoteStream`; recv requests fit |
| `shared_threads` | `MCSharedFrame_threads` | two threads whose shifts through `cTemp` interleave: lengths fit, and each implements `NoteFraming` but for shifts whose saved bytes the other writes over |
| `shared_mixed` | `MCSharedFrame_mixed` | **violated**: two threads lose each other's bytes |
| `ipc_server` | `MCIpcServer_ipc` | the descriptor sets are exact, nothing is left open, and everybody is served and the thread ends, unless a client stays for ever while it is served |
| `seq_session` | `MCSeqSession` | what a thread obtained it gives back, once but on the paths named below and all but the one list that a failing `realloc` loses; who plays has a complete session, on the ports of the last `-p` |
| `midi_inputs` | `MCMidiInputs` | a line of one frame plays its note and a program that waits its turn is obeyed, whatever the others send |
| `hci_client` | `MCHciClient` | the route in any order of the list, its descriptor, the filter, and whose answer a command takes, with late, refused, foreign and missing answers and events nobody asked for |
| `library_data` | `MCLibraryData` | what is set in a record is what its clients read; names of bits fit their buffers, and are read back when commas separate them |
| `sdp_session` | `MCSdpSession_calls` | whole answers to the right request, callers told once, records that agree with the server's, calls that return unless a recv after a failed select blocks |

The two violated runs check something a comment or a constant of the source says;
PROJECT.json quotes it under "findings".

Seven further configurations are kept beside them. The first four show what
happens without an assumption, the next two that what comments say is not so, and
the last is a larger instance.

| Configuration | Shows |
|---|---|
| `MCBtServer_handover` | violated: without the timing assumption a slot is lost |
| `MCBtServer_eof` | violated: recv returning 0 leaves slot and thread for ever |
| `MCBtServer_stop` | violated: SIGINT does not end the server |
| `MCIpcServer_starved` | violated: a silent client delays the others for ever |
| `MCSdpSession_count` | violated: a count that needs more than a byte loses its carry (`sdp.c:4239`) |
| `MCLibraryData_replace` | violated: a list of protocols, languages or profiles set a second time does not replace the first, and NULL does not remove it (comments at `sdp.c:2382`, `2429`, `2539`) |
| `MCIpcServer_sets` | passes: the sets, with three clients |

Known irregularities of the code that are named in the properties rather than
hidden by the model:

- `CleanRelease`: `prepareSeqInforForThread` closes the sequencer after a failure of
  `nInitSeq`, and `nParsePorts` frees the list when a port is invalid; both leave
  the variable, and the caller releases again. A Bluetooth thread that fails
  early releases a `tSeqInfo` nothing was stored in. Everything else is released
  once.
- `NothingLeaks`: `realloc` failing for a port after the first stores NULL over the
  list there is (`midi.c:76-80`), which is lost. A thread that has met this has
  lost exactly one list, and any other none.
- `OnlyImpoliteStray`: the scan for a format does not stop at the table's end, and
  a recv that fills `cBuff` is terminated one byte past it. Only a program that
  sends something else than one whole command at a time gets there.
- `OwnAnswer`, `RefusalIsReported`: an event does not say which process's command
  it answers, the answer to a command that was given up may come later, and the
  controller reports events of its own accord: the end of a connection that was
  lost is taken for the answer to `hci_disconnect`, and hides a refusal that comes
  after it (`hci.c:1243-1249`). Until one of the three has happened the answer is
  one's own.
- `AnswerOfAskedKind`: an LE subevent is compared with the code of an event and the
  other way round (`hci.c:1235`, `1244`). The commands whose code has a namesake
  of the other kind in `hci.h` are left out (`Ambiguous`).
- `NamesFitAndRead`: `hci_bit2str` separates names by spaces and `hci_str2bit`
  expects commas (`hci.c:68`, `85`): what is printed cannot be read back. The names
  themselves are read as the bits they stand for. Some sets of bits do not fit the
  buffers of `hci_dflagstostr` and `hci_lmtostr`.
- `ClientsReadWhatWasSet`: a list of protocols, languages or profiles that is set
  while there is one is not replaced (`sdp_attr_add` refuses a second, and the
  setters ignore that), and NULL does not remove it, although the comments at
  `sdp.c:2385`, `2432` and `2542` say so. The property leaves those lists out;
  `MCLibraryData_replace` shows the disagreement.
- `ServedUnlessClientStays`, `EndsUnlessClientStays`: client sockets block, contrary
  to the comment at `bt_daemon.c:505-509`. A client that stays, silent or sending
  for ever, while it is served holds up the others and the end of the thread.
- `CallsReturn`: only select's 0 is looked at (`sdp.c:1707`): when it fails, the recv
  that follows has no time-out, and a silent server then blocks the call
  (`ReadBlocks`). The loops on the continuation state have no bound of their own:
  `MaxFragments` is one on the server's answers.
- `SdpSession`: after a call has timed out, the session stays one answer behind:
  each later call fails, and none takes another's answer for its own. An
  asynchronous transaction has no time-out.

Bounds, and why they are enough:

- `BtServer`: two slots, three clients, three descriptors, two threads at a time.
  A full table, a refused third client, a descriptor reused while the scan of its
  former owner is under way, and a failed accept all occur. Clients come back
  without end, so no history is cut short. Fewer descriptors than clients make
  accept run out of them. Threads, clients and descriptors are symmetric where the
  run has no liveness property; the liveness run has one slot, two clients.
- `NoteFraming`: frames of three bytes, two letters, nine bytes: three whole
  frames, or any mixture of early ends and lines that are too long across three
  buffers. The proof has no bound.
- `SharedFrame`: four bytes for each of two threads: enough for a shift with
  something to keep in each, at the same time.
- `IpcServer`: two clients (three in `MCIpcServer_sets`) on four descriptors with a
  gap between them, the listening one anywhere among them, a queue of two;
  descriptors are reused above and below the listening one.
- `SeqSession`: main, the IPC and the serial thread and one Bluetooth thread (they
  share only `cSndPort`, which is not written any more when these are made); two
  valid lists of ports and an invalid one, and command lines with none, one or
  two `-p` and with the options that print and leave.
- `MidiInputs`: frames of two bytes, three lines or commands in all, one read that
  returns nothing, one end of file character, one polite and one other program, a buffer of four pieces: two
  whole commands fill it. A short line after a long one, a line cut by the frame
  length, a command cut and one joined to the next all occur.
- `HciClient`: three adapters, two of them with the address asked for; two calls,
  two attempts for the ten of the code, with and without a time-out, one change of
  the devices, and one command of another process or one event nobody asked for:
  the end of a connection, for which `hci_disconnect` waits, or the request for
  one, whose code is an LE subevent's. The first call may give up, and its answer
  then come into the second. `EventCodes` and `LeSubevents` are all those of `hci.h`.
- `MCLibraryData`: two calls on one record, with a long name that takes the record
  past 255 bytes, UUIDs of 16, 32 and 128 bits. The values to name are every set
  of the low bits the short tables are about, and runs of whole bytes.
- `SdpSession`: three calls with four ids, answers of one or two fragments, two
  sessions: an id comes round to the one after a call that gave up.

## 4. Fairness

`BtServer!FairSpec` has weak fairness of main's steps that do not block and of
each thread's, as the scheduler gives: no thread waits for another. `usleep` ends.
accept has strong fairness while a client is queued and a descriptor is free: it
may fail now and then but not for ever. Nothing makes a client connect, send or
leave, and nothing makes accept or recv return without them, so a blocked call
may block for ever. `IpcServer!FairSpec` has weak fairness of the thread and
nothing of the clients, of whom none need ever send or hang up. So the two
properties of progress have a client that stays as their other outcome, and
`MCIpcServer_starved` shows that there is no doing without it.

`HciClient` has weak fairness of the thread inside `hci_send_req`, and nothing of
the controller, which may never answer: poll returns after its time-out by itself.
`PolledCallsReturn` is therefore about calls whose `to` lasts for a poll before every
attempt. `SdpSession` likewise has weak fairness of the client's steps, the
time-out of select among them, and nothing of the server, nor of a signal that
would end a recv that blocks (`RecvInterrupted`).

`StartsWithinSleep` is a timing assumption: a new thread has copied
`*pSporeSocket` before main's `usleep(100000)` is over. The code relies on it and
nothing enforces it; `MCBtServer_handover` drops it.

## 5. Proofs

`tlapm <module>`. The proofs hold for every value of the constants that satisfies
the module's named assumption.

- `BtServerProofs!TypeCorrect`: `TypeOK` is inductive.
- `BtServerProofs!SlotsAccountedFor`: `SlotHasServer` under `StartsWithinSleep`. It is
  not inductive: a slot is safe because a thread serves the same descriptor, or
  main is about to make one, and the thread that is starting is the only one and
  reads what main stored. `SlotInv` says so: at most one thread is starting, and
  only while main sleeps; what main stored is in `nSporeSocket`; a thread still
  scanning keeps its descriptor until it has passed the slot.
- `BtServerProofs!DescriptorsOwned`: `OwnDescriptor` under the same assumption.
  `DescriptorInv` adds that a thread which has yet to close its socket holds an
  open descriptor, so that accept returns another.
- `BtServerProofs!LimitHoldsUndisturbed`: what `bt_limit` shows violated holds, under
  `StartsWithinSleep`, unless one of two things happens (`FreesUndisturbed`): accept
  returns a closed descriptor whose slot its thread has not emptied yet, or two
  threads whose accept failed look for `BadFd` in the table at the same time, and
  the second empties a slot that main has filled again. `SlotsKept`: who is served
  has a slot, main fills an empty one, a thread empties the slot it has found its
  socket in. The clients served are then mapped one to one into the slots. TLC
  finds the limit broken when either condition is dropped, so these two races, and
  not signals, refused clients or failing calls, are what is behind the violation.
- `NoteFramingProofs!FramingRefinesStream`: `Spec => PlaysTheStream`. `FramingInv`:
  `cBuff` is the end of the stream, from a place where a piece begins, and the
  notes played are the stream's. A frame that ends within the next piece fills it
  (`FrameFillsPiece`): two places in a line where pieces begin are a multiple of
  the frame length apart. `CrossTwoFramesKeepsThePiece` has one case for each
  branch of the C function. `RecvAlwaysFits` and `FramingTypeCorrect` follow from
  the same invariant.
- `IpcServerProofs`: `LoopInv` is the conjunction of the run's invariants and of
  `ServesClient`: the descriptor being served is a client's, and the listening socket
  stays in the set, which is why the loop that lowers `nMaxSocketFd` stops. One
  lemma per action; `IpcTypeCorrect`, `MasterSetIsExact`, `MaxSocketFdIsHighest`,
  `NoStaleDescriptorRead` and `EndsWithNothingOpen` follow.
- `SharedFrameProofs!SharedBuffersFit`: `BuffersFit` for any number of threads on the
  one `cTemp`. `LengthInv` adds that a thread which is shifting has an end symbol in
  its buffer (`RestFits`: so what follows is shorter than a frame), and that `cTemp`
  always has the length of a frame. What the cells hold is not needed, which is why
  mixed shifts damage notes and not bounds.
- `SharedFrameProofs!ThreadsFrameTheirStreams`: `EachFramesItsStream` for any number
  of threads, step by step: the end of a shift is the `Recv` of the thread's
  instance of `NoteFraming`, every other step a stutter of it, unless the thread is
  in `disturbed`, which records whose saved bytes another thread has written over
  between their two copies. `CleanInv` says that what any other shift finds in
  `cTemp` is what it has saved there. With `FramingRefinesStream` each thread plays
  the frames of its stream until it is disturbed. `AloneFramesItsStream`: one thread
  never is. `UndisturbedShiftsKeepRest` says that this is the only way to the
  violation of `shared_mixed`.
- `SeqSessionProofs`: the inductive invariant has, for every thread, what it
  `Holds` at each place (sequencer, list and source port as far as the
  preparation has come, and which calls have failed), and for main (`MainInv`) what
  `cSndPort` holds while options are read. `ReleasesAreClean` and
  `ThreadsLeakNothing` follow from what is held at the exits (of lists, one lost by
  each `realloc` that failed after the first port, and no other), `PlayersAreReady` from
  what is held at the last place, `LateThreadsFollowOption` from `cSndPort` being
  main's list once options are read. `SessionTypeCorrect` is part of it. Assumed:
  main, the IPC and the serial thread and the Bluetooth threads are different
  threads.
- `HciClientProofs`: `SocketInv` counts the descriptors at each place of the walks
  (`SocketsAccountedFor`); `FilterInv` says where the user's filter is kept while the
  request's is set (`FilterIsRestored`); `PacketInv` that every packet on its way is
  genuine, an event of a command somebody sent or one of `hci.h` that nobody asked
  for; `QuietInv` that, until a call gave up or another process sent a command, the
  packets are of the current command or unasked, and an answer that is not the
  command's own has the code of one reported unasked (`AnswersAreOwn`).
  `AnswersAreOfTheirKind` and `RefusalsAreReported` follow from these and a look at
  what the switch on the event takes. `AnswersAreOfTheirKind` has no condition on
  the controller or on others.
- `HciClientProofs!RouteIsTheFirst`: `RouteInv` says how far the list of the walk has
  been looked at (`ScannedUpTo`), that no device before that place which has stood
  still suits, and the same of all of the first list during the second walk
  (`PassedOver`). The order of the list is arbitrary. `AdapterAssumption` has a
  finite set of devices, each of which is in a list once.
- `HciClientProofs!PolledReadsFindPacket`: if every `to` lasts for a poll before every
  attempt (`EnoughTime`; `to` is an argument of the library's functions), no read
  can block. `TimeInv`: what is left of the time is more than the attempts left
  after this one will take. This is the safety half of `PolledCallsReturn`;
  that the steps are taken at all is fairness and stays with TLC. The types are
  `ClientTypeCorrect`.
- `MidiInputsProofs`, about both parts of `MidiInputs`. For the command loop `IpcInv`
  has, for every program, that a polite one's commands are executed up to the one
  on its way and no other piece of its is in the queue (`Obeyed`), and that there
  is an increasing place in what it sent for each command executed and each whole
  command still to be read (`InOrder`), whence `PoliteAreObeyed` and
  `NothingIsInvented`; a buffer that holds one polite program's command cannot lead
  the scan out of the table (`PoliteNeverStray`). For the serial thread `UartInv` has the
  types and `RestOfLong`: of a line whose end is still to come at least a frame's
  length has been read, so a line of exactly one frame is never read in two
  parts, and its bytes fill `cBuff` from the start whatever it held before
  (`FramesArePlayed`). The two share only the end of the process.
- `SdpSessionProofs`: the heart is that an id of `Tids` comes round while old
  answers are under way. The server answers in order, so what is on its way
  (`up` and `down`) belongs to the calls in their order (`PipeInv`); how far an answer's id is behind
  the current one, its lag, is at most the number of requests since, so with fewer
  calls than ids (`SessAssumption`) only the answer to this request has its id, and
  it is the last in the pipe. `AnswerInv` adds that what has been received so far is
  the beginning of the answer to this call. `AnswersAreWhole`, `CallersAreToldOnce`
  and, with `RecordInv`, `RecordsAgree` follow. One lemma per conjunct, one step
  per action.

Progress, in steps. A liveness property needs fairness and ENABLED, which the
prover has not. What the code contributes to it is that nothing it does can go on
for ever, and that is a safety property: a number of steps left, which every own
step of the actor lowers and no other step raises. For each of these the theorem
states the bound and the action property:

| Theorem | Steps left | Behind the property |
|---|---|---|
| `BtServerProofs!MainReturnsToAccept` | `SlotCount + 6` until main is in accept again or has ended; once canceled it is not in accept again | `PendingHandled`, `StopsOnceAcceptReturns` |
| `BtServerProofs!ThreadsLeave` | `2 * SlotCount + 3` for a thread whose recv has failed | `DepartedReclaimed` |
| `IpcServerProofs!RoundsComeToAnEnd` | finite, for what one select found ready; a recv that returns data lowers what its client has not been read of instead; once canceled the thread does not select again | `EndsUnlessClientStays` |
| `HciClientProofs!CallsComeToAnEnd` | `2 * TRIES + 3` for a call of `hci_send_req` | `PolledCallsReturn` |
| `SdpSessionProofs!CallsComeToAnEnd` | `3 * MaxFragments` for a call or transaction; a recv after a failed select may be one that does not come | `CallsReturn` |

The numbers come from the loops: what is left of a scan, of the ready descriptors
(an accept that returns takes a descriptor, a visit at most one step for each),
of the retries, of the fragments (the continuation state of each answer is further
on than the one before). They hold whatever the other actors do, so what TLC's
runs add is only that the actor is scheduled and that accept, select and recv
return when they may. The IPC thread alone has no bound on its round: a client
that sends on keeps it there, and one that stays silent blocks it in recv
(`MCIpcServer_starved`), which is why `ServedUnlessClientStays` has that other outcome.

- `SdpSessionProofs!EndedCallsStand`: what a call or a transaction ended with stays,
  whatever arrives for it later (`ResultsStand`). It rests on `CallInv`: only
  the result of the current call is still pending.
- `HciClientProofs!NamesOfBitsAreRead`: `NamesRead` for every value, not only those
  of the instance: a list of the names of its bits with commas between them is
  read as these bits, and what `hci_bit2str` prints, with a space after each, as
  none. `ChosenArePicked` is about any table: the loop takes the entries with a bit
  of the value and no other. That the recursive function in `Chosen` is defined at
  all, and what it is, is proved from a least counterexample, since the library's
  induction cannot be used here. `IsTable` (no two entries with one name, no entry
  with two bits) is proved of the four tables the code reads.

Only model-checked:

- liveness itself, for the reason above;
- of `NamesFitAndRead` what is about the lengths of strings (`ShortNamesFit`,
  `BrokenTextFits`), of which the prover knows nothing;
- the other properties of `library_data`: `SdpData` and `SdpAttributes` are
  `RECURSIVE` over nested data, which neither the prover's induction nor its SMT
  backend can take (no proof module uses them).

The two properties TLC finds violated
are theorems only under the conditions named above. A theorem about `SharedFrame` that
cites `FramingRefinesStream` for each thread's instance is not stated: the prover
hides what a parametrised INSTANCE of a module with proofs brings in, so the last
step, from `EachFramesItsStream` to the notes, is made by the reader.

## 6. Plan

Done: all the modules above. What a continuation could take, in this order:

1. `MidiDaemon`: `BtServer` and `IpcServer` over one descriptor table and one
   `__io_canceled`, with the exit of the process and shutdown from `kill` at line
   589; its invariants from those of its parts.
2. `hci_inquiry`, `hci_devinfo` and `hci_devid`: the ioctls around the walks.
3. Updating a record through a session (`sdp_device_record_update`), and two
   clients of one session.

## 7. Not modelled

The table in PROJECT.json lists every component. Left out:

- `hci_devid`, `hci_devinfo`, `hci_devba`, `hci_inquiry` and the ioctls around them:
  single calls that keep nothing.
- of `sdp.c`: printing, freeing, the table of UUID names, and the byte layout of
  requests and responses; updating through a session; the number
  `sdp_get_error` returns.
- `bluetooth.c` (addresses, company names) and `uuid.c`: conversions without
  state; `mgmt.h` and the other headers: numbers and structures.
- `listPorts`, `listVersion`, the usage text and log messages, which change no
  state.
- `rsc/blueagent5.py` and `rsc/rfcomm-server-sdp.py`, which share nothing with the
  daemon.
