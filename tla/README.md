# A verification development for hvs_scheme

`hvs_scheme` is the skeleton of a video conference server: it receives packets
from every client over UDP, decodes them, mixes the clients' pictures, encodes
the result and sends it. This directory holds TLA+ models of it, TLC
configurations that check them on small instances, and TLAPS proofs of what
holds for every instance.

## 1. The system

### Components, state, operations

| component | source | state | operations |
|---|---|---|---|
| node queues | `libavscheme/manage_queue.c` | header, tail, length, mutex of a linked list; four families over four node types | create, insert, remove, check limit; `..._wraper` allocates a node and inserts it |
| receiver, one per client | `libavscheme/recv_av_packet.c` | UDP socket, the node in hand | dead loop: read, check limit, drop oldest, insert |
| decoder, one per client | `libavscheme/video_decoder.c` | the packet in hand | dead loop: take a packet, let the library queue its frames, free |
| mixers, client_num - 1 | `libavscheme/video_mixer.c` | `frms`, `av_frm_nodes`, `empty_flag` | dead loop: take at most one frame from every decoded queue, mix what was there |
| encoder, one | `libavscheme/video_encoder.c` | the frame in hand | dead loop: take a mixed frame, queue a packet, free |
| sender, one | `libavscheme/send_av_packet.c` | the packet in hand | dead loop: take a packet, send, free |
| video library stand-in | `libvcc/pseduo_vcc.c` | none | decode (five frames a packet), mix, encode; each inserts through a callback and frees its input |
| system state and monitor | `libavscheme/system_monitor.c`, `worker_manager.c` | numbers of queues and threads; a copy of every queue length and worker state | probes write the copies without a lock; the monitor thread answers a UDP request with all of them |
| conference start and stop | `libavscheme/hvs_init.c` (`Create_hybrid_video_process`) | pointers to everything | create state, queues, threads; sleep 13600 s; free the system state |
| connection daemon | `libavscheme/hvs_init.c` (`Create_hybrid_video_process_x`) | listening and connection sockets, child processes | accept, fork twice, read an instruction, run one conference per connection; written to be called by `main`, which in this commit calls the variant without accept |
| sockets | `libnetwork/network_socket.c` | a socket | open and bind, retried every five seconds |
| shared memory | `libshmsem/shmsem.c` | System V segments and semaphores | create, attach, acquire, release, destroy; not linked |
| error log | `liblogerrors/log_errors.c` | a file | append a line; when the file cannot be opened, `fclose(NULL)` ends the process |
| program entry | `hvs_main.c` | none | start the log, the TCP socket, the conference |

### How they interact

The queues are the only channel between the workers:

    socket -> receiver c -> recvQ[c] -> decoder c -> decQ[c] -> mixers -> mixQ -> encoder -> encQ -> sender

All workers are POSIX threads of one process; each queue has its own mutex, and
an empty queue makes the reader sleep 10 us and try again, so nothing blocks but
`recvfrom` and the mutexes. A payload belongs to the node that carries it, and
whoever takes the node frees both; who exactly frees the payload differs from
stage to stage. The monitor reads memory that all workers write without a lock.

### What is hard about it

* Two threads on one linked list at the granularity of assignments.
* A receiver makes three locked calls (check, remove, insert) and gives the lock
  back between them, so what the check found may be stale.
* Several mixers go through the same n queues, one lock at a time. A round can
  find some queues empty and others not; a round is given up only when all were.
* Ownership of payloads across stages, with two parties freeing one array.
* Only the receiving queues are bounded.
* Start-up that goes on after a failed step; a shutdown that frees the monitor's
  memory under running threads.
* The daemon's two forks copy every descriptor into processes that live for hours;
  forks and accepts may fail, and the daemon may be killed and started again.

`PROJECT.json` lists these hazards at their lines, with the properties that
cover them or the reason none does.

### What makes each component correct

* Queue: it is a list at all times; every node has one owner; insert, remove and
  check are atomic as far as callers can tell; nobody keeps the mutex.
* Receiver: the queue stays within its limit, the oldest packet goes first, the
  assertion after the removal holds (it does not).
* Decoder, mixers, encoder, sender: every frame decoded goes through exactly
  once, in order; no payload leaks or is freed twice; whatever arrives is in the
  end dropped from a full queue or sent.
* Monitor: pointers into its memory are in range; once the workers are quiet, its
  copies agree with the queues.
* Start and stop: no thread uses what is not there yet or no longer.
* Daemon: no process keeps a descriptor it has no use for; a silent client holds up
  nobody but its own process; a restarted server gets its port.

## 2. The modules

| module | what it is |
|---|---|
| `Fifo` | abstract specification of one queue: each operation takes effect at one instant between call and return |
| `AvQueue` | one queue as the code has it: mutex, header, tail, length, next fields, one step per assignment others could see; `Threads`, `Nodes` and `Limit` are parameters |
| `AvQueueProofs` | inductive invariant of `AvQueue`, its safety theorems, refinement of `Fifo` |
| `MCAvQueue` | three threads and two nodes, for TLC |
| `Pipeline` | receivers, decoders, mixers, encoder and sender with the four kinds of queues; one queue operation per step |
| `Relay` | abstract specification of all workers together: a decoded frame waits until one picture takes it to the network, with one mixer before any later one |
| `PipelineProofs` | types, bound and content of the receiving queues; how much a receiver drops |
| `FrameProofs` | the inductive invariant about frames: one place each, somebody in every picture, order with one mixer |
| `RelayProofs` | refinement of `Relay` |
| `HeapProofs` | no payload leaks, none is freed twice or too early |
| `MCPipeline` | how many packets each client sends, for TLC |
| `Conference` | a conference process from start to exit: threads created group by group, parameter blocks, the system state and the unlocked copying of queue lengths into it, its release |
| `ConferenceProofs` | layout of ids, ports and the monitor packet; the inductive invariant of `Conference`; a length shown right stays right |
| `MCConference` | which threads are scheduled, for TLC |
| `Daemon` | the accept loop, its children and grandchildren, their descriptors; failing calls, kill and restart |
| `Reception` | abstract specification of the daemon: what each connection goes through, and what one failure may cost |
| `DaemonProofs` | inductive invariant of `Daemon`, its safety theorems, refinement of `Reception` |
| `AccessRight` | abstract specification of the semaphore functions: one holder at a time, given back by release or by the holder's end |
| `ShmSem` | `libshmsem`: System V objects found by keys, creation, lookup, acquire, release, removal, the end of processes |
| `ShmSemProofs` | types and the balance of the undo values under any use, waiting without signals; inductive invariant and refinement of `AccessRight` under careful use |
| `MCShmSem` | which `sh_id` each process uses, for TLC |

### AvQueue and the code

`InsertLock .. InsertUnlock`, `RemoveLock .. RemoveUnlock` and `CheckLock ..
CheckUnlock` are the three functions of the receiving family, whose text the other
families repeat over other node types. `pc` is the place in the function, `node` and
`got` the callers' two pointers. The two branches of Insert assign the same three
things (link, tail, length) and share their steps. `MallocNode` and `FreeNode`
are what workers do between calls; memory handed out is never handed out again
before it is freed, and a freed address can come back, so a dangling pointer
would be noticed. `Call` lets any thread call any of the functions at any time,
which is more than the workers do, under the one condition they keep: insert what
was just allocated, remove into a cleared pointer. `contents` is a history
variable and the refinement mapping's `items`.

Plain loads and stores are interleaved in program order. This is enough because
every access is inside the mutex, which is what `MutexHeld` says; the unlocked
reads of `length` by the monitor probes are not part of this module, but
`ListShape` says what they can see: the true length or one less.

### Pipeline and the code

One action per queue operation of each loop: `Receive`, `CheckLimit`, `Evict`,
`InsertPacket`; `TakePacket`, `DecodeFrame`, `FinishPacket`; `FetchFrame`,
`SkipRound`, `MixFrames`, `ReleaseFrames`; `TakeMixed`, `EncodeFrame`;
`SendPacket`. That a queue operation may be one step is what
`AvQueueProofs!Linearizable` establishes. What a thread does on its own between two
queue operations (filling a node, freeing) is part of the neighbouring step, as
no other thread can see it. `libvcc` is folded into its callers. The helpers
(`InsertDecoded`, `RemoveMixed`, ...) are named after the queue families.

A payload is a number: packets of a client count from one as they arrive, frames
count on through the packets. The numbers identify payloads for the properties
(the code's own `id` field is never read, and its `pkt_id` counter is incremented
inside a debugging macro only). `heap` records malloc and free of payloads;
nodes travel with their payloads and their ownership is `AvQueue`'s subject.
`Evict` on an empty queue sets `aborted`. In the debug build the assertion at
`recv_av_packet.c:186` stops the process; in the release build it is compiled out
(`log_errors.h:35` defines NDEBUG, after which `network_socket.h` includes `assert.h`
again) and the next line uses the null pointer. Either way the process is gone.
(`manage_queue.c` includes `assert.h` only before that and keeps its assertions in both
builds.) A poll that finds an empty
queue changes nothing and is a stuttering step, except in a mixer, where it
counts.

`Relay` says what the workers promise together: `Decode` puts a frame newer than all
before it among the waiting ones, `Send` takes at most one waiting frame of every client,
and at least one in all, to the network; `InOrder`, which `Pipeline` sets when it has one
mixer, says that it is the client's oldest. `Relayed` is the mapping: a frame of
`Pipeline` waits while a decoded queue, a mixer, a mixed or encoded queue or the
encoder has it (`Waiting`), and `sent` is the pictures. Mixing and encoding are
stuttering steps.

The monitor probes, thread creation, and everything before the loops are in
`Conference`: `Init` is the state a start-up without failures leaves.

### Conference and the code

The main thread is `stage` and `turn`: it creates the monitor, then five groups of
threads, each in a loop (`CreateThread`) that a failing pthread_create ends
(`CreateFails`); whatever a group returns, main logs it and goes on. It sleeps, frees
the system state (`Destory`, the code's spelling; its three calls of free are one
step) and returns, which ends all threads (`Exit`). A thread copies and frees its
parameter block and looks up its entries (`Start`), opens its socket if it has one
(`Bind`, `SocketFails`) and then goes round: for each of its queues it reads the
length (`ReadLength`) and writes it into the system state (`ShowLength`), two steps
without a lock, then works. What the work does to the queues is `Pipeline`'s
subject; here a worker removes from its inputs and inserts into its outputs in any
number and order, which includes what it does there.

`WorkerId` and `QueueId` are the sums that seven functions compute on their own, `Port`
and `PacketSize` the constants that depend on the number of clients.
Use of freed memory is recorded (`badAccess`); what it leads to is either nothing
visible or the end of the process, which may come at any time then anyway. The
worker states (`Set_worker_state`) are written next to the lengths, each by one
thread, and read by nobody but the monitor's client: that a state is in its own
thread's entry is `OneWriter`, its value is left out. A failing malloc ends
the process, by assertion or, where the release build has none, by the use of a null
pointer, and is left out too.

### Daemon and the code

The code calls its processes obama (accepts), alice (his child, who forks and exits)
and jose (her child, who serves the connection), and so does the module. `obama` is
the place in `main`, `Start_tcp_network_service` and the loop: `OpenSocket`,
`Bind`, `Accept`, `ForkAlice`, `ObamaCloses`, `Waitpid`; alice goes through
`AliceCloses`, `ForkJose`, `AliceExits`, jose through `Receive`, `Echo`,
`JoseCloses` and, unless the instruction was "x", the conference, which is one state
here and the subject of `Conference` and `Pipeline`. `listening` and `open` are the
processes that have a descriptor; a fork adds the child, a close or an end removes
the process, the last close of the listening socket resets the connections in its
backlog.

Failures are the code's own: a socket that cannot be opened and a first fork that
fails end obama; a second fork that fails ends alice where she returns into `main`;
a failing bind or accept is logged and tried again, and when the log cannot be
opened `Log_error` ends the process (`LogError`). `ObamaKilled` may come at any
moment, `Restart` at any time after an end; alice and jose of an earlier obama go on
meanwhile and still have what they had open. A client connects, and says an
instruction, "x" or nothing but the end of the connection, whenever it likes or never.

`Reception` is this without processes and descriptors. `Stage` maps a connection to how
far it has come: waiting in the backlog or refused with it, accepted (obama or alice has
it), lost with one of these, served (jose has it), in its conference, or over. Closing a
descriptor, exiting, waiting for a child, failing before a connection is there and
starting again are stuttering steps; a failure that obama, alice or the kernel turns into
the loss of connections is `Break`, which takes at most one that was accepted and all or
none of those that wait. Nothing but the connection's own client and its own conference
touches one that is served.

### ShmSem and the code

The library has no caller in the repository, so a process is anything that uses it in
the order its functions imply: create (or not), map, look up, then acquire and
release, unmap, and perhaps remove, ending at any moment. One system call is one
step: a creation is `GetSegment`, `ClearSegment` (newer family), `GetSemaphore`,
`SetInitialValue`, with `CreateFails` for a call that fails between. Keys are
computed as the code does, `% 256` being what ftok keeps of its argument;
`Ext` chooses between the two families. The kernel's side is modelled from what the
flags ask of it: SEM_UNDO keeps per process what its end gives back (`semadj`),
SETVAL forgets those values, an end never takes a semaphore below zero, a
new semaphore is zero, a removed one makes waiting operations fail. The address
that `InitialShmSem` obtains and drops is overwritten by the later mapping.
A caller that creates semaphore before segment in the newer family is not
modelled.

## 3. The runs

| run | instance | question and answer |
|---|---|---|
| `queue` | 3 threads, 2 nodes, limit 1 | list shape, ownership, mutex, refinement of `Fifo`, the mutex given back on every path: hold |
| `pipeline` | 2 clients (3 packets and 1), 2 frames a packet, limit 2 | queue bound, queue content, no more dropped than arrived beyond the limit, order of sent frames with one mixer, no empty picture, refinement of `Relay` with `InOrder`: hold |
| `pipeline_mixers` | 3 clients (2, 1, 0 packets), 2 mixers, limit 1, fair workers | every frame in one place, heap exact, every packet settled, refinement of `Relay`: hold |
| `evict_assertion` | as `pipeline` | `assert(NULL!=p_tmp_node)` after the removal: fails |
| `two_mixers_order` | as `pipeline_mixers` | frames in order: fails with two mixers |
| `daemon` | 2 connections, 2 failures, restarts | no zombie, listening and connection descriptors private, connections attended to and released, the port free again, refinement of `Reception`: hold |
| `conference` | 2 clients, one failing pthread_create; receiver and decoder of client 0 and the monitor scheduled | parameter blocks handed over, memory there when used, one writer per entry, lengths shown right once quiet, and a length shown right stays right: hold |
| `shmsem` | 3 processes, one instance (offsets 0 and 256), newer family, careful | exclusive right, exact semaphore, undisturbed writes, refinement of `AccessRight`, waiters served: hold |
| `shmsem_any` | 3 processes, 2 creators, 1 remover, signals, older family | types, balance of the undo values: hold |
| `second_creator` | two creators of one instance | exclusive right: fails, the semaphore is set to one again |
| `interrupted_acquire` | one creator, signals | acquire waits for the semaphore: fails, semop's result is ignored |
| `neighbour_destroyed` | instances 0 and 1, the latter removed | exclusive right: fails for instance 0 |

### Bounds

* Three threads are the smallest number with an inserter, a remover and a third
  that meets a half-done call of either; two nodes are a list with two ends and
  let memory be used again while the other is queued. Longer lists, with a middle,
  are left to the proofs, which need no bound.
* `PacketsFrom` bounds what arrives. With limit 2, three packets fill the queue and
  evict; with limit 1, two do. Two frames a packet let a packet be half decoded
  (the code's five would add length, no new case); the runs with three clients
  use one.
* Three clients are the smallest number with two mixers. Client 2 sends nothing,
  so rounds with an empty queue always occur.
* `conference`: the race for a shown length needs two threads that copy one queue's
  length, a receiver and its decoder, and two values. The other threads are created
  (or fail, or are given up) but not scheduled (`Busy`), as any scheduler may leave
  them. `MaxFailures` is one, so that a group is given up half-way and the others
  go on; the proofs have no bound on it.
* `MAX_AV_PACKET_NUM` is 200 in the code and 1 or 2 here. No property depends on
  the value; how likely the failing assertion is does: the decoder has to take
  200 packets between two calls of the receiver, which a receiver thread
  suspended between them allows.
* `daemon`: two connections are enough for one to wait while the other is handed over,
  and for a conference to run while the next is accepted. `MaxFailures` is two: a
  failure, or a kill, and another while the server recovers. Safety is proved
  without these bounds.
* `shmsem` has three processes so that one can wait while another holds and a third
  ends; two semaphore ids in `shmsem_any`, as a removed one can be made again.
  `MaxDebt` bounds how many releases without a right a process makes; it never
  bites under careful use.

Deadlock is checked in the queue run. The pipeline runs switch it off, because an
abort really stops the system and, all packets sent, workers can only poll empty
queues; the conference run, because the process ends; the daemon run, because obama
may wait for a connection that never comes; the shared-memory runs, because all
processes may have ended.

### Fairness

`AvQueue`: weak fairness of a thread's steps once it has entered a call; nothing
obliges it to start one. For `LockReleased` that is enough, as the holder of the
mutex is never disabled.

`Pipeline`: weak fairness of every worker's steps. Each is an infinite loop that
never blocks on anything but a mutex that is always given back, and after
`usleep` it tries again, so a worker whose step stays possible takes it under any
scheduler that does not starve a thread. Nothing is assumed of the clients:
`Receive` is not fair.

`Conference`: weak fairness of a scheduled worker's probe and of the end of its round,
for all but the receivers, whose round ends when a packet comes. Nothing is assumed
of main: the conference may last for ever.

`Daemon`: weak fairness of every process's own steps, as nothing but the calls
modelled blocks it. Nothing obliges a client to connect or to speak, a conference to
end, or anybody to restart obama: `Attended` holds although jose may wait for an
instruction for ever.

`ShmSem`: weak fairness of a creator's steps and of releases (callers do not keep
the right for ever), strong fairness of a waiting semop, because the kernel serves
the sleepers of a semaphore in the order they came. A creator that ends between
making the semaphore and setting its value leaves waiters behind;
`WaiterServed` says so.

### Findings

* `recv_av_packet.c:186`: the assertion can fail, see `evict_assertion`.
* `system_monitor.c:199`: client_num - 1 mixers share the decoded queues, where the
  diagram in `hvs_init.c` has one. A client's frames can then be sent out of
  order (`two_mixers_order`); none is lost or repeated (`pipeline_mixers`).
* `shmsem.c:151`: a second creator sets a semaphore in use to one (`second_creator`).
* `shmsem.c:272`: an interrupted or failed acquire is reported as success
  (`interrupted_acquire`).
* `shmsem.c:172`: `DestroyShmSem` removes its neighbour's semaphore and leaves its own
  (`neighbour_destroyed`).

Seen while modelling, not worth a run: the decoded, mixed and encoded queues have no
bound (`MAX_AV_FRAME_NUM` is tested by a function nobody calls), one client would get no
mixer, `InitialShm` clears an existing segment, the parameter block of a thread that
could not be created is never freed, a client that hangs up without an instruction
starts a conference, conferences that run at the same time bind the same UDP ports
(`network_socket.c:120` sets SO_REUSEADDR), `main` opens the TCP port and then calls
`Create_hybrid_video_process`, so that the port listens and nobody accepts, where its
comments (`hvs_main.c:45-46`, `:64`) have it wait for connections, and the system state
is freed under workers that go on writing to it until the process ends (`AccessesValid`
holds up to that point only). The failing assertion has a milder form: as the answer of
the limit check is stale when the removal runs, a packet may be dropped although the
decoder has made room meanwhile.

## 4. The proofs

### AvQueueProofs

For any sets of threads and nodes and any limit, assuming only that NULL is neither
a node nor a thread.

`IInv` is `TypeOK /\ MutexHeld /\ NodeOwnership /\ ListShape /\ CallerContract`.
None of the first four is inductive alone: that the length stays a natural number
needs that it counts the list (`ListShape`); that the tail is the end of the list
when an insertion links to it needs that no other insertion is half done
(`MutexHeld`); that linking a node does not close a cycle, and that writing its
next field does not cut the chain, need that it is not in the list and the list
has no node twice (`NodeOwnership`); and all of it needs what callers pass in
(`CallerContract`). `Invariance` follows from `InitIInv`, `StepIInv` (one case per
action, in it one step per conjunct) and `StutterIInv`; a step that moves no node
between owners is covered by `OwnershipFrame`. The theorems `TypeCorrect`,
`MutualExclusion`, `OneOwnerPerNode` and `WellFormedList` are its parts.

`Linearizable` is the refinement: `contents` for `items`, the abstract call derived
from `pc`, and the two pointers hidden while the node they hold is the queue's.
An insertion takes effect when the node is linked, a removal when it is unlinked
(or when the header is found NULL), a check when it reads the length, which is
the list's then since no other call is half done.

### PipelineProofs

For any number of clients, packets, frames and any limit. `IInv` adds to `TypeOK`,
`RecvBounded` and `NewestKept` that a receiver about to insert has room
(`RecvRoom`: the fact its check or its removal established and that the decoder,
who only removes, cannot destroy) and that a mixer counts no more empty queues
than it has visited (`FlagWithinSlot`). The receivers' facts are proved for one
client at a time (`ReceiverFacts`); two lemmas on sequences carry the numbering
(`RunLosesHead`, `RunGains`).

`DropsOnlyExcess` counts what a receiver drops. The check's answer may be stale when the
removal runs, so the count cannot be read off the queue then; `DropFacts` carries it from
the check: everything dropped is older than everything queued (`DroppedFew`: so no more is
dropped than has left the queue), and a receiver whose check found the queue full may drop
one more than it has, as the limit was queued beside all that had left. The decoder only
removes, which keeps both.

### FrameProofs

For any number of clients, packets and frames, under the named assumptions of
`Pipeline`. The pictures between the mixers and the network form one line: those
sent, those encoded, the one the encoder works on, those mixed. The encoder and the
sender move the borders within it, and only a mixer changes it, at its end
(`LineMoves`, `LineGrows`). What concerns one client is then four columns: its decoded
queue, the mixers' hands, the line, and the number of its last decoded frame.

`FInv` adds to the invariant of `PipelineProofs`

* `PacketFacts`: packets are numbered without a gap from the ones taken out through the
  queued ones to the one in the receiver's hand, and the decoder's is one taken out;
  without this a new frame's number could be an old one;
* `MixerFacts`: a mixer has frames only of queues it has asked, and its empty count
  is the number of queues asked exactly when it has none; without it a skipped round
  could lose frames, or a round without any be mixed;
* `FrameFacts`: the decoded queue ascends, is newer than everything in hands and on
  the line, no frame is shown twice, and what the columns show is what was produced;
  with at most one mixer (`ClientNum <= 2`), hands and line ascend too;
* `Coloured`: no picture on the line is of nobody.

`SomebodyShown`, `EveryFrameOnce` and `OneMixerInOrder` follow. The last assumes
`ClientNum <= 2`; run `two_mixers_order` shows that it cannot do without.

### RelayProofs

For any number of clients, packets and frames. `WaitingIs` reads `FInv` as: a frame waits when it is produced and not yet sent. So
only a decoded frame (which enters) and a sent picture (whose frames leave) are
visible steps; `StepRelay` shows that they are `Decode` and `Send`, and that all
others stutter. `Send` needs that a picture shows somebody and that no sent picture
showed its frames before, both parts of `FInv`; that a decoded frame is newer than
everything sent or waiting is `SentBounded`, and that with one mixer the next picture has
a client's oldest waiting frame is `OldestNext`: the hands and the line then ascend and are
older than the decoded queue.

### HeapProofs

`Live` is taken apart by kinds (packets, frames, mixed, encoded), since a step
touches one place of one kind or two. `HeapStep` is the argument for all actions: if
what a step allocates is what becomes live, and what it frees was live and ceases to
be, then the heap stays exact. That a freed payload ceases to be live is where
`FrameProofs` comes in: it has left the only place it had (`HandAlone`,
`PicturesDiffer`, `PacketPlaces`). `HeapExact` is not inductive alone for that reason.

### ConferenceProofs

For any number of clients, any subset of threads that is scheduled, any failures.
`WorkerIds` and `QueueIds` say that the sums agree: ids are distinct and fill their
arrays exactly; `PacketFits` and `PortsApart` give the numbers of clients (32, 99) up
to which buffer and ports suffice. `IInv` is `TypeOK /\ BlocksOwned /\ AccessesValid
/\ EntryOwn`. `AccessesValid` needs `BlocksOwned`: a thread that starts finds its
block because it was created and has not started before. `OneWriter` follows from
`EntryOwn` (an entry is the one of the worker's id) and `WorkerIds`. `TypeOK` needs
that what a worker watches are queues (`WatchedQueues`).

`ShownRight` is about the unlocked copying. A queue is `Fresh` when the system state shows its
length and every thread between its read and its write of this queue's length holds that
length. A read then reads what is shown, a write of this queue's length writes it again, and a
write of another's goes elsewhere because ids are distinct (`QueueIds`). `ProbeHolds`, that a
value is held only within a probe of a queue that is there, is needed because otherwise a
new round, which sets `at` back, could carry the value of one queue into the entry of another. This is the safety half of
`ShownSettles`.

### ShmSemProofs

For any processes, offsets, objects and either family. `TypeCorrect` assumes nothing of
the use: no semaphore goes below zero. Nor does `UndoKept` (`UndoBalance`), but that the
processes are finitely many, as its sum over them would mean nothing otherwise. A step
changes the undo value of one process, and the sum changes by the same (`SumRaised`), and the
value of the semaphore the other way: by as much in semop, by no less at the end of a process,
where the kernel stops at zero. Or it is SETVAL, which makes the sum zero and the value one
(`SumZero`). That the sum is well defined and has these
laws (`SumExists`, `SumIs`) is shown by induction on the number of processes, through a least
counterexample (`LeastNumber`). `NotLeftTaken` is the consequence that
matters: when nobody has anything to give back, the semaphore is free.
`WaitsWithoutSignals` assumes no signal and no removal but any number of creators: with run
`interrupted_acquire` it says that signals and removals are all that lets a process in
without waiting. The others assume `Careful`: one creator per
semaphore, no removal, no interrupted operation; each of the violation runs drops
one of these, so none can be left out. Processes may end at any step. Exclusion
is not inductive: that a free semaphore has no holder needs `SemaphoreExact`, which
needs that SETVAL comes before any holder (`CreatedOnce`: the creator has not set the
value yet, and nobody can hold what has none), that processes with one key use one
semaphore (`HandleFound`) and processes with different keys different ones
(`KeysApart`). `Undisturbed` further needs the segment side (`MappedFound`) and that
processes sharing a segment share its semaphore (`SameInstance`, arithmetic modulo
256). `Refinement` maps waiting to wanting and access to holding; a creation, a
lookup or a write is a stutter, the end of a holder gives the right up.

### DaemonProofs

For any connections and any number of failures, kills and restarts. `IInv` is `TypeOK
/\ OneChild /\ ListenerKept /\ ConnectionsKept /\ ConnInHand /\ AcceptedFirst`. The
first four are the theorems. `OneChild` and the closes need that a connection is in
hand exactly between accept and waitpid (`ConnInHand`); that accepting a connection
finds no processes of its name, whose descriptors would be mixed with the new ones,
needs `AcceptedFirst`.

`ReceptionKept` is the refinement of `Reception`. It needs `HandedOver` besides: a
connection in hand has no alice before the fork, an alice that has not forked no jose, so that
handing over a descriptor is never seen as losing the connection and serving begins once;
what waits in the backlog waits for a listening socket, so that accepting is possible only for
those who wait; a jose that answers has heard something. A failing step closes one process's
descriptors, of one connection, so at most one is lost. `StageKept` and `NothingSeen` cover the steps that stutter, `OneGoes`
those that move one connection, `Broken` the failures.

### What is only model-checked

The liveness properties `LockReleased`, `PacketSettled`, `ShownSettles`, `Attended`,
`Released`, `Rebound` and `WaiterServed`: the prover has no support for ENABLED, hence none
for fairness. One of them has a proved safety half, `RightStays` for `ShownSettles`. Every other property of the passing runs is a theorem.

No module uses RECURSIVE operators.

## 5. Not modelled

* The values of the worker states the monitor reports. Each is a number one thread
  writes and only the monitor's client reads; no code decides on one. That each is
  written into its own worker's entry is `OneWriter`.
* What a reader of the monitor's packet makes of it. The counters are copied one by one
  while the workers go on; neither code nor documents promise a consistent packet.
* The text of the error log and of debug output; that a log which cannot be opened
  ends the process is in `Daemon`.
* The payloads' bytes and the codecs: the repository has only the stand-in, whose
  inserting and freeing `Pipeline` has.
* The send queues (`manage_queue.h`), which no code uses, and `Log_string` and
  `debug_wait`, which no code calls.
* Socket options and addresses; `network_socket.c` otherwise is in `Daemon` (TCP) and
  `Conference` (UDP).
* Several conferences at once on one machine: each is a process of its own and they
  share nothing but the UDP ports, on which the kernel decides who receives.
