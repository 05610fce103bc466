# Xinu with demand paging: models, checks and proofs

The repository (`project4/xinu`) is Embedded Xinu for x86 with a course
project on top: private virtual heaps and demand paging (`project4.pdf` is the
assignment, the design document describes the solution). This directory holds
TLA+ specifications of its core, configurations that check them with TLC, and
proofs checked by TLAPS.

Paths are relative to `project4/xinu`.

## 1. The system

One processor; no user mode. Every system call, and every interrupt handler,
runs with interrupts disabled (`disable` / `restore` in `system/intr.S`), so two
processes interleave only where one of them reschedules, and an interrupt comes
only where interrupts are enabled. What makes the code hard is therefore not
data races but what other processes do between a `resched` in the middle of a
call and the rest of that call.

| Component | State | Operations | Interacts with |
|---|---|---|---|
| Process management (`create.c kill.c resume.c suspend.c ready.c chprio.c yield.c xdone.c`) | `proctab`, `prcount`, `currpid`, `nextpid` | create, kill, resume, suspend, chprio, yield | all; kill takes a process off whatever list it is on, tells the parent with `send`, returns its frames |
| Scheduler (`resched.c`, `ctxsw.S`) | ready list, `preempt`, `Defer` | resched, resched_cntl | called by all that block or make ready; loads the page directory |
| Lists (`queue.c insert.c insertd.c getitem.c unsleep.c newqueue.c`) | `queuetab` | enqueue, dequeue, insert, insertd, getitem, unsleep | ready list, delta list, one list per semaphore |
| Semaphores (`sem*.c wait.c signal.c signaln.c`) | `semtab` | semcreate, semdelete, semreset, wait, signal, signaln | ready, resched, kill |
| Messages (`send.c receive.c recvclr.c recvtime.c`) | `prmsg`, `prhasmsg` | send, receive, recvclr, recvtime | ready, the delta list, kill |
| Clock (`clkhandler.c sleep.c wakeup.c unsleep.c`) | `sleepq`, `preempt` | tick, sleepms, sleep | ready, resched |
| Demand paging (`paging.c pagefault_handler.c vcreate.c vmalloc.c vfree.c`, parts of `kill.c resched.c`) | three tables of frames, page directories and tables, the counters of free frames, the age of frames | init_frames, vcreate, vmalloc, vfree, the fault handler, kill | the processor's `cr3`, `cr2`, present and dirty bits |
| Heap memory (`getmem.c freemem.c getstk.c meminit.c`) | free list of blocks | getmem, freemem, getstk | create, kill, device drivers |
| Ports (`pt*.c`) | `porttab`, free message nodes | ptcreate, ptsend, ptrecv, ptreset, ptdelete, ptcount | two semaphores per port |
| Buffer pools (`mkbufpool.c getbuf.c freebuf.c bufinit.c`) | `buftab` | mkbufpool, getbuf, freebuf | semaphore, getmem; the network |
| Marks (`mark.c`) | `marks` | mark | a mutex |
| Device switch (`open.c` ... `putc.c`) | device table (constant) | open, close, read, write, seek, getc, putc, control | the drivers |
| Console (`device/tty`) | input, output and echo queue | ttyread, ttywrite, ttygetc, ttyputc, ttycontrol, interrupt | semaphores, the UART |
| Remote disk (`device/rds`) | cache of blocks, request queue | open, close, read, write, control; the communication process | messages, semaphores, UDP |
| Local files (`device/lfs`) on the RAM disk (`device/ram`) | free lists, index blocks, open files | open, close, read, write, seek, truncate | semaphores |
| Remote files (`device/rfs`), names (`device/nam`) | open remote files; mount table | open, close, read, write; mount | UDP; the device switch |
| Ethernet (`device/eth`) | transmit and receive rings | read, write, interrupt | semaphores, buffer pools |
| ARP, IP, UDP, ICMP, DHCP, DNS, TFTP (`net`) | ARP cache, endpoint and echo tables, output queue | send, receive, resolve, the network processes | messages with timeouts, buffer pools, Ethernet |
| Shell, library, configuration, start-up | | | |

What is hard here, and correct when:

* **kill** can reach a process in any state and at any point of another call,
  and reschedules in the middle (it notifies the parent before it frees
  anything). Correct if each process is on exactly the list its state names, no
  semaphore unit and no frame is lost, and the machine halts with its last user
  process and not before.
* **Loops over a list** (wakeup, signaln, semdelete, semreset) make processes
  ready one by one; rescheduling is deferred meanwhile. Correct if each
  deferral ends, and no process loses the processor inside.
* **A message, a timeout and a kill race** for a process in `recvtime`. Correct
  if it is made ready once, and no message is lost or overwritten.
* **The delta list** keeps differences: whoever leaves early must hand his on.
* **A fault of one process evicts a page of another**, which is suspended with
  its page table out of sight. Correct if the page tables and the tables of
  frames agree, a process reads what it wrote last, and reaches no frame of
  another.
* **Tables are full, counters are at their ends**: the paging code has several
  paths on which a frame number or an address is never assigned.
* **State is read before a wait and used after it** by ports, the remote disk,
  UDP, ICMP and ARP: a port may have been reset, deleted and created again, a
  cache entry resolved or freed, a queue emptied. Correct if what a process
  finds after its wait is what it was released for.
* **A timeout races a packet** in every receive of the network: the last timeout
  frees a cache entry or takes an endpoint back while a message is on its way.
* **A process is killed inside a call**: in `getbuf` between its release and the
  list, in `ptrecv`, in a resolver, with the mutex of the remote file system.
* **A ring or queue has two owners** (adapter and driver, writers and `ipout`,
  terminal handler and writers), each with its own idea of how full it is.
* **A line is edited while the buffer still holds others**, and what of it counts
  as typed is decided by a cursor count.
* **The disk's free lists and index blocks are in memory and on the disk**; dirty
  blocks must go out before others come in.
* **Requests are repeated** by the remote disk, remote files and TFTP: carried out
  twice, answered late, answered by two transfers.

## 2. Modules

| Module | Models | Lines of code |
|---|---|---|
| `XinuQueues` | the list operations, as operators on sequences and keys | `queue.c insert.c insertd.c getitem.c unsleep.c queue.h` |
| `XinuKernel` | process management, scheduler, clock, semaphores, messages: one action per call up to its next `resched`, or per iteration of a loop | the files of the first six rows above |
| `ProcessDiagram` | abstract: the state diagram of a process (which call may move it from which state to which) | what the calls promise |
| `MCKernel`, `MCKernelMix` | `XinuKernel` started with a process in every slot; two mixes of calls on it | |
| `VmallocScan` | vmalloc's search, as an operator | `vmalloc.c` |
| `FirstFit` | one request for a block, from every pattern of free pages; the definition of first fit | `vmalloc.c` |
| `Paging` | demand paging: one action per call or fault | `paging.c pagefault_handler.c vcreate.c vmalloc.c vfree.c`, `kill.c:34-87`, `resched.c:38-46` |
| `MCPaging` | constants of its instances | |
| `SemaphoreOps` | a semaphore as a value, for the modules whose calls wait in the middle | `wait.c signal.c signaln.c` |
| `HeapMemory` | the list of free blocks; what callers hold | `getmem.c freemem.c getstk.c memory.h` |
| `BufferPools` | pools, their lists and semaphores; buffers out; getbuf in two steps | `mkbufpool.c getbuf.c freebuf.c bufinit.c` |
| `Marks` | `mark`, statement by statement | `mark.c` |
| `PortChannels` | abstract: channels that are opened, hold words in order, and are shut | what the calls promise |
| `Ports` | the port table, message nodes, calls around their waits, `_ptclear` in its steps, kill | `pt*.c` |
| `LineEditing` | abstract: a line that is typed, edited and ended; what has been typed and may be read | what cooked mode promises |
| `Tty` | input, output and echo queue, handler and callers, flow control, editing | `device/tty` |
| `Rds` | cache, request queue, the communication process, its exchange, server and network | `device/rds` |
| `Lfs` | directory, index and data blocks in memory and on the disk, open files | `device/lfs`, `device/ram` |
| `Rfs` | control blocks, the mutex, one exchange with retries, server and network | `device/rfs` |
| `Arp` | the cache, resolvers, arriving packets | `arp.c` |
| `Udp` | endpoints and their queues, receivers, senders | `udp.c` |
| `Icmp` | echo slots with their rings, index by index | `icmp.c` |
| `Ip` | who holds the buffers of `netbufpool`: netin, senders, ipout, the output queue | `net.c ip.c`, the answers to pings in `icmp.c` |
| `Eth` | receive and transmit ring between adapter, handler, `ethread` and `ethwrite` | `device/eth` |
| `Tftp` | the client, a server with up to two transfers, the caller's buffers | `tftp.c` |
| `MCLocal`, `MCNetwork` | the components of one machine, and of the network, each by itself | |
| `XinuQueueProofs`, `SemaphoreProofs` | lemmas on lists, semaphores and sums | |
| `XinuKernelProofs`, `XinuStepProofs`, `PagingProofs`, `PagingContentsProofs`, `LocalProofs`, `NetworkProofs` | theorems (section 4) | |

`MCLocal` and `MCNetwork` put components that do not share state into one run: a
behaviour chooses a `part` at its start and makes only that component's steps,
so the state space is the sum, not the product. `MCKernelMix` does the same with
two sets of calls on one kernel. Nothing is claimed there of components together.

### XinuKernel

The variables are the kernel's tables by field (`prstate`, `prprio`, `prsem`,
`prmsg`, `scount`, ...), the lists as sequences, the keys of `queuetab`
(`qkey`), and `cont`. Where a call goes on after a `resched`, the rest of the
call is a record in `cont[p]`, and an action of its own takes it up when p has
the processor again: the loop of `signaln` is `SignalnStep` and `SignalnDone`,
the end of `receive` is `ReceiveRest`, of `kill` `KillRest`, of `clkhandler`
`TickRest`. While `cont[currpid]` is not `"user"`, interrupts are disabled, and
neither a call nor a clock tick can happen. In user mode the current process
makes any call in `Syscalls` with any arguments; a refused call changes nothing
and is a stutter. `chprio`'s effect is the code's: neither the key nor the place
in the ready list changes. A process that is killed while it is current keeps
running inside `kill` until `resched`, as the code does.

`fault` operators (`GetItemKept`, `LeaveUncounted`, ...) are plausible slips of
the definitions behind them; no specification uses them, and each property is
known to fail when its fault replaces the original.

`ProcessDiagram` says which moves of the state field there are and that only a
process that runs may block itself; `XinuKernel` implements it with
`Procs <- Pids, null <- NULLPROC, state <- prstate` (`StateDiagram`).

### Paging

A heap is three regions as large as the kernel's own memory. The bit that says
that a page of region r is free is bit r of the three bits for software in the
process's page table entry *of the kernel's page with the same offset*; so bits
live in frames of the page table area (`bits`), and the pointer arithmetic of
`vfree`, which walks over them in the wrong order, is modelled word by word
(`FreedWord`). `pte`, `hpd` and `dirty` are what the processor sees; `ptab`,
`ftab`, `stab` the tables of frames; `older` the order of the ages (`latency` is
a counter, and only comparisons of it matter); `heap` and `swap` the counters,
unsigned in words of `WORD` values; `data` the contents of frames. `blocks` and
`mem` are what the programs know: the blocks they hold, the value they wrote
last. `cr3` is the directory in use, which `vcreate` leaves at the new process's, or,
if it fails, at the null process's (`VcreateFails`), which maps all of memory to itself:
there a page has the frame of its own address, present and never faulting
(`Translate`), and a write goes past the tables and the dirty bits of the page's owner
(`WriteThrough`). `refused` says that a process with a heap is in that situation; it
ends with the next load of `cr3`, by a switch, `vmalloc`, `vfree`, a fault or a `vcreate`
that succeeds.

Each call is one step, since it runs with interrupts disabled; only the fault
handler's kill is two, because kill notifies the parent first (`Dies`, then
`Exit`).

Where the code goes on with a frame number or an address it never assigned, the
outcome is open: `wild` stops the model; `lost` notes that a frame's contents
were copied to, or hit at, such a place, or written through the null process's
directory, after which `ReadsBack` and `SwapCopyFresh` claim nothing. `ReadsBack` is
about what the page holds: through the null process's directory a process also reads
some other frame than its page's. Left out: the fault handler's write through a
`virt_addr_t` pointer it never set, `vfree`'s write of a present bit at an
address in low memory, the wrap of `latency`, the functions that only report
counters, `p_fm_dirty` and `v_freelist`, which nothing reads, and `vmalloc`
called by a process of `create`, which has no heap.

### Memory, buffers, marks, ports

A call is one step up to a wait that blocks, since interrupts are disabled; a
process that has been released is no longer in the semaphore's queue and goes on
at some later step (`GetbufRest`, `PtsendRest`, `PtrecvRest`), after anything
the others do. `mark` alone runs with interrupts enabled: `marking[p].at` says
which statement comes next. `_ptclear` calls the dispose function and lets the
processor go in the loops of two semaphores: `PtclearStart`, `Dispose`,
`PtclearSenders`, `PtclearReceivers` and `PtclearEnd`, with the port in limbo
between them. `getbuf` and the port calls may be killed where they wait.

### Console

`TtyHandleIn` is one character received, `TtyHandleOut` one round of the output
interrupt; reads and writes wait in the middle (`TtyReadOn`, `TtyWriteOn`).
Indices, counts of the semaphores and the cursor are the code's. The three flags
`spoilt`, `overtaken` and `silently` say where the code leaves what the
properties claim (section 5); they are set exactly at those statements. The
input side and the output side are two parts of `MCLocal`.

### Disks and files

`Rds`: the calls of the device, `rdsprocess` (`ProcReads`, `ProcWrites`, ...) and
`rdscomm` (`Starts`, `CommSends`, `Accepted`, `CommTimesOut`, ...) with copies of
the request and replies under way. The code goes wrong on several paths of legal
calls; the model stops there with `upset` naming the reason: `"no buffer"`,
`"searched early"`, `"wrong block"`, `"two requests"`, `"stale reply"`, `"write
hidden"`, `"no server"`, `"closed early"`, `"deleted in use"`. `DiskSound` is about all that
happens before. Several processes may have calls, but one exchange with the
server goes on at a time.

`Lfs`: the file system is a record (directory and blocks on the disk, the
directory in memory) that operators named after the functions transform
(`Lfsetup`, `Lfflush`, `Lfiballoc`, ...). On the RAM disk no call waits, so calls
do not overlap.

`Rfs`: a call waits for `rf_mutex`, does what it can by itself (`RfLocal`,
`RfRefused`) or starts an exchange; the server and the FIFO network, which loses
and delays, are modelled from what `rfscomm` sends and accepts. A call's
arguments are chosen when it has the mutex. `rfknown` is what the results of the
calls determine about the server's files.

### Network

A packet is what the component looks at: its key (`Udp`), its host (`Arp`,
`Icmp`), its destination (`Ip`), its number (`Eth`, `Tftp`). Nothing is assumed of
who runs first: `ipout` runs with interrupts on at the priority of `netin`, so `netin`
may come in after `ipout`'s wait and before it takes the packet (`IpoutDue`), and a
process told of its echo reply may find that another call came before it (`Awaited`).
Processes may get a message from elsewhere at any time and may be killed in their waits.
Where a wait and its continuation can come apart because of a kill or a shared
endpoint, a flag (`disturbed`, `icdisturbed`, `txraced`) says so, and the
property names it. `iqoverrun` says that a packet of the output queue was written over,
and stops `Ip` there. In `Tftp` a packet once sent may arrive at any later time or
never, any number of times; a repeated request may start a second transfer. A
kill inside TFTP is not modelled.

## 3. Runs

Passing runs:

| Run | Instance | Shows |
|---|---|---|
| `KernelAll` | boot; null process, 2 user processes, 1 semaphore; every call but chprio | `TypeOK`, `QueuesMatchStates`, `HighestPriorityRuns`, `HaltsWithLast` |
| `KernelMix` | 3 user processes; either the seven operations of 1 semaphore, kill and chprio, or send, receive, recvtime, sleepms, suspend, resume and kill | `SemaphoresSound`, `DeferInLoops`, `ReadySorted`, `NoOvertaking`; `ReceiversSound`, `MessageKept`, `OthersKeepDelay`, `StateDiagram` (refinement) |
| `KernelLive` | 3 user processes of one priority, to which chprio may lift the null process, a quantum of 2; yield, sleepms, recvtime, send, chprio; fairness | `ReadyRuns`, `SleeperWakes` |
| `PagingShared` | 2 processes, 1 FFS frame, 2 swap frames, 2 creations; blocks of part of a page, which vfree does not return to the heap, so that a process goes through all three regions | `TablesAgree`, `TablesHoldLiving`, `PrivateFrames`, `ReadsBack`, `HeapCountCovers` |
| `PagingBlocks` | 1 process, 6 heap pages, of which 4 find a frame for their page table, up to 4 pages at a time in blocks of 3 pages and of one page and a part, 2 FFS and 2 swap frames | `OneCopy`, `SwapCopyFresh`, `FrameFound`, `ReadsBack` |
| `Local` | one component at a time: vmalloc's search on 8 pages; a heap of two areas; 2 buffer pools, 3 processes; 2 markers, 3 locations, 2 marks; 1 port, 2 nodes, 3 processes; the terminal with buffers of 2 to 4 characters; the remote disk with 2 buffers, 2 processes, 3 exchanges; the file system with 2 files, 2 index and 2 data blocks | `FirstFits`, `HeapSound`, `PoolsSound`, `MarkedForGood`, `PortsSound`, `PortsAreChannels` (refinement), `OutputSound`, `EditsAsPromised` (refinement), `DiskSound`, `FilesSound` |
| `Network` | one component at a time: ARP with 2 entries, 3 hosts, 2 resolvers; 2 UDP endpoints with a queue of one packet; 3 echo slots with rings of two; 4 network buffers and an output queue of two; rings of 6 and 3 descriptors; 1 remote file, 2 clients, 3 exchanges; a TFTP transfer of 4 or 5 bytes | `CacheSound`, `EndpointsSound`, `PingsSound`, `QueueSound`, `RingsSound`, `RemoteFilesSound`, `TransferSound` |

Where a component's promise has several sides, its property is a conjunction of
named definitions, each with a comment of its own:

| Property | Its conjuncts |
|---|---|
| `SemaphoresSound` | a count below 0 is the number of processes queued; a deleted semaphore holds nobody |
| `ReceiversSound` | who waits has no message; a `receive` returns one |
| `FirstFits` | a request is refused only if no run of free pages is long enough; what is granted is the lowest |
| `HeapSound` | `ListJoined` (free blocks sorted, apart, not adjacent), `HeapPartition` (every byte free or held, once), `HeldCanBeFreed` |
| `PoolsSound` | `BufferInOnePlace`, `GetterFindsBuffer` (released from the wait, it finds the list not empty), `PoolMemoryConserved` (a failing mkbufpool gives back what it took) |
| `PortsSound` | types, `NodesConserved`, `PanicOnlyOvercommitted`, `ReceiverFindsMessage`, `SenderFindsRoom` |
| `OutputSound` | `OutputAgrees` (indices and semaphore), `OutputGoesOn` (what is stored will be sent) |
| `DiskSound` | `RdBuffersConserved`, `ReadGivesLastWrite`, `ServerHasLastWrite` |
| `FilesSound` | `FileHoldsWritten`, `ClosedIsOnDisk` (what a machine that stops now would have), `BlocksOnce`, `PointerAtPosition` |
| `CacheSound` | `OneEntryPerAddress`, `CacheTruthful`, `WaiterOwnsEntry` |
| `EndpointsSound` | `UdpBuffersConserved`, `NoPacketMissed`, `ReceiverFindsPacket`, `EndpointsDistinct` |
| `PingsSound` | `RingHoldsUnread`, `RingKept`, `NoReplyMissed` |
| `QueueSound` | `NetBuffersConserved`, `OutputQueueFits`, `IpoutFindsPacket` |
| `RingsSound` | `AdapterOwnsEmpty`, `ReaderFindsFrame`, `FramesInOrder`, `WriterFindsRoom` |
| `RemoteFilesSound` | `KnownIsTrue` (the server holds what the results of the calls say), and a read or size answers truly |
| `TransferSound` | the buffers hold a beginning of the file, without gaps; a size is returned only for all of it, or for full buffers |

Runs that show where the code does not do what a document or comment says:

| Run | Property | What happens |
|---|---|---|
| `KernelKillTwice` | `HaltsOnlyWithLast` (`kill.c:24`, "Last user process completes") | `kill` counts the victim off before its notice lets the parent run; the parent kills the same process again, `prcount` falls twice, and a later kill stops the machine under a live process |
| `KernelZeroWait` | `SleepEnds` (`sleep.c:23`, "Delay the calling process n milliseconds") | `recvtime(0)` puts a node of key 0 at the head of the delta list; each tick is spent on it, so a process that repeats the call stops the time of every sleeper |
| `PagingBorder` | `AllocatedNeverFaults` (`project4.pdf` p. 3) | the handler's `<=` and vmalloc's `<` at the border of the regions choose different bits; a process dies for touching what it has allocated |
| `PagingOverlap` | `BlocksDisjoint` (`project4.pdf` p. 2) | `vfree` chooses the bit by the round of its loop, not by the region; the pages of a living block become available again |
| `RdsStaleReply` | `ReplyMatchesRequest` (`rdscomm.c:95`, "Verify that sequence in reply matches request") | a reply to an exchange that was given up comes during the next one of the same type; its smaller sequence number is seen, and it ends the exchange all the same |

### Bounds

* Processes: a process that acts, one it acts on and one that gets the
  processor in between are three; each list then has up to two members beside
  the one that moves, which is where positions, keys and inheritance of delays
  differ. `KernelAll` has one user process less and every call but `chprio`
  instead.
* `MaxCount` bounds semaphore counts from above only. Nothing bounds the number
  of steps.
* Delays 1 and 3 with a timeout of 2 give equal and unequal keys and an insertion
  in the middle. `KernelLive` uses the same.
* Paging: `Quota` bounds the pages a process holds, `MaxCreate` creations,
  `MaxSwapCount` stops freeing once `available_swap_size` has grown (it is not
  exact and grows without limit); `WORD = 8` stands for 2^32 and is above every
  count that occurs except by wrapping below 0. `T` and `E` are 4 and 1024 in the
  code; 1 or 2 tables of 1 or 2 entries keep a first and a last entry, a first
  and a second table and three regions. In `PagingShared` two swap frames let two
  processes swap each other out for ever, each page coming back, being written
  and evicted again; the page table area holds the tables of one process that
  has gone through its regions, or of two that have not. In `PagingBlocks` the
  7 frames for page tables are a directory, two kernel tables and four tables of the
  heap, so that four pages fill the FFS and the swap space and the next eviction finds
  both full.
* `SYMMETRY` over the users in `PagingShared`, which checks invariants only.
* `VIEW Relevant` in both passing runs: once contents are lost (`lost`, which stays
  true) no guard reads `data` or `mem` and no property says more of them than
  their types, so the view leaves them out of such states.
* ICMP: once processes have been in each other's way at a slot (`icdisturbed`), one
  slot at most is in use (`DisturbedAlone` in `MCNetwork`); until then all three are.
* Heap: areas of 6 and 8 bytes at an alignment of 2, requests of 1 to 6 bytes:
  blocks that fit exactly, leave a rest, or are at either end, and frees that
  join with either neighbour, both or none. Requests near 2^32, for which
  rounding up wraps, are left out.
* Pools, ports, marks: three processes (two of which wait while one acts), pools
  of one and two buffers, a heap that has room for three of them and one semaphore
  left, so that both failures of mkbufpool happen; a port for one message and one
  for more than the nodes there are. `MaxSeq` bounds how often a port is created,
  reset or deleted. Two marks and three locations: one finds the table full.
* Console: buffers of 2 to 4 characters, so that each is full, wraps and is
  full of several lines; `UART_FIFO_SIZE` 3 above and below what is stored. One
  printable character; control characters, which echo as two, are left out of
  the instance, so that a line is what its length says.
* Remote disk: `MaxExchanges` 3 is a given-up exchange, its successor and one
  more; one block, so that the wrong number in a read request does no harm (see
  section 5), and number 0, so that a sync's request meets it; two buffers for two processes and the queue.
* Local files: files up to `MaxSize` 3 bytes with blocks of 2 bytes and index
  blocks of one block, so that positions cross both borders; the disk has fewer
  blocks than two full files need; one byte value, 0 being the fill.
* Network buffers: 4 are one for netin, one for each sender and one for ipout,
  and less than the queues could take. Receive ring: three groups of
  `BOUNDARY`. UDP and ICMP: queues that fill with one packet and two replies.
  A process uses a UDP slot it has registered, and none of another.
* Remote files: `MaxRfSeq` 3 exchanges, at most `MaxRfWire` 2 packets each way
  under way, two tries; one name and two byte values tell an old write from a new
  one.
* TFTP: 2-byte blocks, files of 4 bytes (whose last block is empty) and 5;
  buffers larger and smaller than the file and just its size, in one piece and
  in two with a border inside a block. `TFTP_BLOCKS` is above the number of
  blocks, as 2^16 is for files under 32 MB; a longer file would wrap.
* `CHECK_DEADLOCK FALSE` for `Paging`, `Local`, `Network` and `RdsStaleReply`:
  `Paging` stops at `wild` and when the bounded processes have all ended, the
  others at a bound, after a panic or where their `upset` or wild flags say
  that nothing is modelled any more. `XinuKernel` never stops (a halted processor
  loops: `Halted`), and its runs check for deadlock.

### Fairness

`FairSpec` has weak fairness of the kernel's own steps: with interrupts
disabled nothing else runs, so they follow each other. It has strong fairness of
the clock tick: interrupts may be disabled again and again just when it could be
taken, but an interrupt request stays pending in the 8259 until it is served.
The programs get no fairness: no process has to make a call. `ReadyRuns`
therefore rests on preemption alone, and supposes one priority for all: with two
the code starves the lower, as it means to.

## 4. Proofs

All for every value of the constants: sizes of tables, priorities, delays,
messages, requests, numbers of processes, and programs that make any calls.

### The kernel (`XinuKernelProofs`)

`KernelInv` has seven conjuncts that need each other: `TypeOK`,
`QueuesMatchStates`, `OneCurrent`, `SemaphoreCount`, `FreeSemaphoreEmpty`,
`DeferInLoops` and `Targets` (a continuation names a process or semaphore there
is). `TypeOK` is not inductive alone: `Switch` takes the head of the ready list,
which is a process only if the list is not empty, which holds because the null
process is ready or current (`OneCurrent`) and the list holds what the states
say (`QueuesMatchStates`). That in turn needs each list operation to be given a
process that is, or is not, on the list; that a process to be dispatched is not
in the middle of a loop needs `DeferInLoops`; that `signaln` finds a process to
release needs `SemaphoreCount`; and `semcreate`, which sets the count and takes
the queue of the slot for empty, needs `FreeSemaphoreEmpty`.

The proof first says what a call of `resched` leaves behind (`Scheduled(ps)`),
given the invariant and the process states the caller has set, then what each
kind of action may do besides (`Plain`, `Popped`), and shows for each action
which kind it is. `XinuQueueProofs` has the lemmas on lists: what insertion,
append, removal and taking the head do to "q holds exactly the elements of S,
each once".

Theorems: `KernelInvariant`, `TypesCorrect`, `ListsCorrect`, `OneCurrentAlways`,
`SemaphoresSoundAlways`, `SemaphoreCountAlways`, `FreeSemaphoreAlways`,
`DeferInLoopsAlways`.

### Steps of the kernel and its lists (`XinuStepProofs`)

`StepKinds` says, for any step under `KernelInv`, what it may do to the states,
messages and the number of processes: it is `Quiet` (nothing but a move of one
process and a hand-over of the processor), a receive, a send (`Sends`), a birth,
a death, or the first half of kill (`KillBegins`). Each of the kernel's actions
is shown to be of one kind once; then the theorems on messages, on the diagram
and on the end of the machine are about six kinds of steps instead of all the
actions. `HaltsWithLast` rests on `CountInv`: `prcount` and the kills that have
counted their victim and not removed it yet are together at most the user
processes and the null process (two kills of one victim take it off twice).

The second half is about order. `ReadySorted` needs that inserting keeps a
list sorted by its keys, and that the keys on the ready list are left alone,
which `unsleep` must be shown to do, since the delays of the delta list are in
the same field. `HighestPriorityRuns` adds to it that the key of a process on
the ready list is its priority, which holds only when nothing calls `chprio`:
the theorem assumes `"chprio" \notin Syscalls` (section 5 says what `chprio`
does). `NoOvertaking` is about the position in a semaphore's list, through
appends at the end and removals anywhere.

The last part is about time, `OthersKeepDelay`. What is left of a sleeper's delay
is the sum of the keys up to it on the delta list, and `Delay` adds them up by
recursion. `SumsExist` and `DelaysGiven` (the least place where the claim fails
cannot be) give the function `D` of all these sums, of which only
`D[i] = D[i - 1] + key[q[i]]` is used from there on. Then each operation on the list
is a statement about two such functions: `insertd` puts the newcomer where its
delay falls and takes its share from the next key; `unsleep`, and `getitem` in
kill, hand the key of the one that leaves on to the next; `wakeup` takes off a
head of which nothing is left; a tick lowers all sums by one. The two places where
a sum could be lost give the inductive invariant `DelayInv`: no key is negative
(or `insertd` could step over its place), and nobody's delay is over except in the
loop of `wakeup` (or a tick would be spent on one who should be awake, and the
others would wait longer). The second part is what `recvtime(0)` breaks, so the
theorem assumes that nobody waits for no time; the run `KernelZeroWait` shows
what happens otherwise.

Theorems: `ReceiversSoundAlways`, `MessageKeptAlways`, `ImplementsDiagram` (the
refinement of `ProcessDiagram`, initial states and every step),
`HaltsWithLastAlways`, `ReadySortedAlways`, `HighestPriorityRunsAlways`,
`NoOvertakingAlways`, `OthersKeepDelayAlways`.

### Demand paging (`PagingProofs`)

`TablesAgree` (page tables and frame table say the same) is not inductive alone.
The invariant adds: a present page
has its page table in the directory (`PresentHasTable`), so that the handler,
which tests for the table first, never maps a page twice; living processes have
directories of their own (`OwnDirectory`); a process that is free has no page
and no directory (`FreeHasNothing`); and a process's directory in use that is not the
running process's shows no page (`OthersEmpty`), which is what makes a creator
harmless that goes on with the directory of the process it created. The null process's
directory shows every frame, and the heaps are not private there: `HeapsPrivate` says,
and `NullRefused` is the invariant, that a process with a heap runs on it only after
its own `vcreate` has failed, until `cr3` is loaded. `OneCopy` and
`TablesHoldLiving` are conjuncts too. Which frame is taken is stated as a
relation (`Takes`), so safety needs no proof that there is one.

Theorems: `PagingInvariant`, `TablesAgreeAlways`, `KillReturnsFrames`,
`OneCopyAlways`, `HeapsPrivate`.

### Frames and their contents (`PagingContentsProofs`)

On top of `PagingInv`, three more invariants:

* `OlderOrders`: the order of the ages is total on the FFS frames in use. So
  where no frame is free one of them is the oldest, and `FrameFound` holds; a
  finite set of ordered things has a least one because a set of numbers does.
* `HeapCount`: `available_heap_size` exceeds the number of free frames by what
  processes that ended gave back without having been charged, at most `NFFS`
  each. `HeapCountCovers` follows as long as that fits the counter's word
  (`CountFits`, an assumption of the theorem).
* `Contents` (`Kept` and `Fresh`): what a program wrote last to a page is in its
  frame when it is present, in its swap frame when it is not; a page that is
  clean and has a copy agrees with it. Until something is `lost`, every fault,
  eviction, write, `vfree` and `kill` keeps both, given `OneCopy` and `TablesAgree`:
  each frame has one owner, so a copy into it changes what nobody else reads.

`FirstFits` is about `VmallocScan`, a recursive function over the pages: the
induction theorems cannot be used, so the proof supposes a page at which what
the scan says (`Searching`, `Found`, `NoneBefore`) is wrong, takes the first such
page, and finds that the step before it was already wrong.

Theorems: `FrameFoundAlways`, `HeapCountCoversAlways`, `ReadsBackAlways`,
`SwapCopyFreshAlways`, `FirstFitsAlways`.

### Semaphores as values, and sums (`SemaphoreProofs`)

`SemOf(s, W)`: the count of `s` is below zero by the number of processes queued,
and those are the set `W`, each once. What `wait`, `signal`, removal by a kill and
an empty queue do to that is stated once and used for the mutex of `mark`, the
semaphores of ports, of the console and of the remote disk, and the queue of IP. Buffers, nodes and units are counted by
sums over processes or table entries; that changing one term changes the sum by
the difference is again shown by the least counterexample, over the number of
elements. The lemmas on remainders that rings and ports need (a number kept modulo
`n` moves on by one, or comes round after `n` turns) are here too.

### Marks, ports, buffer pools, heap, console, remote disk (`LocalProofs`)

`MarkedForGood` says that a location for which `mark` returned OK stays marked. It
holds because the semaphore keeps all but one process out of the assignment
(`OneMarks`: the semaphore is free and nobody inside, or one process has it and
the others inside are in its queue, each once); so the count that a process has
read is still the count when it stores it (`CountCurrent`), and the entry it
stores into holds no mark yet (`RestEmpty`). The last two are claimed until a
mark is written behind the table (`overrun`, section 5).

`PortsSound` is not inductive: that a receiver finds a message when it goes on
depends on how many were let through at once, and on whether the port they will
look at is still theirs. `PortsInv` counts, for each port, the processes let
through that will find it unchanged (`RecvDue`, `SendDue`) and says that
they and the units of the two semaphores together are no more than the messages,
or the places, there are. It further says who waits at which semaphore
(`SemsOK`); that a port being cleared is in limbo and belongs to one process,
which finds what it left whenever the processor comes back to it (`CallOK`,
`OneClears`); and that nobody waiting has a sequence number of a port that is
not in use (`QueueOK`), so that a new port under an old number is not mistaken
for the old one. With it, ports implement `PortChannels`: every step of a port is
a step of a channel or a stutter.

`PoolsSound` is proved pool by pool. `PoolIs(n, s, q, k, o, g)` says of pool n, as
values, that the processes in the queue of its semaphore s are inside `getbuf`,
that its list q holds the buffers that are not out, each once, and that the
processes that were let through and the units of s are together no more than
the buffers on q. The second and third are one claim in the run
(`GetterFindsBuffer`); the first is needed because a kill removes a waiter. What
each call does to a pool is a lemma about these values, and `PoolMoves` says that
the other pools are left alone. `PoolMemoryConserved` sums over the pools, whose
number grows (`SumGrows`).

`HeapSound` is about sets of bytes and about a sequence of blocks. `HeapInv` says it
byte by byte: the blocks ascend and stand apart with a gap between neighbours
(`Apart`); a byte of an area is in a free block or in an allocation (`IsFree`,
`InHeld`), and in one only. What the calls do to the list is shown as lemmas on
sequences of blocks alone: a block that shrinks, goes, grows or comes in between
(`BlockShrinks`, `BlockGoes`, `BlockGrows`, `BlockComes`) keeps the list apart and
changes the free bytes by just the block given or taken; two neighbours that have
come to touch become one (`BlocksJoin`). `freemem` is the one of these that fits
the place it finds (`FreedIs`); that it refuses no block that is held is
`HeldFree`, and that it refuses one already free is `FreedTwice`.

`OutputSound` is about a count. What the output buffer has room for is in the
semaphore's units and in the hands of the writers that were let through and have not
stored yet. `OutInv` needs no order of them: up to whole turns of the buffer, the
distance between the indices is `TY_OBUFLEN` less the semaphore's count and less the
number of writes that have begun (`Pending`), whoever waits.

`EditsAsPromised` is a refinement: the console's input implements `LineEditing`, where
what may be read and the line are sequences. Both are cut out of the one buffer, from
its head on and round its end (`Circle`); `InInv` adds where the tail is: behind what
may be read and the line, as long as nothing is spoilt. What may be read is the
semaphore's count and the reads that have begun (`ReadableIs`), whoever waits, so a
unit may be taken at once or by a reader that was let through. The rest is about
pieces of a circle alone: the head moves (`CircleMoves`, `ReadsCircle`), a character
is stored behind a piece (`CircleGrows`, `StoredBehind`) or leaves it
(`CircleBegins`), and what lies before it stays (`CircleStays`). Each kind of
character in `HandleInEdits` is then one operation of the editor. The proof found what
the run could not, as it types no flow control in raw mode: the handler stores
`^S` and `^Q` there like any other character (`ttyhandle_in.c:30-48`), and
`LineEditing`'s `TypeRaw` now lets them be read.

`DiskSound` holds up to the first of the upsets. `RdsIs` orders the copies of a block:
in the cache only the newest can be valid, a request for the block waits neither
beside a valid copy nor behind a write (`RdOrder`), and every valid copy is what was
written last (`CopiesCurrent`); so it does not matter which of them a read finds. A
request that is waited for is the only one of its process, which has no message yet
(`RdAsked`), and what a process was told is still in the cache, with its reference
(`RdTold`). The server has the last write to a block unless a write to it waits, or
the exchange going on brings it (`ServerCurrent`); a reply with the exchange's number
proves that it has been done (`RepliesMean`), so that the end of an exchange is safe
unless the reply is `Stale`. The buffers are counted by the units of the semaphore
and the processes that wait for one or were let through (`RdUnits`).

Theorems: `MarksInvariant`, `MarkedForGoodAlways`, `PortsSoundAlways`,
`ImplementsChannels`, `PoolsSoundAlways`, `HeapSoundAlways`, `OutputSoundAlways`,
`EditsAsPromisedAlways`, `DiskSoundAlways`.

### ARP, IP's output, UDP, ICMP, remote files, Ethernet, TFTP (`NetworkProofs`)

`CacheSound`, for any number of entries, resolvers, hosts and retries, with
messages from elsewhere and kills at any time. The argument is who may take an
entry away: `arp_alloc` takes none that is pending; `arp_in` resolves an entry by
its address and tells the process in it; a last timeout frees an entry by its
index, and that is still the process's own, which is `WaiterOwnsEntry`. A new
entry is made only for an address that has none (`NewEntry`).

`QueueSound`: `ip_enqueue` tests the semaphore's count, not the queue. That keeps
the queue within its array because the count is the number of packets queued but
for the one `ipout` has been let through for and has not taken yet
(`SemCountsPackets`). So only while there is such a one can a full ring pass the test,
and a packet is written over only then: `OutputQueueFits` says so, and `QueueInv` that
`ipout` still finds a packet, which is as far as `Ip` goes.

`EndpointsSound`: as long as no receiver was killed or had its endpoint used by
another (`disturbed`), an endpoint in state `UDP_RECV` and the process in it name
each other (`ReceiversKnown`, `OneReceives`, `NamedReceives`), and registered
endpoints differ in their keys (`KeysDiffer`). That no packet buffer is lost
holds in any case.

`PingsSound`: until more replies than a ring holds have come for a slot since it was
registered, the head of its ring is as far behind the number of replies as
replies are unread, or back at 0 when the last place was taken (`RingOf`). The
code wraps the head at `ICMP_SLOTS` and the tail at `ICMP_QSIZ`; that the claim
holds all the same rests on `ICMP_QSIZ <= ICMP_SLOTS` (8 and 10 in `icmp.h`), an
assumption of the module; it holds of slots that were released too, since a receiver
whose slot was released sets it in use again. Who waits in `icmp_recv` is alone at a
slot that names him, or that holds a reply while there is a message for him
(`PingerKnown`, `WaitAlone`), until a process is killed there, or another takes the
reply or releases the slot before he has run.

`RemoteFilesSound` is about what the server holds between exchanges, and must say
what copies of old requests, still on their way, can do to it. `RfsInv` says, name by
name, that a name about which no exchange is under way is as known, and that no
request on its way changes it (`EntryAtRest`); that one about which there is an
exchange is as known or as the request makes it, and that a reply with the
exchange's number stands for a request that was served (`EntryAsked`). It rests on
four facts: the packets are in the order of their exchanges (`WireOrdered`), so that
a reply to the last request has all earlier requests behind it; a request served
again changes nothing more (`ServedTwice`), and one that was not granted the first
time is not granted then; what is known after a success is what the request
makes of the entry (`KnownServed`); and one process has the mutex (`Mutex`), so
that a kill ends the exchange of the process that is killed.

`RingsSound`, for rings of any size, any boundary that divides the receive ring and
any number of writers. `RxInv` unrolls the receive ring: the frames read, counted by the
handler, arrived, and the descriptors given back are numbers that only grow, and
`rxHead`, `rxTail`, `rdh` and `rdt` their remainders. The numbers are in this order and
less than a turn apart, so each descriptor is the reader's or the adapter's and not
both; the adapter's last descriptor stays a multiple of the boundary, which is why it
never reaches the head although the tail register moves by a whole boundary at once. The
units of `isem` and a `netin` that has been let through are the frames counted and
not read (`IsemIs`). `TxInv` does the same for the transmit ring: cleaned, sent,
filled; the units of `osem`, with those who hold one and have not filled their
descriptor yet, are the descriptors that are clean (`OsemIs`). It is claimed until a
writer has overtaken `ipout` in `ethwrite` (`txraced`, section 5).

`TransferSound`, for files of any size up to the number of block numbers, any list of
buffers, any ports and any number of retries. The invariant (`TfInv`) is that until it
returns the client holds the blocks before the expected one, whole and nothing else
(`Transferring`): the buffers before the current one are full and those behind it
empty (`HoldsIn`), so one more byte of the file in the current buffer is one more byte
of their concatenation (`FlattenGrows`). A block counts only with the expected number,
and as there are no more blocks than numbers the number tells them apart. Storing a
block and concatenating buffers are a recursive function and a fold; what they do to
any block and any buffers is proved by the least block, or number of buffers, for
which it would be wrong.

Theorems: `CacheInvariant`, `CacheSoundAlways`, `QueueSoundAlways`,
`EndpointsSoundAlways`, `PingsSoundAlways`, `RemoteFilesSoundAlways`,
`RingsSoundAlways`, `TransferSoundAlways`.

### Assumptions

The named `ASSUME`s of the modules, which every run evaluates: `TableSizes`,
`PrioRange`, `CallArguments`; `AreaSizes`, `ProcessIds`, `PageContents`,
`FitSizes`; `MarkSizes`, `PortSizes`, `PoolSizes`; `TtySizes`, `RdSizes`, `ArpSizes`, `IpSizes`,
`UdpSizes`, `IcmpSizes`, `RfSizes`, `EthSizes`, `TftpSizes`; `HeapLayout`. They are
true of the code's constants (`NPROC` 100, `NSEM` 100, `QUANTUM` 2; `MAX_FFS_SIZE`
and so on); priorities are positive, as `INITPRIO` and the programs' are; the
callers of ports and of `getbuf`, the readers and writers of the console, the clients of the
remote disk, the senders, the users of UDP and the writers of the
Ethernet device are finitely many, as processes are, and none of them is the model's
mark for "nobody" or for `ipout`. The receive ring is a multiple of the boundary and at
least two of it (`EthSizes`). `tftp.c` refuses buffers of no bytes; that a file
has no more blocks than there are block numbers, 2^16, is an assumption: beyond it an
old block may pass for a new one (`TftpSizes`).

Four theorems assume more, in their statements:

* `HighestPriorityRunsAlways`: no program calls `chprio`.
* `OthersKeepDelayAlways`: `0 \notin Waits`, nobody calls `recvtime(0)` (section 3,
  `KernelZeroWait`).
* `HeapCountCoversAlways`: `CountFits`, that the frames of all the processes ever
  created fit the counter's word; with the code's 4096 frames and a 32-bit
  word that is about a million creations.
* `ReadsBackAlways`, `SwapCopyFreshAlways`: `SomeBytes`, that nobody calls `vmalloc(0)`
  (section 5).

### Only model-checked

Out of the prover's reach: `ReadyRuns` and `SleeperWakes` (liveness under
fairness), and, of `Local`, `FilesSound`, as `Lfs` follows the file system's calls
through RECURSIVE operators. The library's induction theorems cannot be
instantiated either; what a recursive function or a fold computes (the sums along
the delta list, the memory in the free list) is proved by its least counterexample
where it was needed. Everything else that a run checks and finds true is proved;
`OneCurrent` is proved, and checked in no run. The violations of section 3 are
TLC's alone.

## 5. Seen while modelling, without a run

* `chprio` leaves the key of a ready process as it is, so `resched` dispatches by
  the old priority (`resched.c:38` says "highest priority ready process").
* `vfree`'s loop over the FFS frames looks the page up in the swap table, in an
  entry the loop before has cleared: no FFS frame is freed, and the page stays
  present (`vfree.c:138`).
* A full swap space: the frame number is never assigned, and the evicted page is
  copied to wherever it says (`paging.c:287`).
* Clean pages without a copy are copied to the swap space too (`paging.c:194`);
  `project4.pdf` wants only dirty pages copied.
* `available_heap_size` is not charged for a page read back from the swap space
  (`pagefault_handler.c:207`), and `available_swap_size` is charged when the FFS is
  full and not given back by kill (`kill.c:69`).
* `vmalloc(0)` takes a run of free pages and the page behind it (`vmalloc.c:116`).
* A `vcreate` that fails (no priority, no process identifier, no stack) returns without
  loading its caller's page directory again (`vcreate.c:30-38`): the caller goes on with
  that of the null process, which maps all of memory to itself, and until the next load
  its reads and writes of heap pages go to the frames at their own addresses, whoever's
  they are.
* A full page table area: the caller initialises a table at an address never
  assigned (`paging.c:55`).
* `mark` compares the number of marks with `MAXMARK` before its wait for the
  mutex and not after it: processes that wait together write behind the table
  (`mark.c:37`; `overrun` in the model).

Remote disk (`device/rds`), each an `upset` of the model:

* `rdsprocess` never sets the block number of a read request: the server is asked
  for the block of the last write (`rdsprocess.c:42`).
* A block just read is in the cache with its reader's reference and counted as
  available, so the next call passes the semaphore and finds no buffer, which is
  a panic (`rdsprocess.c:101`, `rdsbufalloc.c`).
* Reads and writes search the cache and the queue and then wait for a buffer; what
  they found, or did not, may have changed (`rdswrite.c:63`).
* Of two requests for a block, the second is taken for its reader, and the queue
  is joined to the cache (`rdsprocess.c:105-129`).
* `rdswrite` resets the semaphore to its count less one, which semreset refuses if
  that is negative (`rdswrite.c:63`). `rdsopen` with a bad name leaves the device
  pending; `rdsclose` does not look for a read that waits; a buffer read is never
  marked valid.
* A sync's request has block number 0, "Unused" (`rdscontrol.c:59`). The search of the
  queue in `rdsread`, from its tail, stops at the last request that bears the number of
  the block and takes no notice of one that is no write: behind a sync a write to
  block 0 is not seen. The read goes to the server, and its answer can stay in the
  cache behind the write. The proof of `DiskSound` found this one (`"write hidden"`).

Console (`device/tty`):

* An end-of-file is stored without the wrap of the buffer (`ttyhandle_in.c:158`),
  a newline without the test for a full one; the test for a full buffer does not
  count readers that have been released; a mode set in the middle of a line
  leaves a cursor that counts what may be read already (`spoilt`). `TC_NEXTC`
  reads at the tail instead of the head (`ttycontrol.c:27`).
* The handler takes the count of characters from the semaphore, which includes a
  slot whose writer has been released and has not stored yet
  (`ttyhandle_out.c:57`; `overtaken`).
* After ^S, a character that echoes nothing lets the output go on and does not
  tell the UART (`ttyhandle_in.c:71`; `silently`). The echo queue is written
  without a test for room (`:258`).

Local files (`device/lfs`):

* `lfscreate` writes no identifier, so `lfscheck` refuses its disks.
* `lfsopen` looks for the name and a free pseudo-device before it waits for the
  mutex (`lfsopen.c:46-83`); a new file does not make the directory dirty, so an
  empty one is lost on a restart.
* `lfdballoc` writes the directory with a list of index blocks whose first has
  not been written; the mode of an open file is never checked; `LF_CTL_DEL` is
  declared and not implemented.

Network (`net`) and remote files (`device/rfs`):

* A message of any process ends the wait of `arp_resolve`, which returns OK with
  the address of an entry nobody has filled, or that of another host
  (`arp.c:127`). `arp_init` starts at entry 1; a kill leaves a pending entry for
  ever.
* `icmp_in` puts a reply into a ring without looking for room, and `icmp_recv`
  wraps the ring's head at `ICMP_SLOTS`, not at `ICMP_QSIZ` (`icmp.c:201`): the
  claims about a ring end at its size.
* Between `icmp_in`'s message and the receiver's run the slot is in state `ICMP_USED`
  (`icmp.c:92`), so another process can take the reply, and the receiver takes one from
  an empty ring, or can release the slot, which the receiver then puts back into use
  without registering it (`icmp.c:188`; `icdisturbed`).
* `ip_enqueue` looks for room in the semaphore (`ip.c:453`). When `ipout` is interrupted
  between its wait and its read of the ring (`ip.c:370`, `:371`), a full ring passes:
  a packet is written over, and the one in its place is sent and freed twice (`iqoverrun`).
* `ipout` calls `ethwrite` with interrupts enabled, and a writer can overtake it
  between the tail and the descriptor (`txraced`). The transmit ring has no
  unused descriptor, so a full one looks like an empty one to the adapter.
* `ip_send` (`ip.c:161`, `:170`) and `icmp_send` (`icmp.c:243-245`) return on an
  error without `restore`. A kill loses the network buffer a process holds. A
  checksum's carry is folded once.
* A process killed in a remote file call keeps `rf_mutex`, and every other waits
  for ever. A repeated delete, mkdir or open of a new file reports an error for
  what the first copy did; size does not look at the reply's status
  (`rfscontrol.c:94-103`). `rflwrite.c:58` copies past the end of the name.
* `tftp`: a discarded packet leaves its port as the one the next acknowledgement
  goes to (`tftp.c:59`); an error in sending the last acknowledgement reports a
  failure for a complete file; a buffer list that is full ends the transfer
  without one.
* `dhcp.c` keeps its UDP slot on the returns with an error. `namrepl` counts in a
  `char`, and names may be 256 bytes long (`nammap.c`).

## 6. Plan

Done: `XinuQueues`, `XinuKernel`, `ProcessDiagram`, `VmallocScan`, `FirstFit`,
`Paging`; heap memory, buffer pools, marks and ports; console, remote disk,
local files, remote files; ARP, UDP, ICMP, IP, Ethernet and TFTP; the proofs of
section 4.

Left, in this order:

1. `QueueTable`: the links of `queuetab`, shown to implement `XinuQueues`.
2. Compositions: UDP and Ip over one pool of network buffers; the kernel's
   semaphores under ports.
3. `ttycontrol`'s other calls, cbreak as a mode, `lfscheck`, and the mutexes of the
   local file system on a disk that makes its callers wait.
4. DHCP's and DNS's exchanges on top of `Udp`.

### Not modelled

* DHCP and DNS clients: build a packet, `udp_recv` with a timeout, parse. The
  waits are in `Udp`; what remains is the layout of packets.
* Name space: a table filled at start-up, and a replacement of the first prefix
  that matches; a function of strings without interleaving.
* Device switch: checks a number and calls through a constant table.
* Processor registers, descriptor tables, interrupt dispatch, PCI, the SD card
  driver, the adapter's start-up: sequences of register accesses, whose effect
  the models take as given.
* Start-up, `main`, shell, time of day: applications of what is modelled, or the
  initial states of the models.
* Dumps, address parsing, formatted output, the C library, the configuration
  program: computation and layout without state that outlives a call.
* Older copies of files that are not built.

PROJECT.json lists each with its reason.
