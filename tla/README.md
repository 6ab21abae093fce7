# UIOX kernel: TLA+ specifications

UIOX is a small kernel in the style of Bach's *The Design of the UNIX Operating
System*: one CPU, no preemption inside the kernel, static tables for everything.
These modules specify its process layer, its address spaces, its System V IPC,
its file system calls with the inode cache, and its live patch engine, at the
level of the fields and pointers the C code keeps; TLC checks them on small
instances and TLAPS proves what matters most for every instance. Paths below are relative to
`src/`; `PCS/` stands for `30_KIX/33_PCS/` and `FS/` for `30_KIX/32_FS/`.

## 1. The system

| Part | Source | State it keeps | Operations | Hard behaviour | What makes it correct |
|---|---|---|---|---|---|
| Process table, ready queue, sleep hash | `PCS/40_psa/src/uiox_kix_psa_process.c`, `..._sleep_wakeup.c` | `proc_table` (state, PIDs, priority, wait channel, signals), `p_next`/`p_prev`, `s_runq_head`, the buckets of the sleep hash, `current_proc`, `s_next_pid` | alloc, free, find, set_state, enqueue, dequeue, pick, sleep, wakeup | both queues use one pair of links; refused transitions are ignored; channels share buckets; a wakeup edits the list it walks; PIDs wrap | each queue holds exactly the processes in its state, once, in order; one process has the CPU; the dead stay dead; PIDs are unique |
| Process system calls, signals | `PCS/50_scpcs/src` | fields of the above, dispositions in the u area | fork, exit, wait_pid, kill, raise, sig_procmask, issig/psig on the way out, exec, brk, alarm, pause, nano_sleep, ... | a signal meets a sleeping, dying or dead process; a fork fails half-way; parents die first | a signal reaches a live process and never breaks a queue; entries are reused only after a wait |
| Semaphores | `PCS/00_IPC/src/uiox_kix_sem.c` | 16 sets of values | sem_get, sem_ctl, sem_op | an array blocks in the middle, is reversed, sleeps and restarts; the set changes or goes away meanwhile; signals | all or nothing; no lost wakeup; never negative; a call ends |
| Message queues | `PCS/00_IPC/src/uiox_kix_msg.c` | queues (list, counters, limit), one pool of nodes | msg_get, msg_ctl, msg_snd, msg_rcv | several senders and receivers wait on one address; removal from the middle; the queue is removed while they wait | FIFO by type; pool and counters agree with the list; nobody sleeps needlessly |
| Shared memory, sockets, ptrace | `PCS/00_IPC/src/uiox_kix_{shm,socket,ptrace}.c` | segments and attach entries; descriptors, backlog, buffers | shmget/at/dt/ctl; socket, bind, listen, connect, accept, send, recv | removal while attached; tables that only grow; accept fails after taking the client | memory lives while attached; no connection is lost |
| Priority bands, clock, timers | `PCS/01_schedular/src` | bands of run queues, jiffies, callouts | enqueue, dequeue, readjust, tick | a priority changes while queued | every process is in the band of its priority. Nothing is put on the bands in this build |
| Regions, contexts | `PCS/40_psa/src/uiox_kix_psa_{region,context}.c` | region table with free and active list, reference counts, the pool of page tables, the pregions of each process | alloc, attach, grow, load, dup, detach, free; push/pop context; execve, fork, exit, wait_pid, brk and mmap use them | a fork or execve fails half-way; page tables are recycled; exit detaches nothing | counts equal attachments; a page table has one owner; a failed call leaves no trace; a child maps what its parent does |
| Swapper, faults, pages | `PCS/02_MemMngnt/src` | the ring of free frames; free map of the swap device | page alloc/free; map_alloc/free, swap_in/out, vfault, pfault | a read that fails puts a frame back; a full map; double free | a free frame is mapped by nobody; extents are disjoint. Nothing calls the swapper or the fault handlers in this build |
| Kernel patches | `PCS/06_kpatch/src` | patch table, trampoline pool, kernel text | register, enable, disable, unregister, module load and unload, deinit | a load fails in the middle; the engine is restarted; trampolines are never given back | text is the original or the enabled patch's jump; a trampoline in use runs the original; a module is applied whole or not at all |
| Image signing, fast boot, access control | `PCS/03_ksign`, `PCS/04_fboot`, `PCS/05_sec` | key table, snapshot, policy | verify, restore, check | none: sequential | computation |
| Buffer cache | `FS/00_bcache/src` | buffers, hash queues, free list | getblk, brelse, bread, breada, bwrite | busy buffers, delayed writes, an empty free list | a block has one buffer; busy buffers are not free. In this tree a lookup that misses does not end (section 4) |
| Inodes, names | `FS/01_fsa/src` | inode cache, its free list, the superblock's windows of free numbers, directories | iget, iput, ialloc, ifree, iupdate, bmap, namei, dir_lookup, dir_add, dir_remove | a locked inode makes iget spin; slots are given away and read back; an undo path forgets a count | an inode has one copy; it lives while a name or a reference is left; no call leaves a lock |
| Journal | `FS/02_jrnal/src` | running transaction, log pool, handles | start, get_write_access, dirty_metadata, revoke, stop, scan, replay | crash between writes | only committed transactions are replayed. Commit is not implemented in this tree (`uiox_kix_jrnl.c:245`) |
| File system calls | `FS/10_scfs/src` | file table, descriptors, current directory | open, creat, close, dup, dup2, fcntl, mknod, pipe, link, unlink, rename, mkdir, rmdir, chdir, fchdir, stat, read, write, truncate, mount, ... | a call of several steps fails at any of them; parents and children are resolved apart; descriptors share entries and entries share inodes | names lead to inodes that exist; counts match names and descriptors; a call returns |
| UNFS, NFS, packages | `FS/10_unfs`, `FS/03_netfs`, `FS/04_pkg` | on-disk format, caches | format handling | as the layers above | as the layers above |
| Drivers, protocols, boot, firmware, BSP, user space | `30_KIX/30_DSS`, `30_KIX/34_CSS`, `01_uBoot`, `02_FwHal`, `10_BSP`, `50_UIX` | devices | device I/O | hardware | out of scope |

How they interact. A system call enters through `50_scpcs`' dispatcher, runs in
the kernel without preemption (`splhigh` and `splx` are empty,
`sleep_wakeup.c:100`), and may sleep in `40_psa`, which records a successor taken
from the ready queue. On its way out `signal_run` delivers one signal, which may
end the process. IPC sleeps with `ipc_sleep` and wakes with `ipc_wakeup`
(`uiox_kix_ipc_types.h:153-165`), on the *address* of the queue or semaphore; a
wakeup wakes every sleeper of the address, and each looks again. Page faults
change the priority of the running process. fork, execve, exit and brk change what
a process maps through the regions of `40_psa`, whose page tables take frames
from the ring of `02_MemMngnt`. A file system call resolves paths with `namei`,
holds the inodes it works on locked in the cache of `01_fsa`, and releases each
with `iput`, which frees an inode at its last reference when it has no name.

What is hard to test here is therefore *interleaving at the sleeps*, *shared
links*, *slots that are removed, recycled or re-created while somebody waits or
keeps a reference*, and *partial failure* of calls that take many steps: `PROJECT.json` lists the hazards line by line, with the
property that guards each of them or the reason why none does yet.

## 2. Modules

| Module | What it is |
|---|---|
| `PsaSched` | abstract: a ready queue in priority order, a set of sleepers per channel, the CPU |
| `PsaProc` | `40_psa` and the process system calls, down to the links; implements `PsaSched` |
| `ListLemmas` | induction up to a bound and recursive functions, proved without operator parameters; linked lists over the entries of a table: adding, taking and following |
| `PsaProc_proofs` | theorems about `PsaProc` |
| `SemSet`, `MCSemSet` | one semaphore set and its callers, operation by operation; its instances |
| `SemSet_proofs` | theorems about `SemSet` |
| `MsgFifo` | abstract: a sequence of messages and selection by type |
| `MsgQueue`, `MCMsgQueue` | one message queue with its list and node pool; implements `MsgFifo`; its instances |
| `MsgQueue_proofs` | theorems about `MsgQueue` |
| `KPatch`, `MCKPatch` | the patch engine with its table, the text and the trampoline pool; its instances |
| `KPatch_proofs` | theorems about `KPatch` |
| `InodeCache` | the inode layer as operators: iget, iput, ialloc, ifree, directories, namei |
| `FileRules` | abstract: names, descriptors and the lives of inodes, without cache or counts |
| `FileCalls`, `MCFileCalls` | the file system calls over `InodeCache`; implements `FileRules`; its instances |
| `FileCalls_proofs` | theorems about `FileCalls` and the routines of `InodeCache`: types, locks, descriptors |
| `FileNames_proofs` | theorems about `FileCalls`: the cache, names and link counts, and that it implements `FileRules` |
| `Regions`, `MCRegions` | regions, page tables and frames, and the calls that build address spaces; its instances |
| `Regions_proofs` | theorems about `Regions` |

`PsaSched`, `MsgFifo` and `FileRules` say what the headers promise; they translate
no code. `FileCalls` composes the call layer with `InodeCache`; `Regions` and
`PsaProc` look at the same calls (fork, exit, wait_pid) from the two sides that do
not touch each other's state: a process's memory, and its place in the queues.

### PsaProc

`pstate`, `pid`, `ppid`, `pri`, `wchan`, `sig`, `mask` are fields of the table's
entries, 0 is the null pointer, and `links` holds `p_next` and `p_prev` once per
entry with the two kinds of list head. `SchedEnqueue`, `SchedDequeue`,
`SleepEnqueue` and `SleepDequeue` are the pointer assignments of the code;
`WakeScan` is the loop of `proc_wakeup`, which dequeues and enqueues while it
walks. `SetState` is the transition table, a refused transition changing
nothing, exactly as the callers that discard its result rely on.

Every action is one handler, followed by `SignalRun` where the code returns to
user mode. `current` is the process that runs, `idle` says that there is none:
`proc_sleep` picks a successor itself, but when the queue is empty, or after
`exit`, the source leaves the switch to the arch layer. That part is not in the
tree: `Dispatch` models it from the comments on `sched_pick`, and it is the only
external definition. `exit` is taken not to return to user mode: the source
returns a value that the arch layer would have to ignore.

Simplified: the u area is left out, so a default disposition is a free choice; a
fork that fails because its regions cannot be duplicated is a free choice, too
(`Regions` says when it does);
`recalculate_priority` yields any of `Pris`. Wait channels are the address
shifted by two, as the hash sees it. The model leaves out the swapper, so no
process is in a swapped state.

`SignalSleepers` says whether signals may be sent to a sleeper. It is FALSE in
the run that passes, because `send_signal` breaks the lists when it does that
(finding 1), and nothing else could be checked afterwards.

### SemSet

One slot of `sem_sets`. `sem_op` is not atomic in the model although it is not
preempted: `at[p]` is where p is, `ip[p]` the operation it has come to, `rp[p]`
what remains to be reversed, `cpu` the process inside `sem_op`, and other
processes move only when `cpu` is free. That makes the properties about the
middle of a call expressible. `start` is a history variable: the values at the
beginning of a pass over the array. Both channels of a semaphore are one address,
so `Waked` wakes both kinds of waiters, as the code does. A set that is removed
is re-created in its slot, perhaps smaller; a process that wakes up revalidates
against that, because the code tests only the semaphore numbers after `restart`.

### MsgQueue

One slot of `queues` and the whole pool. A call runs to its end or its next
sleep in one step (nothing can happen in between), and a woken process runs from
the return of `ipc_sleep`. `Chain` is the list one gets by following `next` from
`first`; all pointer assignments of append, unlink and removal are there.
Two variables are history: `evicted` is who was waiting when the queue was removed,
`raised` whether IPC_SET has raised the limit since the sleepers were last woken.
IPC_SET gives the queue any of `NewLimits`, lower or higher than its present limit.

### KPatch

`table` is `s_table` up to `s_count`; `state`, `saved` and `tramp` are fields of
the descriptors; `text[f]` is what the function `f` begins with, its own bytes or
the jump of a patch; `allocs` is the trampoline pool's bookkeeping, each block
holding what its trampoline runs, or `Zeroed` once freed. Blocks are never handed
out again, as in the code, and `top` counts the pool in its 16-byte units.

`DoRegister`, `DoUnregister`, `DoEnable`, `FailEnable` and `DoDisable` are the
operations; direct calls make them in one step. `module_load` and `module_unload`
are followed call by call in `call`: `LoadRegister` and `LoadEnable` alternate,
`LoadDrop` unregisters the patch whose enable failed, and `UndoDisable` and
`UndoUnregister` are the loop that rollback and unload have in common. `before`
is a history variable, the table and the text when the call was made.

Calls do not overlap, which `uiox_kix_kp_patch.h:22-24` demands of callers. An
enable fails only for want of a trampoline: `make_writable` returns 0 on the four
architectures (`uiox_kix_kp_patch.h:7-9`) and the two buffers are large enough,
so the FAULT arms, and with them a rollback that gets stuck, cannot be taken
today and are left out. Patches of two functions are assumed not to overlap in
memory. `EngineInit` is taken only while the engine is down: the code does not
test that, its caller (once, in the boot sequence) does not need it.

### InodeCache and FileCalls

`InodeCache` is the layer as a record that its operators transform: `slot` is
`icache[]`, `list` its free list in order, `disk` the mode and link count of each
inode on the volume, `dirs` the entries of the directories, `win` and `seen` the
superblock's window of free inode numbers and where the search goes on. `iget`
on a locked inode spins (`inode.c:301-302`), and so may `ialloc`'s loop; `spin`
says so, and every later routine of that call leaves the record alone.

`FileCalls` has one action per call, in the order of the code: what is resolved
first, which inodes are held while the next path is walked, where a count
changes, and what each return undoes. The file table, the descriptors and the
current directory are `file`, `ufd` and `cwd`. Whether a directory has room for
an entry, or the volume a block for a new directory, is a free choice at each
call. A call that spins is recorded in `hung`, leaves the state as it found it
and is the last thing that happens: no property is hidden behind it, and
`HangsKnown` says which calls that can be.

The calls run as the owner of everything, so that access checks pass; `stat`
stands for the calls that look up an inode and release it. Left out are contents
and sizes, times, block maps (so read, write and truncate to a length), mounts,
failed disk reads, and link counts near 32767. A path is a sequence of names,
absolute or relative; "." and ".." are not looked up. The device tables (`dev`,
`vfs.c`) have one entry.

`FileRules` is the specification of the calls without any of that machinery: who
has a name, which descriptor is the lowest, and that what is referred to exists.
The refinement mapping computes the inodes that are alive from link counts and
references: `Implements` fails if any path of any call frees an inode too early,
or adds, moves or removes a name that is not the caller's.

### Regions

`mem` is the region table with its free and active list, the pool of page tables
(`table`, `used`), the ring of free frames and every process's pregions. Sizes
are in pages; an entry of a page table is the frame it maps, 0 while it is not
VALID. `Allocreg` ... `Dupreg` are the algorithms of `region.c`; the calls are
loops over them (recursive functions over program headers and slots), with the unwinding
of execve (newest first) and of fork (slot order). A program is the sequence of
its segments: pages in the file, pages of it that can be read, size in memory.

A row of the pool keeps its entries when it is given back, as in the code, so
what a recycled row holds is part of the state. `pgtbl_alloc` has its own bound
test; callers pass what it accepts. Addresses (attachreg checks no overlap),
permissions and COW flags are left out: no loader sets PTE_WRITE, so `dupreg`
never marks a page copy-on-write and no fault handler is called. fork's
`child_ctx_bind` goes through a real context switch in the code; the model takes
from it what it is there for, the pregion table that attachreg fills.

## 3. Runs

| Run | Question | Bounds | Result |
|---|---|---|---|
| `psa_lists` | Are the queues exact, does exactly the running process run, do the dead stay dead, is `PsaSched` implemented? | 3 entries, 2 buckets, channels 1 and 3 (one bucket), 2 priorities, 1 fatal signal | holds, 724 081 states |
| `psa_signal_sleeper` | Is everything on the ready queue READY when sleepers are signalled? | as above, one channel, one priority | violated: finding 1 |
| `sem_ops` | Lost wakeups, all or nothing, negative values, orphans, spinning | 3 processes, 2 semaphores, 4 arrays, values set to 0 or 2 | holds, 249 267 states |
| `sem_zero` | Are waiters for zero woken? | 2 processes | violated: finding 2 |
| `sem_killable` | Does a signal end a blocked call? | 2 processes, weak fairness | violated: finding 3 |
| `msg_queue` | Pool, counters, needless sleepers, is `MsgFifo` implemented? | 3 processes, 3 nodes, limits 4 and 1 set in any order, 3 types, 2 sizes, symmetric processes | holds, 458 407 states |
| `msg_removed` | Does a call on a removed queue end? | 2 processes | violated: finding 4 |
| `kp_modules` | Do text, trampolines and table follow the patches' states, are loads and unloads atomic? | 5 patches of 3 functions, 2 modules of 2, table of 3, 6 slots, 10 pool units, one start | holds, 515 638 states |
| `fs_calls` | Do names, link counts, references, cache and disk agree after every call, which calls never return, is `FileRules` implemented? | 6 inodes, 4 slots, window of 2, names a, d, 3 absolute paths, 2 file table entries, 2 descriptors, at most 3 references, 6 calls | holds, 233 029 states |
| `fs_relative` | Do names lead to inodes that exist, with relative paths? | as above, with a third name and a path of one component relative to the current directory, 4 calls | violated: finding 5 |
| `vm_calls` | Counts, lists, page tables, frames; are address spaces apart, failures undone, children copies? | 3 processes, 5 regions of up to 2 pages, 3 per process, 5 frames, 4 programs, 2 mappings, 6 calls | holds, 369 129 states |
| `vm_stale` | Is a page that execve adds a fresh one? | as above | violated: finding 6 |

Why the bounds are enough. Three table entries are the smallest number with a
list of three, so with a middle entry and two ends; two channels in one bucket
make every wakeup skip somebody; two priorities make insertions go to either end
and behind equals. The PID counter wraps in the run since the table's size is
also its bound, as in the code. Three processes at a semaphore let one release,
one take and one wait; the arrays name two semaphores, one of them twice, and
mix V, P, Z and IPC_NOWAIT. `ValBound` only stops new calls once a value is
above it, so values stay finite. Three nodes fill the pool, and with sizes 1 and
2 and the limits 4 and 1 the queue is full in bytes with free nodes and with none; a
limit that is lowered leaves more bytes queued than it allows, one that is raised
makes room that no sleeping sender is told of. The type
selector -2 asks for the lowest of two types in the presence of a third one, so
that the refinement tells it from "the first" and from "the first of a type".

The patch engine's modules meet each other, and a patch of its own, on two of
the three functions, and five patches compete for three entries, so a load fails
at its first or second patch, for a function that is taken, a full table, or
a pool that runs out by slots or by bytes (a small trampoline and larger ones
make the two happen at different times). `MaxInits` bounds the starts of the
engine to the one of the boot sequence; the properties are false with two
(section 4).

The file system calls start from a root with a file and an empty directory; the paths
are those two and a name in the directory: every call finds its target, finds none, and finds one of the wrong
kind. Four slots for six inodes make the cache give slots away, and run out when
a rename or a link holds three; a window of two numbers overflows. `MaxCalls` is 6: mkdir, a
name in it, its removal, and a descriptor or a current directory that keeps what
was removed. `MaxRef` stops calls that would raise a reference count over 3, because open and chdir
leak references (section 4) and would raise it without end. An open leaves 2, so 3
lets fchdir go to an open directory and a second entry stand for an open file; `MaxTurns`
is how often ialloc's loop may turn before it counts as endless: eight is more
than the window and the volume have numbers. States are identified up to the
slots that hold no referenced inode (`CacheView`): such a slot is read again from
the disk or hit with what the disk says, which is what `CacheFresh`, checked in
the same run, states. The paths are absolute because finding 5 makes `NamesAlive`
false with relative ones.

Five regions let a process of two segments fork and its child fork again, and a process with
three fork only after taking two duplicates back; three slots let
attachreg refuse while regions are free, the case in which execve and mmap
differ. Five frames run out under three processes, in the middle of a segment,
too. The programs load and grow a tail, fail at the second page, are larger than
a region, and fail at their second header. Six calls (`MaxCalls`) let two processes be
born, run different programs, and one of them die and be reaped.

Deadlock is not checked in any of the runs: the calls of the bounded runs come to
an end, the last process may exit, the patch engine may have been shut
down for good, its pool spent, and a system in which every process
sleeps and nobody is left to wake it is a legal, if sad, state of these
mechanisms (a process can wait for a message nobody sends).

Fairness appears only in `SemSet`: weak fairness of the steps of the process that
is inside `sem_op`, that is, the CPU goes on executing. Nothing is assumed about
who gets the CPU next: the kernel does not preempt a process in user mode, so a
runnable process may wait for ever, and no property depends on it. Accordingly
`CpuReleased` and `Killable` speak of the process that has the CPU.

## 4. Findings

1. `send_signal` queues a sleeping process for the CPU while it is linked into
   its sleep bucket (`uiox_kix_scpcs_send_signal.c:52`).
2. A P that takes a value to zero wakes no waiter for zero (`uiox_kix_sem.c:219`).
3. A signal makes a blocked `sem_op` spin for ever instead of ending it
   (`uiox_kix_sem.c:237`, because `proc_sleep` never returns -1 to IPC).
4. A waiter of a removed queue goes on with the queue that has been created in
   its slot (`uiox_kix_msg.c:231`, `:320`).
5. A relative path without a slash is looked up in the current directory and
   changed in the root: rmdir of `a` in `/d` takes `/a` away and frees `/d/a`
   under its name (`uiox_kix_scfs_table.c:280`).
6. A page-table row that is recycled and then grown still maps the frames of its
   last owner, and a page of .bss is such a frame (`uiox_kix_psa_region.c:95`).

Calls that never return are part of what `fs_calls` shows (`HangsKnown`). A rename
within one directory does not: it holds the directory locked and looks the new
parent up, which is the same one (`rename.c:83-87`), so that the branch for two
names of one inode (163-167) is never reached either; nor does one whose new path leads through
the source. A call that allocates an inode spins once
the window hands it the number of an inode that was freed: iput clears the mode
in core only (`inode.c:383-390`, iupdate comes before it), so ialloc finds it in
use on the disk, puts it back and takes it again; and it spins when the cache
has no slot.

Noticed in passing, without a run. *Processes and IPC*: PIDs are given out twice
after the counter has wrapped (`uiox_kix_psa_process.c:70`); IPC_SET raises a queue's
limit and wakes no sender (`uiox_kix_msg.c:169-175`), which `NoStrandedSender` excuses
up to the next message that is sent or taken; the example in the comment at
`uiox_kix_msg.c:265-267` contradicts the sentence before it and the code (3 is
the answer); `scheduler_flag` is set and never read; `wait_incr` and `wait_zero`
are kept and never read; `exit` does not give children to init, so the zombies of
a dead parent stay, and detaches no region, so that the next fork that is given
the slot loses them (it clears the u area); execve never detaches the old image;
an execve refused by attachreg loses the region it had allocated; freereg never
gives frames back to the ring; zero_tail takes a grow that was refused for one
that succeeded if the region has a table; brk returns the old break in either
case, and a shrink followed by a grow shows the old pages again; `MSG_SPACE` and `MSG_ARRIVE` are one address although the
comment above them explains why channels differ; the journal's scan stops at the
first data block, which has no magic number (`uiox_kix_jrnl_recover.c:116`). *Patch engine*: a patch that is registered when the
engine is shut down can, after a second start, be enabled twice, and "restoring"
it writes its own jump back (`uiox_kix_kp_patch.c:118-126`, `:188-199`); the headers promise about 256 enable and disable cycles
(`uiox_kix_kp_mem.h:17`), but the bookkeeping has 128 slots
(`uiox_kix_kp_mem.c:25`); the kernel's init calls `uiox_kp_engine_init`, which in
this tree is a stub (`uiox_kernel_main.c:239`) and not the engine's
`uiox_kix_kp_engine_init`. *File system*: the
first boot does not get past `uiox_fs_populate_root`, which locks the root and then
looks `/bin/uios` up through it (`uiox_fs_populate.c:33-37`); if it did, it would
not raise the root's count for `/bin`, and would free `/bin/uios`, which it leaves with
a count of 0; open keeps namei's reference beside the
file table's (`open.c:97-104`), and chdir to the current directory keeps one
more, so such an inode is never released; rmdir asks only for the link count,
although the comment above says "the entry walk is what actually decides"
(`mkdir.c:173-176`), so files in the directory lose their name without a change
of their count; rename onto a directory has the same gap: its header asks for an
empty target (`rename.c:16-17`) and the code for a link count of 2
(`rename.c:153-155`), so the files of the directory it replaces are lost likewise; O_TRUNC empties a directory; rename removes the target before it
knows that there is room; pipe reports ENOSYS and leaves its descriptors open;
`sb_refill_blocks` returns -1 whenever it is needed (`superblock.c:158`);
ftruncate frees part of an extent twice (`truncate.c:132`, `:321`);
`bcache_hash_lookup` (`getblk.c:107-117`) walks until
a null link, but the hash queues are circular, so a lookup that misses never ends.

## 5. Proofs

All theorems hold for every value of the constants that satisfies the module's
`ParamAssumption` (in `Regions` `RegionAssumption`, in `FileCalls` `CacheAssumption`,
`CallAssumption` and `ImageAssumption`); nothing is assumed beyond what is written here.

**PsaProc** (`PsaProc_proofs`). `RunnerHasCpu` says that nobody but the current
process is in a running state. Its inductive strengthening `StateInv` adds the
types of the states and PIDs and one fact about the program, that no process is
ever USER_RUNNING (the code that would make it so is the arch layer's): from
USER_RUNNING the transition to ZOMBIE is refused, and an exiting process would
keep the state of a runner without the CPU. No fact about the lists is needed:
whatever became of the queues, two processes never run (theorem `OneRunner`), so
the theorem covers `SignalSleepers = TRUE`, too. `TheDeadStayDead` proves the
action property `DeadStayDead` from the same invariant, action by action, by the
transition table (ZOMBIE has no successor) and the choice of fork's entry.

The theorems about the lists assume `~SignalSleepers`: finding 1 is what becomes
of the lists otherwise. `ListInv` says that `links` are lists: for the ready queue
and for each bucket there are a length n and an order s, a function on 1..n, with
`p_next` leading through it and `p_prev` back; the members of the queue are the
READY processes, in order of priority, and those of a bucket the processes asleep
there. Carrying the order along, instead of counting what one meets on a
walk, turns every operation into a statement about one list and the entry it
gets or loses (`Added`, `Dropped`), with the others left as they are because no
process is a member of two. `ListLemmas` has that once for both modules with
lists. `proc_wakeup` is the hard case: its loop holds a pointer across a dequeue
and an enqueue. `ScanRound` follows one turn, and `WakeScanExact` the loop, by induction on
the entries passed. The handlers are then compositions of the operations
(a `...Lists` lemma each), and so are the refinement steps (a `...Sched` lemma each):
the abstract queue and sets are the members of the lists, the abstract order is
the one of the invariant. `CpuRuns` needs the lists, since the CPU is given to
whoever heads the queue: if that process were not READY the transition would be
refused, and the call would go on. `TypeCorrect` adds `NPROC >= 3`:
`s_next_pid` starts at 2 whatever the size of the table, and is in range from
there on only if the table has a third entry.

**SemSet** (`SemSet_proofs`), under the assumption that SETVAL and SETALL are
given no negative values. The inductive invariant `SemInv` is the conjunction of
the type invariant and of

* `Located`: a process in `sem_op` has an array and is at one of its operations;
  only the one that has the CPU is in the middle of a pass, and its array is valid;
* `NoOrphans`: sleepers sleep on semaphores of the set;
* `PassExact`: during a pass every value is the one the pass found plus the net
  effect of the operations applied and not yet reversed, and no partial sum was
  negative. The second half keeps the values natural while going back;
* `ReversedForCause`: a pass of a P that is being reversed found that value too
  low. It connects the middle of the call to the moment it falls asleep;
* `NeverNegative` and `NoLostWakeup`: every step that raises a value wakes the
  sleepers of that semaphore, and any other leaves what a sleeper would find no
  higher.

`AllOrNothing` follows from `PassExact` when nothing is left to reverse. `Net` is
a recursive function; `ListLemmas` derives induction up to a bound and the
recursion equation from the library's well-founded order on finite sets, for
predicates given as sets, since the provers cannot instantiate operator
parameters. The assumption on SETVAL and SETALL is one about callers: the code
takes any value (`uiox_kix_sem.c:115`).

**MsgQueue** (`MsgQueue_proofs`). `ReceiversAwake` proves `NoStrandedReceiver`.
Its inductive invariant adds that a sleeper belongs to a queue that exists, so
that a queue which is created finds nobody asleep; every step that changes the
list or a message wakes everybody, and every other step leaves what a sleeper
would choose as it is.

`QueueInv` is the invariant of the list and the pool: types; `FreeNodesClear`,
a node marked free has a null link and no message (`msg_snd` links a node without
clearing its link, and would append a tail that is not one); `ClosedHoldsNothing`,
a removed queue has given back its nodes; `BytesBounded`; and `Order`, an order of
the nodes as in `ListLemmas`, of which `count` is the length, `bytes` the sum and `last`
the end. From it follow `PoolIsBalanced`, `QueueTypeCorrect` and, the order being
the abstract sequence, `ImplementsFifo`: `ChainIsFrom` and the lemmas after it show
that walking the links yields that order and that the search of `msg_rcv` stops where
the definition by minimum of `MsgFifo` does.

Senders are different, since one step makes room and wakes nobody: IPC_SET with a
higher limit (`uiox_kix_msg.c:169-175`). The history variable `raised` remembers
it until the sleepers are woken, and `SendersAwake` proves, for every `NewLimits`,
that a sender asleep beside room for its message is one that such an IPC_SET
stranded, and that no sender sleeps on a queue that was removed. The argument is
`RaiseNoted`: a step that leaves the sleepers asleep leaves the messages as they
are, and where it raises the limit, `raised` says so.

**KPatch** (`KPatch_proofs`), under the assumption `MaxInits = 1`: the engine is
started once, as the boot sequence does; with a second start the theorems are
false (section 4). The engine's invariant `Core` is the conjunction of its
types, `TextFollowsState`, `CallsReachOriginal`, `TableExact` and

* `StartedOnce`: an engine that is down has an empty table, so nobody enables
  what the table does not list.

The three need each other: enabling saves the function's own bytes because no
other patch of it is on the table, an enabled patch is on the table because
unregister refuses it, and disabling restores the function because what was saved
was its own. Each operation is shown to keep `Core` once (`RegisterCore`,
`UnregisterCore`, ...), and every action of a direct or a module call is one of
them. For the module calls, `DropFailed` says that the patch a load is about to
drop is in the state ERROR, so that dropping it is an unregister like any other.

`ModuleCallsAtomic` proves the action property `ModuleCallAtomic`. `Holding(b, S, T)` is
a call in progress seen from the table and text `b` at its start: the
table lists the patches S besides, those of T are enabled, and the text differs
from the old one at the functions of T only. `CallInv` says which S and T that
is at each step of a load, the patches before the current one, and of its rollback,
those the loop has not come to; an unload has taken those before the current one
off the table. Each operation moves a patch into or
out of S or T (`HoldsRegister`, `HoldsEnable`, ...), and a call returns with both
sets complete or with both empty.

**Regions** (`Regions_proofs`). `RegionInvariant` proves `IInv`: the types of the
process variables and `Exact`, a predicate of the memory with six parts:

* `ListsExact`: the free list is injective, and the active regions are the others;
* `AttachExact`: an attached region is active, has one attachment, a count of 1 and
  the size its pregion caches;
* `RowsExact` and `TabledBut`: the used rows are the tables of the active regions,
  one each, and a region with pages has a table. Hence `RowLeft`, the fact the code
  relies on without saying so: a region without a table leaves a row for it,
  because the regions that have one are fewer than the rows (a pigeonhole);
* `RingExact`: the ring holds no frame twice and none that a row maps, used or not.

The parts need each other. A recycled row still maps its last frames, so
`RingExact` speaks of all rows; a free region may be handed out because
`AttachExact` says that nobody attaches it; and detachreg frees what it detaches
because a count is never more than 1. Every region operation is shown to keep
`Exact` once (`AllocregExact`, `GrowregExact`, `LoadregExact`, `DetachregExact`,
`DupregExact`, ...). In between, `Fresh` describes a region that is allocated and
not attached yet, and `TabledBut(m, r)` one that growreg has sized before
pgtbl_alloc gave it a table. The loops (program headers, slots, the unwinding of
execve and of fork) are recursive functions: `LoopExists` of `ListLemmas` says that
the rounds of such a loop exist when each starts in the states the one before may
end in, and `LoopUpTo` that what every round keeps holds after the last. The
states of a fork after k slots have at most the child's first k slots taken
(`Forking`), so that attachreg always finds one. `RegionTypes`,
`RegionsAreExact`, `TablesAreExact` and `FramesAreHeld` follow from `IInv`
without looking at a step again.

The action properties need what a call leaves alone. `Around(b, m, R, p, S)` says of
an operation that the regions of R and their rows are the same in b as in m, and so
are the slots of all processes but p and those of p in S; each operation has a lemma
that says around what it works: one slot and one region (`GrowregAround`, `LoadregAround`,
`DetachregAround`). That rests on `RowsExact`: a row that is written belongs to one
region. `Beside(m, a, p)` is the same of a call in progress, seen from the memory
a at its start, and says further that the slots p has taken since hold regions
that were not active in a; it goes round the loops as `Exact` does (`LoadingFrom`, `ForkingFrom`,
`Undoing`), and `BesideSpace` reads off what everybody maps. execve keeps the list of the slots it
added equal to the slots taken since; a fork in progress keeps for every slot
of the child that it shows the pages of the parent's (`Twin`), and for the way back
that the regions active since are those of the child, so that a failed fork ends with the
active regions, and by `RowsExact` the rows, it began with.

One fact has to be added to the invariant, `AllPacked`: the slots a process has
taken are the first ones. attachreg fills the lowest empty slot, so the child of a fork
has its regions in the parent's slots only if the parent has no gap; there is
none since only what a failing call added is detached. `SpacesInv` is `IInv` with `AllPacked`.
From it follow `SlotsPacked`, `SpacesIsolated`, `FailuresUndone` and
`ForksCopy`. None depends on how many calls are made: `MaxCalls` is any number.

**FileCalls** (`FileCalls_proofs`). Three theorems hold for every set of paths, absolute
and relative, every image and every size of the cache, of the window and of the
tables: `TypeCorrect`, `LocksAlwaysReleased` and `DescriptorsAlwaysCounted`. Their
invariant is `TypeInv`. The part about the layer is `Good(c, U, L)`: the record c has
its type, the window fits, each slot in U holds an inode, and no slot outside L is
locked unless a routine spins. Every routine of `InodeCache` has a lemma: iget and
namei and ialloc add the slot they return to U and L (`Got`), iput and the unlocking
take it out of L, the others leave both alone. A call begins with the slots
that the tables name as U and nothing as L, and each of its early returns and undo
paths must be shown to end with L empty; whether two of the slots it holds are the
same never matters. The loops are recursive functions: the window collected by
`Refill` (`FillsTyped`), the turns of `Ialloc` and the walk of `Namei`. `Tables` is the
other part: the entries count their descriptors; one lemma each for an entry that is
opened, gains a descriptor or loses one (`TablesOpen`, `TablesDup`, `TablesClose`)
covers the calls, dup2 and pipe as two such steps.

The six theorems of `FileNames_proofs` cover the rest of the layer: `CacheStaysExact`,
`CacheStaysFresh`, `InodesStayHeld`, `NamesStayAlive`, `SubdirsStayCounted` and
`CallsImplementRules`. They have two hypotheses more. No path is relative: finding 5
makes the names wrong otherwise. And the volume at boot is in order
(`ImageAssumption`, which TLC evaluates for the image of the runs): a link for each
name, one name at most for a directory, a link for each subdirectory of one that can
be reached, nothing in or behind what is free. mkfs writes such a volume, a root with
a link count of 2 and no entries but "." and ".." (`unfs_format.c:193-196`,
`namei.c:567`), and what the theorems say of the disk makes any volume such a one
that these calls have made from it. The mount does not check it.

The invariant is `FsInv`: `TypeInv`, and `Book(c, D, t, O, P, X)`, which relates what
no single property does. The disk D and the directories t
are a volume in order, in which the inodes in X have a link to spare beside those of
their names (`Volume`). Slots without references are the free list, no inode is in two slots,
a slot agrees with the disk unless its inode is gone, and the window offers only inodes that
nobody holds and no name leads to (`Kept`). Slot s has at least the P[s] references
that are accounted for, and holds inode O[s] as long as there is one (`Pinned`). Between calls X is
empty and P counts the file table and the current directory (`Pins`). "At least", because
open and chdir keep references that nobody gives back (section 4). Each conjunct
is needed for another: that iput may free an inode needs its links to bound its names;
that iget finds the right slot needs one slot per inode; that ialloc may hand out a number needs
the window's promise, which iput must have kept when it put the number there; that
a slot which is given away was nobody's needs the references of those who hold one.

X is there because the calls pass through states that are not in order: link and
rename raise the count before the name exists, rmdir and unlink clear the name before
the count drops, mkdir has an inode with a link before it has a name. Every routine has a lemma that
takes one book to another, and every call is the composition of its
routines' lemmas, path by path; a path ends with X empty and P no less than what
the tables hold (`Ends`). For the refinement each path says, too, in which of the ways of `FileRules` it
changed the names (`NamesStep`) or the descriptors (`Retabled`), and that slots in
use go on holding the inode they held, so that `NamesAlive` needs no proof of its own:
it is the part of `Volume` that says that names have links.

**Model-checked only.** `HangsKnown`, which lists the calls that may spin: it is about
the order in which a call locks what it may have locked already, and with ialloc about
`MaxTurns`. The books do not follow locks. Liveness (`CpuReleased`, `Killable`) stays with TLC,
the prover having no rules for fairness. What is violated (section 4) is shown by
a run and has no theorem.

## 6. Plan

In this order; each with its MC module, a run and its mutants, and the invariants
as named conjuncts so that they can be proved.

1. `Sockets` and `SharedMemory`: tables that only grow, removal while in use, the
   backlog of a listener.
2. `BufferCache`: the hash queues with their sentinels (a lookup that misses does
   not end), and, behind a lookup as its comment describes it, an abstract cache
   (a block has one buffer, busy or free), under `InodeCache`.
3. `JournalRecovery`: scan and replay as operators, compared with a definition of
   what the log's format says has been committed, over all small logs with a
   crash at any block.
4. Block maps: bmap, the window of free blocks and truncate, with the block that
   is freed twice.
5. `HangsKnown` as a theorem: the books of section 5 with the locks a call holds.

## 7. Not modelled

What the table in section 1 lists and section 2 does not: mostly because it
comes later in the plan. The swapper, vfault, pfault and the priority bands stay
out as long as nothing in the build calls them; the journal writes nothing yet.
Image signing, fast boot, access control, drivers,
protocols, boot loader, firmware and user space will stay out: they compute or
move bytes, one caller at a time, and a unit test reaches what can go wrong.
