# Formal models of the cs644 programs

This directory holds TLA+ models of the programs of the CS644 course repository
(`src/`), the TLC configurations that check them on small instances, and proofs
about them checked by TLAPS.  The repository is not one program but a collection
of about a hundred small ones, in C (`archive/2025-001-spring`,
`archive/2025-002-fall`, in many places the same program twice) and in Python
(`week1` .. `week4`, `utils`).  Each component below is one program, or a few
programs around one idea; components do not call each other, except through the
helper library `cs644.c`.  What makes them hard is the operating system: processes
that share memory, files, pipes and locks, that may be killed between any two
system calls, and a machine that may crash.

## Inventory

| component | state | operations | interaction | what is hard | what makes it correct |
|---|---|---|---|---|---|
| shared-memory ring buffer (`week5/solutions/ringbuffer.c`) | 4092 byte slots, two indices, one semaphore, two names in the file system | create, open, destroy, lock, unlock, acquire for reading/writing, read, write | one producer and any number of consumers share memory under a semaphore | interleavings, a killed lock holder, index wrap, names reused by a later producer | a bounded FIFO of N-1 bytes, each byte read once, mutual exclusion; handles that match |
| write-ahead logged file (`fall/week3/solutions/files-are-hard.c`) | a file, its log, the directory that names them; each in the page cache and on disk | save, recover, read-log, corrupt | the file system; a program that runs after a crash | crash between any two calls, order in which data reach the disk, failing calls | a write is whole or absent, and stays once save or recover has returned |
| key-value log database (`spring/final/db/main.c`) | one file of fixed-size blocks, an flock | get, set | processes on one file | a process killed between the two writes of a set, crash, a new file whose directory is never synced, lock never given back | get gives the last completed set or fails; what set wrote stays |
| heartbeat log and rotation (`spring/final/http/main.c`) | `http.log`, `http.1.log` .. `http.5.log`, an flock on the current file | append, count, rotate | a server that appends, readers that count, rotators that take no lock | rename while others have the file open, two rotators, a rotator killed half way | names sorted by age, only the oldest file lost, a count of whole lines |
| capturing a command's output (`week4/pipe_fork.py`, `fall/week5/solutions/pyfork.py`) | a pipe, two processes | fork, exec, read to the end, wait | parent and child through a pipe of bounded capacity | who waits for whom, ends left open | all output, always returns |
| buffered line reading (`week1/line_by_line.py`, `week2/solutions/line-by-line.c`) | a buffer, a file offset | read_line | the file system | newlines at buffer ends, last line | the lines of the file |
| epoll server (`fall/week9/epoll_server.c`) | listening socket, clients, self-pipe | accept, read, write, close, stop on SIGTERM | clients, the kernel's event list, a signal handler | stale events, partial writes, errors of one client ending the server | echoed bytes in order, stops when told |
| io_uring cat (`fall/week9/cat_io_uring.c`, `cat_liburing.c`) | submission and completion rings | submit, reap, print | the kernel, asynchronously | memory order, errors and short reads among the completions | each file once, in order |
| largest files (`fall/lib/cs644_topfiles.c`, `fall/week9/bigfiles_naive.c`) | sorted list of bounded length | insert while walking a tree | file system | the list at capacity | the n largest files |
| simultaneous writers (`spring/week3/simultaneous-with-locking.c`, `week2/solutions/simultaneous.c`, `week1/simultaneous.py`, `utils/lib.py`) | a file filled with one character, an flock; a wait point | write the block, read it and check that it is one character | writers and readers, several processes; a parent that waits | a read that overlaps a write or a truncation, a read before the first write, a writer that stops | with the lock no reader sees a half-written block; both processes end |
| shared-memory examples (`spring/week5/shm_example.c`, `fall/week5/in-class-example.c`) | an array and a semaphore under two names | create, increment, compare, unlink | writers that come one after the other, readers | names reused by a later writer, a killed holder | the reader sees a whole round, in memory that is there |
| FIFO server and pipe edge cases (`week4/myfifo.py`, `pipe_edge_cases.py`) | a named pipe | open, read lines, exit on a command | any number of writers | end of file when the last writer leaves, lines of several writers | the server hears "exit"; a pipe is filled as far as its pages go |
| socket examples (`week4/uds_*.py`, `week6`) | sockets | bind, accept, receive, answer, shut down | client and server, kills and restarts | closes, clients that leave, lost datagrams, address lengths never set | each client gets its own answer, or there is a cause |
| thread examples (`week7`) | mutexes, counters | lock, unlock, join | threads | lock order, a thread that ends with a lock | the programs end, but for the one that may deadlock |
| signal examples (`week8`, `week9/solutions`) | handlers, pending sets, masks | install, block, suspend, deliver | a user, the kernel, fork and exec | merged signals, a signal just before a wait | a blocked signal is kept and handled once; the programs end on their signals |
| directory tree tools (`week1/duplicate.py`, `week2`, `cp.c`, `rmrf.c`, `getdents-atomic.c`, `utils/make_tree.py`) | a directory tree, open descriptors | copy, remove, list | other processes changing the tree | links swapped in, short writes, a copy into itself, modes | copies are complete; only what is inside the tree is touched |
| C helper library (`lib/cs644.c`) | strings and vectors of strings | append, split, bail, read a file | everything in C | capacities, ends of strings | as their reference definitions |
| exec helpers (`week4/solutions/execs.c`, `forkexec.c`, `mytime.c`, `week3/run.py`) | argument vectors, a child | exec variants, wait | parent and child | search in PATH, failed exec | the command runs once |
| administration, syntax demonstrations, dotfiles, build files | none | | | | |

The hazards, each at the line where it bites, are in `PROJECT.json`.

## Plan

Order, most important behaviour first.  Done:

1. `BoundedFifo`, `RingBuffer`, `RingBuffer_proofs`, `RingBufferLifecycle`.
2. `AtomicFile`, `LoggedFile`, `LoggedFile_proofs`.
3. `KvLog`, `KvLog_proofs`.
4. `CaptureOutput`.
5. `LogRotate`, `LogRotate_proofs`.
6. `Lines`, `LineReader`, `LineSeek`.
7. `TopFiles`.
8. `EpollServer`.
9. `IoUringCat`.
10. `SharedBlock`, `ShmExample`.
11. `Fifo`, `PipePages`.
12. `Threads`.
13. `Signals`.
14. `TreeCopy`, `TreeRemove`.
15. `Streams`, `Datagrams`.
16. The sums `MCSharing`, `MCProcesses`, `MCFiles` and `MCSockets`, and proofs about the programs in
    each of them: `Sharing_proofs`, `Processes_proofs`, `Files_proofs` and `Sockets_proofs`.

Left for later, the three parts with least that could go wrong:

17. The buffer of directory entries of `getdents-atomic.c`.
18. `StrVec`: the string and vector helpers of `cs644.c` against reference definitions.
19. `ForkExec`: exec variants, a failed exec in the child, waiting.

Abstract specifications: `BoundedFifo` (implemented by `RingBuffer`),
`AtomicFile` (implemented by `LoggedFile`) and `Lines` (implemented by `LineReader` and
`LineSeek`); that each is implemented is proved.

## How the runs are put together

The programs are small and do not talk to each other, so several of them share a run.  The
module of such a run (`MCSharing`, `MCProcesses`, `MCFiles`, `MCSockets`) extends one
specification, instantiates the others with variables of its own, and has a variable `running`
that says from the start which of them takes steps; the variables of the others stay in one
initial state.  Its behaviours are thus exactly those of the single specifications, and its
fairness is that of each; a property of a program that is not a plain invariant is asked only of
the behaviours in which that program runs.

| run | program | variants |
|---|---|---|
| `ring` | `RingBuffer` | |
| `sharing` | `RingBufferLifecycle`, `ShmExample`, `SharedBlock` | three programs in the last |
| `logged` | `LoggedFile` | |
| `kv` | `KvLog` | |
| `processes` | `CaptureOutput`, `PipePages`, `Fifo`, `Signals`, `Threads` | 2, 3, 1, 10, 5 |
| `rotate` | `LogRotate` | |
| `files` | `IoUringCat`, `TopFiles`, `LineReader`, `LineSeek`, `TreeCopy`, `TreeRemove` | 2, 1, 1, 1, 2, 4 |
| `sockets` | `EpollServer`, `Streams`, `Datagrams` | 1, 4, 2 |
| `capture_stuck`, `rotate_short`, `lines_c_nul`, `copy_readonly` | expected to fail, each with one property | |

Where the fall and the spring directory hold the same program, one definition models both, and
`PROJECT.json` maps some of the definitions to one version and some to the other.

## The models

### RingBuffer, BoundedFifo

`RingBuffer` models the fall version's `ringbuffer.c` after creation.  One action is
one access to the shared memory or one semaphore call; `pc[p]` says where process p
is in `ring_buffer_read` or `ring_buffer_write`.

| action | code |
|---|---|
| `Lock`, `Unlock`, `Retry` | `sem_wait`, `sem_post`, the `sem_post` before `continue` |
| `AcquireRead`, `AcquireWrite` | the loop bodies of the two acquire functions |
| `Copy`, `AdvanceRead`, `PrintByte` | `ring_buffer_read` and the consumer's `printf` |
| `Store`, `AdvanceWrite` | `ring_buffer_write`; the producer writes `Input`, `TOTAL` bytes (0 .. N-1 over and over in the code) |
| `Kill` | a signal ends a process; the semaphore keeps its value |

The loads of the two indices in an acquire function and the read-modify-write of an
index are one action each: both happen under the semaphore, and `LockInv`, which
does not depend on that, says nobody else is there.

The run `ring` (N = 3, two rounds, two consumers, any process killed at any point) checks
mutual exclusion, the contents of the slots, that what was found under the lock is still true
when it is used, that each byte is printed once, that the buffer implements `BoundedFifo`,
and that every byte is finally taken and printed as long as the producer and some consumer live
and nobody died with the semaphore in hand.
With N = 3 the indices wrap four times over and the buffer gets both full and empty.  The
program sends 0 .. N-1 over and over; the run sends bytes that change from one round to the
next, so that a slot left over from the round before is noticed.

Fairness: weak for each step of a process, strong for `Lock`.  The acquire loops release the
semaphore and take it at once again for as long as they find nothing, so under weak
fairness one process might starve another for good; POSIX does not promise that a
waiter gets through, but a scheduler that runs every process does so in practice, and
the code's comments ("to give writers a chance to make progress") rely on it.

A process killed between `sem_wait` and `sem_post` leaves the semaphore at zero and
everybody else waits forever; `AllDelivered` is therefore only claimed of behaviours in
which that does not happen (`NobodyInTheWay`).

### RingBufferLifecycle

The two names `MEM` and `SEM`, and what producers that come one after the other (or
at once) and consumers find under them.  Actions: the three steps of
`ring_buffer_create`, the two of `ring_buffer_open`, the two of `ring_buffer_destroy`,
lock, access, unlock, and `Kill`.  A memory object and a semaphore are named after the
producer that created them.  Touching memory that has not been given its size is a
SIGBUS (`Access`).  The run `sharing` has three producers and two consumers: three
are needed for a memory orphaned by the second to meet a third.  What it shows: a
producer owns both names from create to destroy; a consumer gets memory and semaphore
of different producers only if a destroy has begun, and only then may two processes be
inside the same memory; a consumer with a matching pair never faults.

### ShmExample

The spring's `shm_example.c`: a writer creates memory and semaphore, increments every byte of the
array under the semaphore, and at the end unlinks the semaphore and then the memory, the opposite
order; a reader opens both and compares all bytes with the first.  Two writers one after the
other and a reader are enough for the reader to pair the memory of one with the semaphore of the
next.  `ReaderSeesWhole` (run `sharing`): it never sees a partial increment or memory without a
size, whoever is killed.  This hangs on the order of the two unlinks: when the next writer can
create the memory's name, the old semaphore is already gone and the new one comes after its own
`ftruncate`.  The number of rounds is left open, bytes are counted modulo two.

### SharedBlock

`simultaneous.c` (no lock), `simultaneous-with-locking.c` and `simultaneous.py`, which has no lock
but a wait point (an eventfd) between the first write and the first read.  `write` and `read` go
byte by byte; writes and truncations of one file exclude each other in the kernel, reads run
beside them.  A write may fail or be cut short, and any process may be killed (one such fault).
The run `sharing` has two writers and a reader with blocks of one or two bytes, which need not be
the same for all.  What it shows:

* with the lock a reader detects a partial write only after a write was cut short, or when the
  processes were started with different sizes; that the file is truncated at open, before
  the lock is taken, does no harm (an empty file passes the check);
* a reader that has passed the wait point gets a full block, as `simultaneous.py` asserts,
  unless a write was cut short (it may be a mixed one);
* both processes of `simultaneous.py` end if there is a round to be done and the writer gets as far
  as the mark; otherwise the reader waits for ever on the eventfd.

Without the lock nothing is claimed: the program is there to show partial writes.
Fairness: weak for each process.  `flock` gives no order among those that wait, and none is needed.

### LoggedFile, AtomicFile

`LoggedFile` models `save` and `recover` call by call, and keeps beside what a process
sees (the page cache) what a crash may leave on disk: for each byte of the file a set of values,
for both directory entries a set of possibilities, and for each log how much of it is certain.
`fsync` of a file or of its directory makes one of these certain.
Assumptions: one `write` to the log is kept or lost as a whole (a few bytes within a
sector), bytes written to the file are kept or lost one by one; one command runs at a
time; the offsets written are inside the file.

The run `logged` (two saves of three possible, overlapping ones, two crashes, one failing call)
shows that, as long as no call has failed, the model implements `AtomicFile`: the file as
`recover` would leave it is always one that whole saves produced, and a crash goes back at most
to a content since the last acknowledgement.  It may go back: neither `save` nor `recover` syncs
the directory entry of a newly created FILE before the unlink of the log is on its way, so a
crash between these two leaves neither (this is before `save` returned).  Also after a failing
call, a command which ends well has made the write durable and the log gone.

Two things the program does not do are hazards in `PROJECT.json`.  `recover` applies a log that it
finds in the page cache and that a failed `save` may never have synced, so that a crash in
`recover` may find half of the write in FILE and no log; this is why `IsAtomicFile` ends at the
first failing call.  And a log with nothing after its two numbers is taken for no log at all:
`recover` leaves it in place and every later `save` fails on `O_EXCL`.

### KvLog

One file as a sequence of bytes, one process per command.  `set` writes the key field and
the value field with two calls under an flock and syncs before it unlocks; `get` reads
block by block.  A kill or a crash may come between any two calls; a crash cuts the file
back to the end of some write since the last sync.  The first command may find the file or create it:
`dirEntry` says whether its name is in the directory on disk.  `dbfile_close` syncs the file and never
the directory, so that a crash may lose a new file with everything in it (`FileLost`), also
after a `set` has returned; it may as well have been written in time (`Survives`).

The run `kv`: three commands, one kill, one crash, keys of one character and values of two (a key
too long, an empty value and a value too long among them).  A `get` that answers gives the last
completed set; a torn set makes gets fail, never answer wrongly; what a set had written when it
returned is never taken back, but for the loss of a whole new file (`DurableSet` says exactly
this, and that nothing else takes anything back: no kill, no torn append, no other command, no
crash once the directory is on disk).  The bounds matter here: blocks misread because the file is out of
step are only accepted when its length is a multiple of the block size again, which with the real
sizes takes 4102 torn sets; the instance allows fewer than it would need (`TornAssumption`).
Every command ends, because the lock of a killed process is released by the
kernel.  Fairness: weak for the steps of a process, strong for `flock`, whose waiters the kernel wakes.

### CaptureOutput

A pipe of bounded capacity between parent and child, bytes counted.  `readFirst`, chosen at the
start, selects `pipe_fork.py` (reads to the end, then waits) or `pyfork.py` (waits, then reads).
The run `processes` has both, with up to five bytes through a pipe of two: the whole output is
captured, the child is reaped, no descriptor is left open, and the function ends if it reads
first or the output fits.
`capture_stuck` (expected to fail): waiting first hangs when it does not fit.
Fairness: both processes are scheduled and the command does end; a signal need not come.
A command that leaves a child of its own holding the pipe open is not modelled.

### PipePages

How much a pipe holds that nobody reads: `write_atomic` and `write_limit` of
`pipe_edge_cases.py` and `pipebuffer.c`.  The pipe is what Linux makes of it, a ring of pages (the
one part of this module that is not in `src/`): a write puts its remainder behind the last
page's bytes if it fits there, and the rest into new pages.  With that the model explains the
TODO of `write_atomic` (why the eleventh write of 5000 bytes blocks): two such writes need three
pages of the sixteen.  Run `processes`, at a smaller scale with the same proportions: nine
pages of eight bytes, writes of ten, where five or six fit and the seventh waits, and writes of
one and two, which fill the pipe to the last byte.
Fairness: every process runs when it can.

### Fifo

`myfifo.py`: the server opens the FIFO, reads to the end of file, opens it again, until a read
returns exactly `exit`.  It never closes a descriptor, so after the first round there is always a
reader, and writers need not wait for an open; and its descriptors may run out (two in the run).
Three commands write one line each.  `ExitHeard` (run `processes`): when all writers are done and
one of them wrote `exit`, the server ends, except when the line was read together with another
one, or when its writer came and went between two opens of the server, which then waits for one
more writer.  Both exceptions do happen.
Fairness: the server runs, and a command that was started goes on; the server may be killed.

### Signals

The signal examples of both years, each a list of the calls it makes, interpreted with the kernel's
rules: pending signals as a set, masks, delivery before the next instruction with the lowest number
first, the mask of a handler, `sigsuspend` and `pause` that end when a handler has run, what
`fork` and `execve` keep.  A user sends each of three signals up to twice, types lines or ends the
input at any time, also when the program did not ask for it (`late`).  `sig_fork` and
`sig_pre_exec` exist in two versions: in the fall the process raises the signal itself, in the
spring it waits for the user.  Run `processes`:

* `SignalsKept`: a signal sent at the prompt, once or twice, is handled exactly once; two
  different pending signals are both handled though `sigsuspend` waits for one; no handler interrupts
  itself; and the answers that `sig_fork` and `sig_post_exec` print are those of the manual;
* `SignalledEnds`: SIGTERM ends every program, also the loop on a signalfd while its input is at an
  end and always ready; a program that blocks a signal before it suspends ends once that is
  pending; `sigcatch`, which calls `pause`, may have handled it before the wait.

Fairness: the process runs; nothing obliges the user.

### Threads

The five thread programs as lists of calls of the main thread and the other one; two rounds of the
loops of `deadlock.c` (100 in the code).  `EndsOrCycle` (run `processes`): every program ends, with
its thread finished if it joins it and every lock free but the one that `lock_n_exit.c` leaves
locked; or else, only in `deadlock.c`, both threads wait for each other.
Fairness: both threads are scheduled.

### LogRotate

Files are inodes, each a sequence of bytes (a newline or not), and `names` maps the six names to
inodes.  Writers (`append_to_log`) and counters (`count_log_lines`) open a name and keep
the inode, take its flock and give it back; rotations (`rotate_logs`) unlink the
last name and rename the others upwards, one system call at a time, without a lock.
The run `rotate` has two writers, a counter and two rotators.  To keep it small each behaviour has a
budget: either three lines, a rotation, a kill and a short write, or no line, five rotations and three kills.
Names stay sorted by age, also when rotations overlap or stop half way; as long as no two have
overlapped only the oldest file is dropped; and a count lies between the lines its file had when it was
opened and those it has at the end, whatever name it has by then.  Four names (`KEEP` 3; 5 in
the code) are enough for a rename onto the last, between two others, and of the current file.
`rotate_short` (expected to fail): `append_to_log` does not compare what `write` returned with what
it asked for, so a write cut short leaves the file without the newline that `count_log_lines`
relies on.  A writer that opened the file before a rotation goes on in the renamed one.  The text
of a line and the time in it are not modelled.

### LineReader, LineSeek, Lines

`Lines` says what reading line by line promises, with the newlines (`keepends`) or without.  `LineReader` is the Python class, which keeps what it
read too much, and `LineSeek` the C function, which seeks back; `read` may return
less than asked for in both.  The run `files` starts both from every file of at most five
bytes with reads of at most two and three: newlines at every place in the buffer, lines
longer than a read, several in one, none at the end, an empty file.  `lines_c_nul` (expected to
fail): the last line of a file without a newline at its end is returned without a
NUL, because `build_line` returns before it sets one.
`LinesOfFile` says that both implement `Lines`, `ToolsEnd` among other things that they get to the end.
Fairness: the program runs.

### TopFiles

The sorted list of `cs644_topfiles.c`, filled with files of any sizes in any order.
`topfiles_list_max_size` reads the entry behind the last one; that is a choice among
`Garbage` values in the model (smaller than every file, between, larger).  The run `files`
has three slots and five files of four sizes: the list is sorted, ties in the order the files were met, and
holds the largest of the files inserted.  Which files are inserted depends on the garbage; so
nothing is claimed of all files met.

### EpollServer

One thread, its epoll set as a function of the state (`Ready`: level-triggered events), and clients whose
TCP connections may be shut down, closed and reset.  Actions of the server follow
the code from call to call: `EpollWait`, one `Handle` per kind of event, `Accept`, `Read`,
`Write` and their other outcomes.  An event carries the connection it was reported for, which
the code does not know, so that `EventsFresh` can compare.  `Sigterm` sets the pipe readable
at any time; a signal in `epoll_wait` only makes it start again.
`accept4` reserves a descriptor before it looks at the backlog.  So when all are given away its
next call, which the loop makes until it gets `EAGAIN`, fails with `EMFILE` even if nobody waits, and the
server ends (`AcceptFails`): it can serve one connection less than it has descriptors.
The run `sockets`: two clients with two descriptors or three (one is reused, or the last is given
away and the server ends), three blocks in all, reads of two and room for one on the way back (writes are cut short and fail).  What
it shows: descriptors closed and reused within a batch of events are not mistaken; what is
echoed is in order, with gaps only after a short write; and what can end the server: a
single client that resets or does not read, or the last descriptor given away.  Every block comes back to a client that has not said
it will send no more and to which no write was cut short, and SIGTERM ends the server.
Fairness: weak for the server's thread; nothing of clients or signals.  A client that never
stops sending would keep the server in its read loop; the bound on blocks leaves that out.

### IoUringCat

Both programs' use of the rings, with indices modulo `WRAP` (2^32 in the code) and the
kernel completing requests at any time, with any result: all blocks, fewer, or an error.
The run `files` (either program): five files wrap indices modulo four.  Files are printed in order, once, and
only after their own read; the rings never overflow in the program that works on them itself;
every file is printed unless a read fails.  After a failed read `cat_io_uring.c` looks at
the same completion for ever, and `cat_liburing.c` gets it again for every later file;
`FilesPrinted` says only that the second one ends.  Fairness: the program runs, and the
kernel completes what it was given.

### TreeCopy

`copytree.py` with `duplicate`, and `cp.c`.  The file system is a function from paths to
directories, files, links and pipes with a read-only bit, the calls of the recursive functions are
a stack.  The user is not root.  A write of `duplicate` may be short, which the code does not
look at; `cp.c` opens two descriptors for each directory and closes none, and two for a file, which it
closes.  Run `files`: a
directory with a file and another directory in it, that with a file and a link or a pipe; copied
to a new place, over an existing directory and to two places inside itself, with and without
`dry_run` and `copy_permissions`, paths of up to five names and eight descriptors; and a directory
with more directories in it than `cp.c` has descriptors for (`Wide`).  These are constants
of `MCFiles`; of any other file system `SystemsAssumption` asks that the nodes above a node are
directories, that what is copied is a directory, and that only regular files have data.
`CopiesAll`: a copy that ends well holds every directory, file and (copytree) link of the source
and nothing else new, with the same bytes unless a write was short, with the same modes if they
were asked for; `copytree` returns the bytes of all regular files (`cp.c` counts none); a dry run
creates nothing.  `KeepsExisting`: nothing that was there is changed.  `EndsWithCause` (part of `ToolsEnd`): the copy ends, and fails only
if something is at a path where it would put an entry, if it is not allowed to create an entry in a directory
whose mode it has copied, and `cp.c` for a pipe in the source or for too many directories and files for its descriptors; a
copy to a new place inside the source never ends well.  The destination itself, which `cp.c`
demands, is no such cause.
The comment at `cp.c:32` has `cp_dir(foo, bar)` copy `foo/` to `bar/foo/`.  The code does not: it
puts the contents of `foo` into `bar` itself, as `main` says when it starts (`cp.c:94`), and so does
the model (`Moved`); see "Where comments and code disagree".
`copy_readonly` (expected to fail): `copytree` sets the mode of a directory before it creates the
entries, so with permissions copied a read-only directory makes the copy fail.

### TreeRemove

The three versions of `rmtree` and `rmrf.c`.  A directory maps names to what they refer to, so
that a path is resolved, links followed, by every call of the versions that use paths; the safe
version keeps descriptors of directories, and uses a path twice only: to open its argument, and for
the last `rmdir`.  The argument is a path of several names (`Path`; two in the run), and
another process may put a file or a link to a directory outside (`Outside`) in any directory of the tree or
above it, in the place of what was there, the directories on the way to the argument included.  `opened` is
a history variable: which directory the argument led to when it was opened.  The trees removed
(`TreesAssumption` of `MCFiles`) are trees: no directory below the argument is the root or one outside.
Run `files`, with one such change at any moment: an argument that is a directory, a file or a link, with an
entry that is a directory or a link and another that is a file or a pipe; and outside a
directory with an empty directory, or one that is not empty, of the argument's last name.

`KeepsOutside` (with `KeepsExisting` it is `KeepsOthers`) has two parts:

* if nobody interferes and no link leads to the argument, nothing outside is removed, by the first
  version if also no link is in the tree;
* whatever the other process does, the safe version leaves everything outside as it was until its
  last call.  That call resolves the path again, and may then remove one empty
  directory outside that has the argument's last name: the flaw that the comment at
  `rmtree_v3_safe.py:40-43` owns up to.  It does happen in the run, when a directory above the argument has been
  replaced by a link; in the last component of a path `rmdir` follows none.  This is
  said of removals whose argument led into the tree when it was opened: `O_NOFOLLOW` looks at the
  last name only (:34-36), and if a link above it leads outside by then, the tree removed is the
  one outside.

`EndsRemoved` (part of `ToolsEnd`): removals end, complete when they end well, and fail only
for the causes listed there.
`rmtree_v3_safe.py` ends its main block with a call of `rmtree_v3` (:100), a name that it does not
define; the model is of the function that is defined.
Fairness: the remover runs.

### Streams

`uds_server.py`, `hello_conn.c` and `hello_conn_tcp.c`, which serve one connection after the other, and
`close_shutdown.c` and `connect_bind.c`, which fork a server and a client.  An address may be free, in
use, left behind by a server that was killed (a path), or occupied for some time by past
connections (a port).  `hello_conn.c` does not set `addrlen`, so its `accept` may fail.  Run
`sockets`: three clients, one kill of a client or the server, one restart.
`AnswersUnlessCause`: a client that was let in gets its own answer, unless it or the server was
killed, or `accept` failed, or (Unix sockets) another client went away before its answer, which
ends the server with an exception, also if it never sent anything: `uds_server.py` sends its answer,
empty then, all the same (:28-29).  The exception removes the path, and a killed server does not, so
it cannot be started again.  `ClientsEnd`: every client ends, also one behind a client that was killed;
the server of `close_shutdown.c` ends unless its client came before it listened.
Fairness: server and clients run when they can.

### Datagrams

`rot13_udp.c`, whose server answers clients, and `recv.c`, whose client sends letters and then a message
longer than the server's buffer.  Any datagram may be lost.  The server of `rot13_udp.c` passes an
`addrlen` that nothing set: the length may be right, zero (then `src_addr` keeps what it held) or
negative (`recvfrom` fails), each time anew.  Run `sockets`, two clients, three letters of the eleven.
`OwnAnswers`: if the lengths were right, what comes to a client is the answer to its own
message, once; each datagram of `recv.c` is received by a call of its own, cut to the buffer, in
order if none is lost.  `AllAnswered`: every client is answered, or a datagram was lost, after which nobody
sends again, or a length was not right.
Fairness: the processes run when they can.

## Proofs

Eight modules prove what the runs check, for every value of the constants that the named
assumptions allow.  Each theorem rests on an inductive invariant, most of them stronger than the
property; what was added, and why, is said here.

### RingBuffer_proofs

For every N >= 1, every number of byte values, every input of every length, any consumers, and
every set of processes that may be killed (`SizeAssumption`, `InputAssumption`, `ProcAssumption`):

* `TypeCorrect`: the types, with both indices inside the payload;
* `MutualExclusion`, `ContentsCorrect`, `FoundStaysTrue`: three invariants of the run `ring`;
* `PrintedTheorem`: `PrintedOnce`;
* `ImplementsFifo`: the ring buffer implements `BoundedFifo`.

The inductive invariant is the conjunction `IInv` of the first four.  None is inductive alone:
that the slots hold what was sent (`ContentsInv`) needs, when an index moves, that the byte
now in or out of reach is the one copied or stored some steps before (`FoundInv`); that
this is still so after steps of others needs that there are no steps of others between
(`LockInv`); and that `% N` finds the right slot needs both indices in range (`TypeOK`).
The lemmas `ModWrap`, `SlotInjective` and `SlotNext` say all that is used of `%`; one lemma per conjunct
goes through the actions.  The refinement proof shows that `AdvanceWrite` is `Put`, `AdvanceRead`
is `Take` and every other step leaves the abstract queue as it is.
`PrintedOnce` says which byte of a consumer is which of those taken by counting its turns
(`Turns`, a finite set), since a filtered sequence is out of the prover's reach; it is inductive with the types.

### Sharing_proofs

`OwnsNamesTheorem` and `ExclusionTheorem`: `OwnsNames` and
`ExclusionOfMatched` hold for any number of producers and consumers (`ProcAssumption`), in any
order of creating, opening and destroying, and wherever processes are killed.  The inductive
invariant adds to `OwnsNames` and the types: `Remembered`, that a memory found under the name is
still the named one or was unlinked by its producer, which makes the claim about mismatched pairs
survive a consumer's second `open`; `AfterSize` and `Unknown`, that a semaphore has no users
before its memory has a size and none before it is created, so that a new semaphore starts with
nobody inside; and `OneHolder`, that who is inside has taken the value 1 of its semaphore and is
alone with it.

`ReaderTheorem`: `ReaderSeesWhole` holds for any writers and readers, any
length of the array and any width of a cell (`RolesAssumption`, `SizesAssumption`).  The argument is
the one about the order of the unlinks: `ShmNames` says that a reader whose memory and semaphore
differ has the memory of a writer that is done, `ShmCreated` that no semaphore is reachable before
its memory has a size, `ShmOneHolder` that who is inside is alone, and `Whole` that an array is
uneven only while its writer is inside, or after the writer was killed there, when nobody gets the
semaphore any more.

`BlockTheorem`: `BlocksReadWhole` holds for any block sizes, any number of letters and any number
of faults.  With the lock (`LockInv`), unless a write was cut short or sizes differ, `WholeLength` says that
the file is empty, as long as a block, or as long as what the writer that has the lock has written
of it; `OneLetter` that it is of one letter behind and before the place of that writer; and
`ReadSame` that a reader, who shares the lock with no writer, has read the beginning of it.  For
`simultaneous.py` (`PyInv`) `Marked` says that from the wait point on the file stays as long as a block.

### LoggedFile_proofs

`SavedIsDurable` (`DurableOnReturn`) holds for any writes inside the file, any number of saves,
crashes and failing calls (`BoundAssumption`), and `LoggedWritesAreAtomic` says that `LoggedFile`
implements `AtomicFile` as long as no call has failed.  `Ordered` is the part of the invariant that
survives failing calls: the log is unlinked only when the file on disk is the file in the cache.
`Clean`, before the first failure: `Logged`, that the log is complete and on disk, under its name, before the file
is touched; `Cached`, that file and disk differ only where the write of that log goes; `Entry`,
that the name of the file may be lost only until its directory is synced, and then what would be
found instead is a content since the last acknowledgement.  From these follows what the refinement needs: whatever a
crash leaves of file and log, `recover` makes of it a content that `AtomicFile` allows.

### KvLog_proofs

`DurableTheorem`: `DurableSet` holds for any commands, any sizes of the
fields, any processes, and any number of kills and crashes, and whether or not the file was there
at first; the loss of a whole new file is its only exception.  That what a `set` appended is on
disk when it returns needs `Synced`, that between `fsync` and the unlock no byte is uncertain; and that
needs `Exclusive`, that nobody else with the lock can append in between.

`AnswerTheorem`: `NeverWrongAnswer`, under `ArgAssumption` (keys and values contain no NUL, as they come from `argv`)
and `TornAssumption`, that no number of torn entries up to the number of kills and crashes adds up to whole blocks.
With the sizes of the code, key fields of 101 bytes and blocks of 4102, which have no common divisor, this is so below
4102 kills and crashes.  `Torn` says that the file is whole blocks and key fields, no more of these
than kills and crashes; `Good` that, if it is whole blocks, looking a key up in it gives what the
last completed set stored; `Stored` that the file is good but for the append that is going on; `Reading`
that a `get` holds the answer for the blocks it has read.

### Processes_proofs

`CapturedTheorem`, and `CapturedInRun` for the programs of `MCProcesses` together:
`CapturedAll` holds for every capacity of the pipe, every size of a read, any amount of output, and both orders of reading and waiting
(`SizeAssumption`, `OrderAssumption`).  The inductive invariant says who has which end open
(`Ends`), that what was printed is what was captured and what is in the pipe (`Bytes`), that the
parent is past its reads only when the pipe is empty and the child gone (`Drained`: this is where
the closed write end of the parent is needed), and who has reaped the child (`Reaped`).

`SignalsTheorem`: `SignalsKept` holds however often each signal is sent and lines are typed
(`MaxSent`).  Lemmas `SuspendsCode` and `AskingCode` say where in its list of calls each program
blocks, waits, forks or becomes another program; from there on the programs of a kind are one.

* `Nested`: the signal of a handler is blocked while it runs, by the mask or by the masks to be
  restored after those that interrupt it; so no two handlers of a signal run at once.
* `Prompted`, of a program that suspends and gets its signals in time: it is in one of five phases.
  `Before` it blocks nothing is sent; `AtPrompt` a signal that was sent is pending, and
  nothing that a handler restores unblocks it; `Suspended` nothing is blocked and no
  handler runs; `Handling`, what is blocked are the signals of the handlers that run (this is why the
  mask to be restored by each is bounded by those below it), so that before the first of them returns all
  that was pending is handled; `Settled`, each was handled once, or was not sent.
* `Asked`, of a program that asks what is left: only the one signal has a handler (`Dispositions`), so
  that before the block a handler has nothing to restore, and after it none runs (`Setup`); from
  the raise to the fork, or for good in a new program, the signal is pending, and in a child it is not
  unless it was sent late (`Kept`); the answers so far are those (`Replies`).

### LogRotate_proofs

For every number of names, of writers, counters and rotations, however these overlap and wherever
they are killed:

* `SortedTheorem`: `SortedByAge`.  The inductive invariant is `NamesOK /\ SortedByAge`: the first
  says that names point to inodes that exist, so that a file just created is younger than all.
  Lemma `MovedSorted` does the work: a rename from n to n+1 leaves the names sorted whether or not
  n+1 was taken, since what n held is at least as young as what is above n+1.
* `OldestDroppedTheorem`: `OnlyOldestDropped`, with `OneRotates`: as long as rotations have not
  overlapped, one process renames, and the name it renames to is free.
* `CountTheorem`: `CountBetween`, for every size of the buffer and every line (`LineAssumption`).  `CountOK`
  says that a counter's count is the newlines before its offset in the file it opened; that this
  file only grows, whatever its name, does the rest.  The lemmas on `UpTo` say how newlines are counted.

### Files_proofs

* `FaithfulTheorem`: `Faithful` holds for any number of files, any sizes of the rings and any modulus of
  their indices that both divide (`RingAssumption`).  `Submission` and `InTurn` say that one
  request at a time is under way and where its entry is; after a failed read `cat_liburing` leaves
  this pattern for good, and `Stuck` says that it then finds the same failed completion in each turn.
* `LargestTheorem`: `KeepsLargest` holds for every capacity, any files and whatever
  `topfiles_list_max_size` returns.  It is inductive with the types; lemma `Placed` says that there is a place to
  insert at (the least one, lemma `Least`, from the well-foundedness of finite sets).
* `KeepsOthersTheorem`: `KeepsOthers`, for any tree that is copied and any that is removed, of any depth,
  for an argument of any length and any number of changes by the other process (`TreesAssumption`).
  For a copy, `IsNew`: what is being written is at a path that was not there.  For a removal, `Left`
  says that the tree only loses entries while nobody interferes, and that no entry of it ever leads to
  a directory outside but a link; and `Called` that each call on the stack is sound.  Without interference (`Quiet`) the
  versions that use paths have one that enters directory after directory of the tree as it was at
  first (`Named`), which lemma `Leads` turns into: it resolves to that directory, or nowhere
  any more.  The safe version, whatever happens, holds a directory of the tree (`Held`) if the first one it
  opened was one (`opened`); paths do not matter to it until the last `rmdir`.  Lemma
  `Shrinks` says what one call may take away, there and elsewhere.
* `CopiesTheorem`: `CopiesAll`, for any file systems, source, places for the copy, block size, descriptors and
  short writes (`SystemsAssumption`).  `CopyInv` has two cases.  `Astray`: the copy is made at a new place inside the
  source.  Then it is `Endless`: some call on the stack is `Doomed`, a directory on the way to its own
  copy is still to be copied, and that stays so, at one level deeper after the other; the stack
  never empties.  Otherwise it goes `Well`: nothing is made below the source (`Stable`); the calls on the
  stack have disjoint parts of the tree to do (`Apart`), and what none of them has to do is behind
  (`Behind`); what was made is exactly the copies of what is behind (`Made`), with the same data and
  modes (`Same`), and the bytes that `copytree` has counted are those of the files behind (`Counted`).  When the stack
  is empty everything is behind.  The sum over a set of files is a fold of the community modules; the
  lemmas from `BytesFold` to `BytesOf` show, by induction on the size of finite sets (`Induct`), that it is the
  same in whichever order the files are taken.
* `LinesTheorem`: `LinesOfFile`, both line readers implement `Lines`, for every file, every size of a read and
  however short the reads are (`ReadersAssumption`).  `PyInv` is that nothing is unread once the end was seen.
  `CInv` is that the string is what stands in the file before the offset, and has no newline
  while more is read; so the line up to the first newline of the string is the next line of the file,
  and setting the offset back by what was read too much puts it at the line after that.

### Sockets_proofs

Three theorems about the epoll server, for any clients, blocks, descriptors and buffer sizes
(`BoundsAssumption`, `NoneAssumption`):

* `EventsFreshTheorem`: no event of a batch is mistaken for one of another connection.  The
  inductive invariant adds that a batch has one event for a descriptor (`Single`) and that the event
  of the connection that is being served is taken (`Served`): a descriptor is closed only while its
  own event is served, so that none in the batch is left for it, and `accept` may use it again.
* `EchoTheorem`: `EchoInOrder`.  `Given` is how many blocks of a client the server has taken from
  the socket and sent back or given up; `Counts` and `Buffer` relate it to what was sent and what
  the server holds, and `Echoes` says that what was echoed is numbered in order up to it.
* `FailureTheorem`: `FailureHasCause`, from the first of the three.  The call of `accept4` that fails has
  found no descriptor free, whoever waits; all other failures belong to the connection that is served.

`OwnAnswersTheorem`: `OwnAnswers`, for any clients, kills, messages and size of the buffer
(`ClientsAssumption`).  For streams, `Looping` says of the servers that loop that a client is in the
backlog once, and in which state its question and its answer are from its `connect` to its end; `Forking` what
happens at most with those that serve one client; `Paths` who leaves the path of a socket behind.  For
datagrams, `OnePlace` says that a client's question is in one place at a time, not sent, at the
server, or answered; `Answers` that the server then has its address; `InOrder` that the messages
received and waiting are the first ones sent, in order, if none was lost.

### Only model-checked

* Liveness: `AllDelivered`, `EveryCommandEnds`, `PyEnds`, `CaptureEnds`, `FillsPages`, `ExitHeard`,
  `SignalledEnds`, `EndsOrCycle`, `FilesPrinted`, `ToolsEnd`, `StopsOnSigterm`, `Answered`, `ClientsEnd`.  It
  rests on fairness and on when actions are enabled, which is beyond the prover.

## Where comments and code disagree

Four disagreements are shown by runs that are expected to fail: `capture_stuck`, `rotate_short`,
`lines_c_nul` and `copy_readonly` (the `findings` of `PROJECT.json` quote the lines).  Two more need
no run, as the code can be read off:

* `cp.c:32` says that `cp_dir(foo, bar)` "will create a copy of `foo/` at `bar/foo/`".  `main` opens both
  arguments and gives them to `cp_dir`, which creates each entry of the first directly in the second
  (:57, :73), so the copy is made in `bar/`; the message at :94, "recursively copying contents of", is
  right.  `CopiesAll` is about what the code does, and would fail with the comment's `bar/foo/`.
* `rmtree_v3_safe.py:100` calls `rmtree_v3`, which is defined nowhere, so that the program started
  by its main block ends with a `NameError`; the function modelled is `rmtree_v3_safe` (:29).

## Not modelled

* Exec helpers (`execs.c`, `forkexec.c`, `mytime.c`, `run.py`): a fork, one exec and one wait each.
* The helper library `cs644.c`: error reporting and growing strings; that an error ends the
  process is part of each model.
* `in-class-example.c` of week 5, `uds_edge_cases.py`, the single-call functions of
  `pipe_edge_cases.py`, `open_nonblock.c`, `printperm.c`, `open-errors`, `count-whitespace`,
  `read-after-write`: they show the result of one call, with no state in between.
* `getdents-atomic.c` prints directory entries; `duplicate_range`, `make_tree.py`.
* `crashcourse.c`, `switch.c`, the scripts of `admin`, dotfiles and build files.
* The scripted crash `corrupt` of `files-are-hard.c`, two programs at once on one logged file, the
  set-up of the rings and the division of a file into blocks of the io_uring programs, and the
  walk through directories of `bigfiles_naive.c` (it never closes them).

Within the modelled components: short writes, but for those of the log line of `LogRotate`, the
server of `EpollServer`, `SharedBlock` and `duplicate`; running out of memory; the text printed;
the contents of paths.
