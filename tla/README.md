# TecnicoFS: a verification project

TecnicoFS is the file system of a course on operating systems. It exists twice
in this repository:

* `src/p1/tecnicofs` (first exercise): a library for threads, with a read-write
  lock per i-node, a mutex per open file, files of ten direct blocks and one
  indirect block, and a copy to a file of the host;
* `src/p2/tecnicofs_ex2 (v4)/tecnicofs_ex2` (second exercise): files of one
  block under one global lock, a call that waits until every file is closed, a
  server that clients reach over named pipes, and the library of the clients.

This directory models both. Paths such as `fs/state.c` are relative to the root
of the second exercise unless they begin with `p1`.

## Inventory

### Components, their state and their operations

| Part | Source | State | Operations |
|---|---|---|---|
| Tables | `fs/state.c`, `fs/state.h`, `fs/config.h` | `inode_table`, `freeinode_ts`, `free_blocks`, `fs_data` (files and the directory), `open_file_table`, `free_open_file_entries`, `var` | `inode_create`, `inode_delete`, `add_dir_entry`, `find_in_dir`, `data_block_alloc`, `data_block_free`, `add_to_open_file_table`, `remove_from_open_file_table`, `ret_var` |
| Calls | `fs/operations.c` | none of their own | `tfs_init`, `tfs_lookup`, `tfs_open`, `tfs_close`, `tfs_write`, `tfs_read` |
| Lock and wait | `fs/operations.c` | `single_global_lock`, `cond_lock` | the same calls, `tfs_destroy_after_all_closed` |
| Server | `fs/tfs_server.c` | `svfileopen`, `ses_id[1]`, `fcl`, `mtx[1]` | `main` and one `tfs_sv_` handler per operation code |
| Client library | `client/tecnicofs_client_api.c` | `id`, `client_pipe`, `server_pipe` | `tfs_mount`, `tfs_unmount`, `tfs_open`, `tfs_close`, `tfs_write`, `tfs_read`, `tfs_shutdown_after_all_closed` |
| First exercise, tables | `p1/tecnicofs/fs/state.c` | the tables with a lock per i-node, a mutex per open file, one mutex for the table | as above, each with its locking |
| First exercise, calls | `p1/tecnicofs/fs/operations.c` | none of their own | as above over ten direct blocks and one indirect block, `tfs_copy_to_external_fs` |

### How they interact

A client writes a request (an operation code, the identifier of its session,
the arguments) to the pipe of the server and blocks in `read` on its own pipe.
The server is one thread: it takes requests in the order of its pipe, runs the
handler, which calls `fs/operations.c`, and writes the answer to the descriptor
in the global `fcl`, which the last `tfs_mount` request set. Threads that use
`fs/operations.c` as a library share the tables under `single_global_lock`;
`tfs_close` broadcasts on `cond_lock`, on which `tfs_destroy_after_all_closed`
waits while `ret_var()`, the number of open files, is positive.

Threads that use the first exercise share its tables without a global lock: each
function of `p1` `fs/state.c` takes the locks it needs and gives them up before it
returns, or is meant to.

### What is hard

* **Reuse.** Truncation frees the block of a file but leaves its index in the
  i-node; closing a handle leaves its i-number and offset in the table. A block
  or handle is soon given to another file.
* **Failure half way.** `tfs_open` may truncate or create a file and then find
  no free handle; it may create an i-node and then find the directory full;
  `tfs_write` may find no block.
* **Arithmetic.** Sizes and offsets are `size_t` and are subtracted.
* **Waiting.** The test of `ret_var` and the wait must be one step for whoever
  closes the last file; several threads may wait; an open may come in between
  the broadcast and the waiter getting the lock.
* **One variable for many clients.** `fcl`, `ses_id` and `mtx` are indexed by,
  or set from, what clients send.
* **Blocking.** Everyone blocks: a client on its answer, the server on its pipe,
  on the open of a client's pipe, and on the wait for the last close.
* **Locks left held.** In the first exercise `inode_create` and
  `add_to_open_file_table` lock each entry they look at and unlock only the one
  they take; a write or a read that fails returns with its locks. What a call
  does then depends on the calls before it, of its own thread and of others.
* **Checks apart from uses.** In the first exercise a name is looked up under one
  hold of a lock and entered under another, an entry of the directory is filled
  under a read lock, and a free block is tested and marked without any.
* **Files of many blocks.** Growth through the indirect block, truncation and
  deletion each walk the blocks in their own way.
* **Death of a process.** A client that ends leaves requests in the pipe of the
  server, a pipe nobody reads, or a server that dies of `SIGPIPE`.

### What makes each part correct

| Part | Property | Where |
|---|---|---|
| Tables | a block is taken exactly when one allocated i-node owns it | `BlocksAccounted` |
| Tables | the directory lists exactly the allocated files | `DirectoryMatchesInodes` |
| Tables | `ret_var` counts the open handles, which refer to files | `OpenFilesCounted` |
| Calls | files are independent strings of bytes | `IsFileStore` |
| Calls | offsets stay inside files; a read stops at the end | `OffsetsWithinFiles`, `ReadStopsAtSize` |
| Lock and wait | no wakeup is lost; calls are atomic; who waits returns | `NoLostWakeup`, `CallsAreAtomic`, `WaitersReturn` |
| Server and clients | every call gets its own answer, and gets one | `AnswersMatchCalls`, `CallsReturn` |
| Server and clients | the server outlives what careful clients do | `CarefulClientsKeepTheServer` |
| Server and clients | a mount returns, also when it is refused | `MountReturns` |
| First exercise, files | files share no block and are independent strings of the bytes callers wrote; copies are whole | `NoBlockShared`, `IsFileStore`, `CopyIsWhole` |
| First exercise, files | truncation empties; a write stays in its file | `TruncEmpties`, `DirectoryNotOverrun` |
| First exercise, locks | no entry, block, file or handle is raced for; names are unique | `DirectoryMatches`, `NoBlockShared`, `FilesExclusive`, `OnlyRacesDuplicateNames` |
| First exercise, locks | calls return | `CallsReturn`, `OpensReturn`, `OneFileNeverHangs` |

The hazards of the code, each at its line with the properties that cover it,
are listed in `PROJECT.json`.

## The modules

| Module | What it is |
|---|---|
| `FileStore` | abstract: a directory of independent files |
| `TecnicoFS` | the tables and the calls on files; implements `FileStore` |
| `TecnicoFS_proofs` | its inductive invariant and the theorems |
| `TecnicoFS_offsets` | what careful callers add: offsets inside files, reads that stop at the end |
| `TecnicoFS_refinement` | that it implements `FileStore` |
| `AtomicHandles` | abstract: calls on handles that take effect in one step |
| `DestroyWait` | the lock, the condition variable and the wait; implements `AtomicHandles` |
| `DestroyWait_proofs` | its inductive invariant, the refinement and the theorems |
| `Session` | the server, its pipe and its clients |
| `Session_proofs` | its types, the answers to clients in turn, the careful client |
| `BlockMap` | first exercise: the calls of one thread, with all the blocks of a file and the locks left held; implements `FileStore` |
| `BlockMap_proofs` | loops, types, the blocks of the files, copies, the locks left held |
| `BlockMap_refinement` | that it implements `FileStore` |
| `InodeLocks` | first exercise: the calls of several threads, lock by lock |
| `InodeLocks_proofs` | its inductive invariant and the theorems |
| `MCTecnicoFS`, `MCDestroyWait`, `MCSession`, `MCBlockMap`, `MCInodeLocks` | the sets the configurations choose from |

The models fit together by what each abstracts from the others.
`DestroyWait` justifies that a call of `TecnicoFS` is one action: it shows that
under the lock each call takes effect in one step. Of the
tables, `DestroyWait` keeps the set of open handles, whose count `TecnicoFS`
shows to be `ret_var`, and `Session` that set and where the offset of each handle
stands, on which it depends whether `tfs_write` and `tfs_read` come back.
`Session` has one server thread, hence calls the file system one call at a time.

Of the first exercise, `BlockMap` has whole calls and whole files, and of the
locks only those that a call leaves held, on which a later call of the thread
blocks. `InodeLocks` takes the calls apart and keeps, of a file, its first block.
That `BlockMap` may have one thread is no restriction once a call runs alone;
what several threads may do to each other is the subject of `InodeLocks`, whose
`FilesExclusive` says that the part of a call that touches the bytes runs alone.

Definitions with a comment that begins with "Mutant" are faulty variants of the
definition that follows them, used to show that a property can fail; no
specification uses them.

### TecnicoFS

Variables have the names of `fs/state.c`; `dir_entry` is the content of the
block of the root directory, and `reply` the result of the last call. `Init` is
the state `tfs_init` leaves. Each call is one action, with every failure of the
code:

* `tfs_open(path, flags)` is `OpenExisting` (truncation, offset, then
  `add_to_open_file_table`, whose failure keeps the truncation) or `OpenCreated`
  (`inode_create`, then `add_dir_entry`, whose failure gives the i-node back) or
  a failure that changes nothing;
* `tfs_close(fh)` releases a handle that is taken and leaves its entry as it is;
* `tfs_write(fh, v, n)` allocates the block of an empty file, writes `n` bytes
  `v`, and moves offset and size. It keeps `i_data_block = -1` when no block is
  free, and ends the process ("crash") when the offset is past the block, where
  `BLOCK_SIZE - of_offset` wraps and `memcpy` gets a length near 2^64;
* `tfs_read(fh, len)` computes `i_size - of_offset` modulo `SIZE_MOD` as the
  code does on `size_t`. Bytes beyond a block are those of the next block of
  `fs_data`, bytes beyond `fs_data` are arbitrary;
* `BadHandle` is a read or a write of handle -1.

Names are model values: a member of `LongNames` stands for a name of
`MAX_FILE_NAME` characters or more, and `Prefix` for what `strncpy` keeps of it,
itself a name. Paths are records of whether they begin with `/` and what
follows. Callers pass handles some `tfs_open` returned, or -1: a closed
one too when `UseAfterClose`. They truncate files that are open when
`TruncateOpen`. Both are freedoms that the code does not check.

Left out: `insert_delay`, which only takes time; the counters for
`tfs_print_stats`, which nothing calls; `tfs_lookup` as a call of its own, which
changes nothing.

### DestroyWait

`pc` holds where each thread stands: `idle`, `locking`, `locked`, then
`broadcasting` or `waiting` or `woken`, then `unlocking`. `Lock` is
`pthread_mutex_lock`, on entry and inside `pthread_cond_wait`; `TestVar` is one
turn of the `while` of `tfs_destroy_after_all_closed` and gives the lock up as it
begins to wait, as POSIX requires; `SpuriousWakeup` is what POSIX allows. A
destroy is a call like any other in the code: it frees nothing, and threads may
make calls after it.

### Session

Each client is blocked in at most one call. `Send` writes a request;
`Receive` and `Fill` are the reads of the answer. Each handler of the server is
one step, taken by `Serve` on the first request of the pipe. What the code does
with bytes is kept where it changes the course of a call:

* `tfs_mount` and `tfs_close` of the client read the answer into `id`, which
  later requests carry; an `id` other than 0 is an index outside `mtx`
  (`WildLock`): the lock may be taken, hang or end the process, according to
  what memory lies there;
* `tfs_unmount` copies one byte of `id` (`UnmountId`); `tfs_close` puts the
  handle three bytes to the right of where the server reads it
  (`HandleOnTheWire`), and sends twelve bytes where the server takes nine: the three
  left are the upper bytes of the handle, 0 or 255, which the loop of the server
  takes for opcodes it does not know and ignores; the shutdown request is five
  bytes of a buffer nobody wrote (`Unwritten`);
* a refused mount writes zero bytes and touches `mtx[-2]` (`ServeMount`), but has
  already changed `fcl`;
* the server hangs when it opens the pipe of a client that has ended, and when a
  shutdown waits for a close that only the server itself could serve; it ends
  when it writes to a client that has ended, and when the last writer of its pipe
  has ended (`Exit`).

* a write through a handle whose offset is past the block ends the server, and a
  read through one whose offset is beyond the end of its file may do so or take the
  offset past the block (`ServeWrite`, `ServeRead`, `Crash`), as in `TecnicoFS`.

A client may end at any point (`Die`) when `ClientsDie`.

Of the files behind the server, `offset` says of each handle, open or closed, whether
its offset is "within" its file, "ahead" of its end, or "past" the block. An open may
truncate a file and so leave any set of handles ahead (`Truncated`), and a write may
bring any set of them back within (`Extended`): which handles are of one file, and
the sizes, are left to `TecnicoFS`. These sets are chosen freely, so that every course
the files can take is among those of the model, and more.

Abstracted: pathnames, flags and contents; reads of a length that fits the stack of the
server and a pipe; a request is one item of the pipe,
which is what the system guarantees up to `PIPE_BUF` (4096 bytes), more than the
longest request of use with blocks of 1024 bytes. The answers to `tfs_write` and
`tfs_read` are 8 bytes and those to the others 4: when answers reach the wrong
client (the run `session_crossed`) its later reads are misaligned, which is not
modelled. Of the shutdown's answer, written to the descriptor whose number is the
id, nothing reaches a client.

### BlockMap

Lengths and offsets count cells of `sizeof(int)` bytes, so that an indirect block
of `BLOCK_SIZE` bytes holds as many indices as a block has cells, and a cell of
`fs_data` holds a datum or an index. `i_data_blocks` has the places `0 .. NDIRECT`,
the last for the indirect block (10 in the code). Each call is one action:

* `tfs_open` is `OpenExisting`, with truncation as the code has it (`TruncFrees`:
  it frees the indices one by one and stops with a failure at the first -1), or
  `OpenCreated`;
* `add_to_open_file_table` puts into `mtx` the handles it skips, whose mutexes
  stay locked, and hangs on one that is there already; so do the other calls;
* `tfs_write` is `Grown` (`Grow` is one turn of the loop that allocates, over the
  blocks the write adds) and then `Copied` (`Copy` is one turn); a block that is
  missing ends it with the mutex locked and everything it has done so far in place;
* `tfs_read` is `Gathered`; `tfs_copy_to_external_fs` is an open, reads of one
  block (`CopyBlock`) and a close, with the failures of `fopen` and of a read.

Each loop is a recursive function on the number of its turns, defined where the
loop is (`turn` in `Grown`, `Copied`, `CopiedOut`), with the count the code makes
beforehand (`Turns`, `Reads`).

`lock` holds the i-nodes whose read-write lock can no longer be taken by a writer: a read that
failed has left a reader, or a truncation has unlocked it twice. A call that
never returns is recorded as "hung", one that ends the process as "crash", and a
write that reaches block 0, the root directory, as "overrun"; no call is modelled
after. Nor is one after "wild": a handle of -1 has the mutex of `open_file_table[-1]`
locked before it is tested (`BadHandle`), which is memory outside the table and may
do anything, return and change nothing included. Root's `i_data_blocks` and what `tfs_init` writes are `Init`.

`DirectoryAssumption` (more i-nodes than entries of the directory: 50 and 23 in
the code) has the directory full before the i-nodes are; hence `inode_create`
always finds one, and `tfs_open` never uses its -1.

### InodeLocks

`writer`, `readers`, `mtx` and `table_mtx` are the locks, with their owners.
Threads run the calls one lock operation at a time; a read or a write under a
lock is part of the step that takes the lock, or a step of its own when the lock
is not exclusive: `FindSlot` and `FillSlot` (`add_dir_entry` under a read lock),
`FindBlock` and `TakeBlock` (`data_block_alloc` under none). `glance` is a read
lock that is taken and given up at once (`inode_get`, `find_in_dir`).

The locks behave as those of glibc, which the code relies on without looking at
what they return: a thread that has the write lock of an i-node and asks for it,
or for the read lock, gets an error and goes on; its next unlock gives the write
lock up. Thus a `tfs_open` that creates a file has the write lock of the root from
its search in `inode_create` to the end of `add_dir_entry`, without meaning to.

Truncation, the second and later blocks of a file, offsets and bytes are left to
`BlockMap`.

## What is checked

| Run | Instance | Shows |
|---|---|---|
| `fs_any` | 3 files that compete for one block, 2 handles, 2 directory entries, closed handles used, open files truncated | `TypeOK`, `BlocksAccounted`, `DirectoryMatchesInodes`, `OpenFilesCounted`, `IsFileStore` |
| `fs_careful` | 2 files with a block each; handles used while open, open files not truncated | `OffsetsWithinFiles`, `ReadStopsAtSize` |
| `fs_truncate_open` | 2 files with a block each, open files truncated | `ReadStopsAtSize` fails |
| `wait` | 3 threads, 2 handles | `TypeOK`, `NoLostWakeup`, `CallsAreAtomic`, `WaitersReturn` |
| `session` | 1 client, every call, the client may end | `TypeOK`, `AnswersMatchCalls`, `CallsReturn`, `CarefulClientsKeepTheServer` |
| `session_refused` | 2 clients | `MountReturns` fails |
| `session_crossed` | 2 clients | `AnswersReachTheAsker` fails |
| `blocks` | 3 names, 2 data, 2 entries, 3 i-nodes for files, 4 blocks for files of up to 3, 2 handles; no truncation | `TypeOK`, `NoBlockShared`, `OneFileNeverHangs`, `CopyIsWhole`, `IsFileStore` |
| `blocks_large` | the same with 5 blocks, writes of any length | `DirectoryNotOverrun` fails |
| `blocks_trunc` | the same with 5 blocks, truncation | `TruncEmpties` fails |
| `locks` | 2 threads, every call, 2 names, 2 entries, 3 i-nodes and 1 block for files, 2 handles | `TypeOK`, `DirectoryMatches`, `FilesExclusive`, `NoBlockShared`, `CallsReturn`, `OnlyRacesDuplicateNames` |
| `locks_open_files` | 2 threads that open 3 files | `OpensReturn` fails |

`MCTecnicoFS` defines more names than a run uses; `f` and `g` are short, `long1`
and `long2` long with the prefix `g`. Long names and relative paths are in the
model and in the theorems; `IsFileStore` does not hold of them (a name of 40
characters or more is stored shortened and never found again; a path without
`/` is not found either, but created), so `fs_any` is about the documented paths.

### What the passing runs rest on

Some of the properties hold for a reason that is not the one the code intends,
and a repair of the reason would break them:

* `DirectoryMatches`: two creates never fill the same entry although
  `add_dir_entry` takes a read lock, because `inode_create` has left the creator
  with the write lock of the root. The mutant that gives skipped locks up
  (`Releases`) breaks it.
* `NoBlockShared` of `InodeLocks`: `data_block_alloc` is not protected, but an
  open that skips a handle leaves its mutex locked, so that at most one handle is
  ever of use, and one file is written at a time. The mutant that gives the
  mutexes up (`GivesUp`) breaks it.
* `FilesExclusive` holds for the same reason: since at most one handle is of use, it
  is the mutex of the handle that keeps two threads from touching bytes at the same
  time. The clause about the lock of the i-node is therefore never put to the test: it
  would hold with a read lock for a write as well. The mutant that does not take the
  mutex of the handle again (`TestsTheMutex`) breaks it.

`NothingLeft`, the assumption of `CallsReturn` in `InodeLocks`, names what blocks
calls for ever: locks a call does not need any more, and a close that meets an open
(each has the mutex the other wants). `CallsReturn` says that there is nothing else,
and does not hold without either. The locks that are not needed are those of earlier
calls, and the read lock of the new i-node in an open that finds the directory full:
`inode_delete` asks for the write lock of an i-node its own thread reads.
`locks_open_files` shows the former; its directory of two entries fills too, and once
the locks that are skipped are given up it is `inode_delete` that `OpensReturn` fails
of. With closes it fails of the opposite orders; no run is spent on that.
`OneFileNeverHangs` likewise leaves out a full directory, and a write that runs out of
blocks, which keeps its locks.

`CarefulClientsKeepTheServer` and `CallsReturn` of `Session` go together in the same
way: the second says that calls return while the server is up, the first that it stays
up for clients that

* make no shutdown: with a file open, the server waits in its only thread for a close
  that it will not take from its pipe any more (and the request itself is sent from a
  buffer that nothing was written to, so that it may be any other);
* make no unmount: it stores -2 in the slot of the session, where only -1 means that it
  is free, so that the mount that follows is refused, and touches `mtx[-2]`;
* have no close that fails: its -1 becomes the `id` of the client, and with the next
  request the server locks memory before its array;
* write and read through handles that are open, and truncate no file while a handle of
  it is open and beyond its start (`OpenFilesKept`; both are what `fs_careful` asks of
  callers, and without either of them TLC finds the ways to `Crash`);
* do not end with a request or an answer under way: the server would wait for ever to
  open the pipe of a client that is gone, or end when it writes to it.

Each premise is necessary: without it TLC finds how the server hangs or ends. These
are hazards the model has and no run of its own shows; the theorem and the run say
that there are no others.

What is left to such a client is any sequence of opens, truncations of files not in use
included, closes, writes and reads, through any open handles, more opens than the table
has handles, and to end between two calls.

### What the failing runs show

* **`fs_truncate_open`**: open a file, write, truncate it through a second open,
  read through the first handle: `i_size - of_offset` wraps and the read
  returns all the bytes asked for from beyond the file. `fs_careful` shows that a
  truncation of an open file, or the use of a closed handle, is necessary for it.
* **`session_refused`**: the first client holds the only session; the second
  waits in `tfs_mount` for ever, since its answer is written with the length
  `sizeof(int) < 0`, that is 0.
* **`session_crossed`**: once a second client has asked for a session, the answers of
  the first client go to the second.
* **`blocks_large`**: one write that takes a file from its direct blocks to two or
  more beyond them allocates the indirect block once for each of these and so loses
  the indices stored before. The copy then follows what it finds in the new block of
  indices, which is 0 in memory never used: the root directory. `blocks` excludes such
  writes (`LargeWrites = FALSE`) and shows that growth is right without them.
* **`blocks_trunc`**: a file that does not use all its blocks cannot be truncated:
  `tfs_open` returns -1 after it has freed the blocks in use, while the file keeps
  them.
* **`locks_open_files`**: one thread opens a second file and leaves the mutex of
  the first handle locked; the next open of another thread waits for it for ever.
  `inode_create` does the same with the locks of i-nodes.

### Bounds

* `BLOCK_SIZE = 2`, `MaxLen = 2` in `TecnicoFS`: an offset may be at the start,
  inside and at the end of a block, and a write may be cut at the end. `fs_any`
  writes two values, so that two files that shared a block would be seen to.
* `fs_any` has `VIEW Tables`: states that differ only in what the last call
  returned count as one. No action but for the end of the process depends on it
  (the view keeps whether it has ended), and the properties are about the tables.
* `OffsetBound` caps the offset a wrapped read may reach. In `fs_careful` and
  `fs_truncate_open` it is one past the block, enough for the crash of `tfs_write`.
  In `fs_any` it is the block size: `FileStore` says nothing of a process that has
  crashed, and the offsets beyond only lead there.
* `SIZE_MOD = 1024` stands for 2^64: it only has to exceed twice the offsets and
  lengths in play, as `SizesAssumption` says, for a wrapped difference to exceed
  every length.
* Tables of two or three entries fill up, so that each allocator also fails, and
  each entry is reused.
* Three threads are needed for two to wait while a third closes, or for an open
  to overtake a woken waiter; two handles for `var` to be 2.
* `PipeRoom = 2` requests: a client has at most one call under way, and a second
  request is only left there by a client that has ended or has been refused. Two
  handles let the table fill and one offset go wrong while the other does not.
* `BlockMap`: one direct block and an indirect block of two indices is the
  smallest file with every kind of block; lengths of a block and of two and a half
  make writes begin and end within a block and fill a file (`blocks`), those of
  one cell and of a whole file are there in the failing runs. Two data, that are no
  index, tell an overwritten cell from one that is kept. Three names for two entries fill the
  directory; five blocks let one file be full and another fail. The names are
  interchangeable (`SYMMETRY`), as no action but `find_in_dir` looks at them;
  `VIEW Tables` is as above, and action properties are checked on every step.
* `InodeLocks`: two threads are enough for every pair of lock operations to meet;
  a third would wait where the second does. With two names a name can be created
  twice at a time and the directory can fill; one free block makes two files
  compete; two handles make an open skip one.

### Fairness

* `DestroyWait`: weak fairness of each thread's step inside a call. Threads
  are scheduled by the operating system. No thread has to make a call, spurious
  wakeups need not come, and a thread may wait for the mutex again and again as
  long as others make calls: `WaitersReturn` assumes that calls cease
  (`Quiescent`), and then weak fairness suffices.
* `Session`: weak fairness of the server's step, and of the reads of a client
  whose answer has come. No client has to make a call, and none has to end.
* `InodeLocks`: weak fairness of each thread's step inside a call. `CallsReturn`
  assumes that calls cease: neither lock of POSIX promises a turn to a thread
  that competes with others for ever.

`CHECK_DEADLOCK FALSE` is stated where the system really may stop: after a
"crash" in `TecnicoFS`, when the server has stopped or hangs in `Session`, after a
call that does not return in `BlockMap`, and when every thread is blocked in
`InodeLocks`.

## What is proved

Every safety property that a passing run checks, `TypeOK`, invariants, action
properties and refinements, is also a theorem, for every value of the constants
that satisfies the assumptions of the modules: `SizesAssumption`,
`NamesAssumption`, `CallersAssumption` (`TecnicoFS`); `ThreadsAssumption`
(`DestroyWait`); `SessionAssumption`; `LocksAssumption`, `DirectoryAssumption`
(`InodeLocks`); `SizesAssumption`, `CallersAssumption`, `DirectoryAssumption`
(`BlockMap`). Some theorems have a hypothesis on the callers besides. The run
that checks the same property satisfies it, and a failing run shows why it is
there, where one does.

| Module | Theorem | Property | Hypothesis |
|---|---|---|---|
| `TecnicoFS_proofs` | `TypeCorrect` | `TypeOK` | |
| | `BlocksAreAccounted` | `BlocksAccounted` | |
| | `DirectoryMatches` | `DirectoryMatchesInodes` | |
| | `OpenFilesAreCounted` | `OpenFilesCounted` | |
| `TecnicoFS_offsets` | `OffsetsStayWithinFiles` | `OffsetsWithinFiles` | `CarefulCallers`: no use after close, no truncation of open files (`fs_truncate_open`) |
| | `ReadsStopAtSize` | `ReadStopsAtSize` | the same |
| `TecnicoFS_refinement` | `TablesImplementStore` | `IsFileStore` | `DocumentedPaths`: absolute, and no name too long |
| `DestroyWait_proofs` | `TypeCorrect` | `TypeOK` | |
| | `WakeupsAreNotLost` | `NoLostWakeup` | |
| | `Refinement` | `CallsAreAtomic` | |
| `Session_proofs` | `TypeCorrect` | `TypeOK` | |
| | `AnswersMatch` | `AnswersMatchCalls` | `[]OneAtATime`: clients in turn (`session_crossed`) |
| | `CarefulClientKeepsTheServer` | `CarefulClientsKeepTheServer` | `[]OneClientEver`: no second client is refused (`session_refused`) |
| `InodeLocks_proofs` | `TypeCorrect` | `TypeOK` | |
| | `EntriesMatchInodes` | `DirectoryMatches` | |
| | `FilesAreExclusive` | `FilesExclusive` | |
| | `BlocksAreNotShared` | `NoBlockShared` | |
| | `OnlyRacesDuplicate` | `OnlyRacesDuplicateNames` | |
| `BlockMap_proofs` | `TypeCorrect` | `TypeOK` | `NoTruncation` |
| | `BlocksAreTheirs` | `NoBlockShared` | `NoTruncation`, `~ LargeWrites` (`blocks_large`) |
| | `CopiesAreWhole` | `CopyIsWhole` | `NoTruncation` |
| | `OneFileIsSafe` | `OneFileNeverHangs` | `NoTruncation`, `~ LargeWrites` |
| `BlockMap_refinement` | `BlocksImplementStore` | `IsFileStore` | `NoTruncation`, `~ LargeWrites` |

Each rests on an inductive invariant, with one lemma per call or step for what
it keeps and a last theorem that puts them together.

**`TecnicoFS`.** `IInv` is
`TypeOK /\ BlocksAccounted /\ DirectoryMatchesInodes /\ Linked /\ Counted`.
The properties are not inductive on their own. A write through a handle, closed
ones included, gives a block to the i-node the handle names; it keeps
`BlocksAccounted` only if that i-node is allocated. `Linked` says so: an entry of
`open_file_table` that was ever filled refers to an allocated file, as do the
entries of the directory (i-nodes are deleted only by the `tfs_open` that created
them), and the root keeps its i-node. `Counted` is the first half of
`OpenFilesCounted`. `OpenHandle` has what every successful open shares; the
helpers have facts of their own (`LowestIn`: a nonempty set of indices has a least
member; `AllocatedBlockIsFree`, `FoundInDir`, `MinusIsNat`, `MoveOffset`).

`CInv` adds `OffsetsWithinFiles`. With it no difference on `size_t` is negative,
so that no call leaves the block of its file, and `ReadStopsAtSize` is a fact of
one step.

`RInv` adds that names are unique (`NamesUnique`), without which the directory
would not be a function of names: a second entry of a name is never found. Every
call is then a step of `FileStore`, or leaves all files as they are. That a write
leaves the other files alone is `BlocksAccounted`; what truncation and reuse leave
in the blocks does not matter because a file of size 0 has no bytes.

**`DestroyWait`.** The invariant is
`TypeOK /\ LockHeld /\ WhoWaits /\ NoHandleYet /\ Counted /\ NoLostWakeup`:
the owner of the lock is the one thread between `locked` and `unlocking`; only a
destroy waits; an open that has not run holds no handle; `var` is the number of
open handles. `NoLostWakeup` needs `Counted`, for a thread goes to sleep after a
test of `var`, and `LockHeld`, for nobody opens or closes between the test and
the sleep. The refinement maps the steps of a call up to its effect to
"invoked" and the ones after it to "done"; taking the lock, waiting and waking
are stutters.

**`Session`.** `Types` extends `TypeOK` to the requests in the pipe and the
answers on their way. `AnswersMatch` is about any number of clients, provided that
a client comes only when the one before has unmounted or ended (`OneAtATime`).
While the server is up, the mount of a client that lives is the last request
(`MountIsLast`), the server holds no pipe of a client it has not opened it for
(`Outsiders`), and the client whose turn it is has its own request in the pipe, or
the answer to it, and nothing else (`InTurn`). `CarefulClientKeepsTheServer` rests
on `Serves`: what the handlers may find wrong (an `id` other than 0, a request that
is no call's, a mount that is refused, an offset beyond the end of its file) does not
come from a client that is careful and the only one ever. That the handle of a write
or a read is open when the server comes to it, and not only when it was passed, takes
`InTurn`, which ties the request in the pipe to the call of the client. The one client
of the run `session` satisfies both hypotheses.

**`InodeLocks`.** `IInv` is
`Types /\ Exclusion /\ LocksKept /\ DirectoryInOrder /\ HandlesKept /\ BlocksKept`.
`Exclusion` is what the locks promise; `LocksKept` which locks a thread holds at
each point of its calls, those it was not meant to keep included. From the write
lock of the root, which `inode_create` leaves with the creator, follows that no
two threads are between the choice of an i-node and the entry in the directory
(`DirectoryInOrder`: entry `k` is that of i-node `k + 1`). From the mutexes that
searches for a handle leave locked follows that one handle at most is of use to
anybody (`HandlesKept`; the others are dead), hence one thread at most takes a
block (`BlocksKept`). `DirectoryAssumption` keeps a failed search for an i-node out.

**`BlockMap`.** There are four invariants, each with the one before:

* `TInv` is `TypeOK /\ DirectoryInOrder /\ OffsetsInside`. Types need the order
  of the directory (`inode_create` finds an i-node, names lead to files), and
  offsets inside their files, for a write adds to an offset. It holds for writes of
  any length. A truncation of an open file would leave an offset beyond the size.
* `SInv` adds that the blocks of files, those of their indices included, are taken
  (`Owned`) and in one place of one file each (`Apart`), and that no write has
  reached the root.
* `HInv` adds that a lock is left held only after a mutex was.
* `FInv` adds that names are unique and that every byte of a file is one that a
  caller wrote (`DataOnly`).

The loops of `tfs_write` and `tfs_copy_to_external_fs` are reasoned about turn by
turn, for any number of turns. The theorems on induction of the library take an
operator, which the provers cannot instantiate; instead `EveryTurn` says that a set
with 0 and the successor of each member has every number, and `LoopExists` that a
loop has a state after each turn. `GrownKeeps` is the invariant of the loop that
allocates (what it has given the file is fresh, and no other block has changed),
`CopiedKeeps` and `CopiedComesTo` those of the copy (it writes only blocks of the
file's bytes; it has written all of those it has come to), `CopiedWhole` that of
the reads. `WrittenBlocks` and `WrittenBytes` say what a whole write does, the ones
that run out of blocks half way included: the file then has the new bytes up to its
old end, or none of them.

**Only model-checked:** liveness, `WaitersReturn` and `CallsReturn` of `Session` and
of `InodeLocks`, which is beyond the prover. The properties of the runs that expect a
violation do not hold.

## Not modelled

* `insert_delay`, which only takes time, the counters of use and
  `tfs_print_stats`, which nothing calls.
* `tfs_destroy` and `state_destroy`, which only destroy locks, while other calls run.
* Truncation in the first exercise while other threads use the file, and what
  follows a call that has hung, ended the process or written over the root
  directory.
* Requests longer than `PIPE_BUF`, misaligned reads of misdirected answers and
  failures of system calls other than those named above.
* The tests, build files, settings of editors and the archives.

## Plan

1. Done: `TecnicoFS` with `FileStore`, `DestroyWait` with `AtomicHandles`,
   `Session`, and the proofs of the first two.
2. Done: the first exercise, `BlockMap` (with `FileStore`) and `InodeLocks`, which
   also has the mutexes of the table of open files.
3. Done: proofs about `InodeLocks`, `Session` and `BlockMap`, and the refinement of
   `FileStore` by `TecnicoFS` and by `BlockMap`.
4. Next: the safety behind the liveness that only TLC checks, as invariants with
   proofs: a client that waits has its request in the pipe or its answer on the way
   (`Session`), a thread that waits for a lock waits for one that somebody holds
   (`InodeLocks`).
5. Next: `TypeOK` of `BlockMap` for callers that truncate, and what a truncation
   that fails half way does and does not leave apart.
