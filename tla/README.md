# skyutils in TLA+

skyutils is a C library of small services: memory, buffers, lists, strings,
threads, sockets, an HTTP client, a registry kept in a file, resource archives
and a debug channel to remote viewers. This directory models the parts of it
that keep state, checks them with TLC on small instances, and proves the
properties that matter most with TLAPS for instances of any size.

Source paths below are relative to the repository, lines to the commit that is
modelled.

## 1. The system

The library has no main loop and no threads of its own. Its components are
objects or globals that the program's threads call into; what makes them hard
is that several keep global state without a lock, or leave the lock they have
in the middle of a call.

| component | state | operations | talks to | what is hard |
|---|---|---|---|---|
| growing buffer, `src/buffer.c` | one block, its size, the next free byte, a delegate | alloc, init, reserve, add, write to reserved, consume, empty, resize | the delegate, a callback | positions handed out earlier stay valid while the block moves; a delegate answers anything; loops that must end |
| tracing allocator, `src/memory.c` 198-583 | global list of records, mode, byte count, a critical section made by the first call | malloc, calloc, realloc, strdup, free, check, stats, print, configuration | libc, the list functions, every client thread | work outside of the section, early returns inside it, quarantine of freed blocks, the first call |
| aligned allocator, `src/memory.c` 107-195 | a header in front of each block | malloc, calloc, realloc, strdup, free | libc | header arithmetic |
| lists, `src/liste.c` | singly linked lists, association lists | add, delete, get at head, tail, position, by value | every other component | edges: one element, equal neighbours, positions past the end |
| strings, `src/string.c` | the global cursor of `SU_strparse` | search, match, trim, parse | registry, HTTP client | matching; the cursor shared by nested parses and by threads |
| registry (Windows), `src/registry.c` 40-630 | handles of the system's registry | open, create, get, set, delete | the Windows API, other programs | handles closed on every path; keys that change between two calls |
| registry (unix), `src/registry.c` 631-1565 | a tree of keys and values in memory, one open locked file | open, close, create and open keys, get, set, delete, enumerate | lists, strings, `flock` | nothing is written before close; several processes; failed opens; crashes |
| debug channel, `src/debug.c` | flags, outputs, four sockets, log file | init, options, print | sockets, the viewer `tools/su_dbg_console` | framing of several threads on a stream, timeouts, closing a slot |
| threads, `src/threads.c` | semaphores, mutexes, critical sections | create, join, wait, try, wait with timeout | pthreads | deadline arithmetic; timeouts racing a post |
| sockets, `src/socks.c` | client and server records | connect, accept, send, read, select, UDP | the operating system | partial transfers, timeouts, descriptors after failures |
| HTTP client, `src/web.c` | connection, answer, cookie jar, proxy, actions | connect, send a command, wait for the answer, follow redirects | sockets, SSL, strings, lists | redirect recursion, keep-alive, cookies replaced |
| archives, `src/arch.c` | index of resources, file | open, create, add, read, flush, close | minilzo, files | error paths, offsets after a flush |
| utilities, `src/utils.c` | log file, parameters | log, daemonize, change user, files shared by programs, temporary files | the operating system | one call made of several calls of the system |
| viewers, `src/tools/su_dbg_console`, `su_dbg_win` | a stream per program, the table of programs, the list of messages | accept, receive, show | the debug channel | framing; a thread per program; a table without a lock |

What makes each correct:

* buffer: nothing outside the block is touched, a reader sees exactly what was
  written, in order, less what was consumed, and every request for room returns;
* tracing allocator: one thread at a time in the list, one record for each
  block in use, no read of memory that was given back, quarantined blocks never
  reused, no report on a correct program, and the section is always left;
* aligned allocator: aligned blocks, headers that do not overlap, old content kept;
* lists: each operation is the one of the same name on sequences;
* registry: a map from key paths to values, the last set wins, close then open
  gives the same map, an acknowledged close is never lost to another process;
* debug channel: a viewer sees whole messages, each sent once, or none after a
  failure;
* semaphores: no post is lost or taken twice, a wait with a timeout ends;
* sockets and HTTP client: the bytes counted are the bytes moved, every
  descriptor is closed once, the data of an answer is the body that was sent,
  redirects and links lead where they say, a cookie is sent with its last value;
* archives: what a successful close wrote is what every reader gets;
* strings: a search finds what is there, a buffer is never written beyond its
  end, each user of a parser gets the pieces of his own string;
* daemon and shared files: one process comes back, away from the terminal; no
  file is emptied by a call that was not to;
* viewers: every message is shown once, in its order.

`PROJECT.json` lists every component with what is modelled of it, and under
"hazards" each place in the code where one of these can go wrong.

## 2. Modules

| module | models | notes |
|---|---|---|
| `ByteQueue` | what a growing buffer promises | abstract: a queue of bytes in which bytes can be reserved and filled in later |
| `SkyBuffer` | `src/buffer.c` | implements `ByteQueue` |
| `MCMemory` | | puts together `SkyBuffer` and `MemTrace`, one of them in each behaviour; instance for TLC |
| `SkyBufferProofs` | | theorems about `SkyBuffer` |
| `MemTrace` | the tracing allocator | any number of threads |
| `MCMemTrace` | | instances for TLC, and the count of bytes against the list |
| `MemTraceProofs` | | theorems about `MemTrace` |
| `KeyStore` | what the registry promises | abstract: a map from keys and names to typed values |
| `Registry` | the registry of the unix build, as one program uses it | implements `KeyStore` |
| `RegistryProofs` | | theorems about `Registry`, the refinement of `KeyStore` among them |
| `MCRegistry` | | instances for TLC: what a less careful program meets |
| `RegistryFile` | the file of the unix registry, as processes share it | one call of libc or the system per step, with crashes and a full disk |
| `MCRegistryShared` | | instance for TLC: two processes, no other fault |
| `RegistryFileProofs` | | theorems about `RegistryFile` |
| `DebugLink` | the debug channel, `src/debug.c`, and the text console | any number of threads in the channel |
| `DebugViewer` | the GTK viewer, `src/tools/su_dbg_win/su_dbg_win.c` | its threads and its timer |
| `Threads` | `src/threads.c` and the semaphore macros | over pthreads |
| `ThreadsProofs` | | theorems about `Threads` |
| `TcpTransfer` | `SU_SendTCPBuffer`, `SU_ReadTCPBuffer`, `src/socks.c` | over a stream that takes and gives parts |
| `Endpoints` | servers, clients, UDP and select of `src/socks.c` | the descriptors of a process |
| `HttpClient` | `SU_ExecuteActions` and what it calls, `src/web.c` | answers in packets, cookies, redirections |
| `WebPages` | pages, URLs and encodings of `src/web.c` | pure functions, and the iterator over inputs |
| `Words` | `src/string.c` | pure functions over short texts, and `SU_strparse` |
| `LinkedList` | `src/liste.c` | cells on a heap |
| `AlignedAlloc` | `src/memory.c` 107-195 | addresses are numbers |
| `Archive` | `src/arch.c` | a file is a sequence of items; the disk may be full |
| `WinRegistry` | the registry of the Windows build | one call of the Windows API per step |
| `Daemon` | `SU_Daemonize`, `SU_SetUserGroup`, `src/utils.c` | three processes |
| `SharedFile` | `SU_CreateFile`, `SU_OpenFile`, `SU_WriteFile`, `src/utils.c` | programs on one path, which somebody may remove the file from |
| `MCChannels` | | puts together `Threads`, `DebugLink`, `TcpTransfer` and `RegistryFile`; its cfg is an instance for TLC |
| `ChannelsProofs` | | theorems about `DebugLink` and `TcpTransfer`, and about all parts of `MCChannels` |
| `Services` | | puts together `WinRegistry`, `DebugViewer`, `Endpoints`, `HttpClient`, `Daemon` and `SharedFile`: what the library does with the system and with other programs |
| `ServicesProofs` | | theorems about all parts of `Services` |
| `Structures` | | puts together `LinkedList`, `Words`, `AlignedAlloc`, `Archive` and `WebPages`: what it does with its caller's memory and files |
| `StructuresProofs` | | theorems about these parts |
| `MCServices` | | instance for TLC of both and of `Registry`: one part of one of them |

### SkyBuffer

`mem`, `size`, `pos` and `delegate` are the fields of `struct SU_SBuffer`
(buffer.c:27-33); `life` is "none" before `SU_BF_Alloc`, "raw" until
`SU_BF_Init`. Each exported function is the action of its name. The two that
need room call `SU_BF_Realloc` in a loop: `Request` enters the loop, `Grow` is
one turn of it, and the action named after the function is what follows it. So
a loop that does not end is a behaviour, and a liveness property can refuse it.
`SU_BF_Realloc` itself is `Realloc`; a delegate is any function, so its answer
is any size up to `MaxSize`.

`Junk` is the content of memory nobody wrote. `reserved` and `holes` are
history: the positions the client got from `SU_BF_ReserveBytes` and may still
use, and the reserved bytes it has not written. The client follows the header:
positions become invalid when bytes are consumed (skyutils.h, note on
`SU_BF_ReserveBytes`), and it never writes more than it reserved.

### MemTrace

Every function is split where another thread can come between: `fn` and `step`
say where each thread is, `loc` holds its local variables. Inside the critical
section (`step` in `Inside`) the list is scanned and changed; outside of it are
libc's malloc, the byte count and most of `SU_realloc_trace`. The byte count
`SU_total_memory_allocated` is read in one step (`Load`) and written in
another, since nothing protects `+=`.

| code | actions |
|---|---|
| `SU_malloc_CheckInit` | `CheckInit`, `InitSection` |
| `SU_malloc_trace` | `CallMalloc`, `MallocRaw`, `Load`, `MallocStore`, `Enter`, `MallocRecord` or `MallocNoRecord`, `Leave` |
| `SU_free_trace` | `CallFree`, `Enter`, `FreeScan`, `Load`, `FreeStore`, then `FreeMark` in trace mode or `FreeRelease`, `FreeUnlink`, then `Leave` |
| `SU_realloc_trace` | `CallRealloc`, `Enter`, `ReallocScan`, `Leave`, then outside of the section `ReallocRefuse` or `ReallocTest`, which goes on in free, in malloc and free, or in `ReallocStoreOld`, `ReallocResize`, `ReallocStoreNew`, `ReallocRebound` |
| `SU_check_memory`, `SU_alloc_stats`, `SU_alloc_trace_print` | `CallWalk`, `Enter`, `WalkScan`, `Leave` |
| `SU_SetMallocConfig` | `CallSetMallocConfig`, `SetMallocConfig` |

A list node and its record are one `Node`; the order of the list does not
matter to any function and is left out. `bound[b]` is the size behind which
block `b` has its tail bound, so "might have been post-written" is
`bound # size` of the record. Clients write only inside their blocks, so the
head bound never changes; the fill pattern of quarantined blocks is left out for
the same reason. `owned` and `stale` are history: blocks the clients may
use, and blocks they freed into quarantine. A client uses only blocks it owns
and gives each to one call at a time; its one error is to free or resize a
stale block, which is what the mode exists for. The callback of
`SU_alloc_stats` is taken not to call the library.

`First` is the thread that makes the first call before the others start. With
`First = NoThread` all start together, and the section is made twice
(memory.c:215-221): `MutualExclusion` then fails, which is why the run and the
theorem have a first thread.

### Registry

`root`, `regFile` and `tree` are `_SU_RB_RootNode`, `_SU_RB_RegFile` and what is
below the root node. `regFile` is "closed" when the code has closed the file and
kept the pointer; `loaded` says whether the root node got a name, which it needs to be
written. A tree has the set of its keys, each by its path, and for each key the
sequence of its values, so that the search order and a second value of the same
name can show. `disk` is the file: absent, made but never written, or a whole
tree. Names are compared without case in the code; names that are equal so are
one name here. `last` is history: the last call and what it answered.

Each exported function is the action of its name. `OpenRegistry` first closes
what is open (`Flushed`, `UseUnopened`) and then ends in one of `OpenNoPath`,
`OpenNoLock`, `OpenNew` and `OpenLoad`. Every call is one step: the registry is
global state without a lock, and the model has one program with one thread in
it. Other programs show as a lock that cannot be had. `Exit` is the end of the
program, or its crash, between two calls. A use of a closed file, or of the name
of a root node that has none, sets `undefined`, after which only `Exit` is left: in
each such state the root node has no name and `strlen(NULL)` at registry.c:1160
follows. Error codes are left out but for the one the code tests itself, the
wrong type.

`Careful` is the client: it deletes an int before it sets the name again, and after
an open that failed it gets and sets nothing (it may open and close). Without the
first rule `SetIsSeen` fails (`registry_ints`). Without the second a set after a
bad path answers true, and so does the close that follows, though no file was
ever open.

`KeyStore` is the map. Its calls carry their arguments in `last`, so that a
step of the registry can only implement the call that was made. It leaves two
things open: whether an open succeeds, and whether deleting a key that holds
nothing succeeds. A key on the top level is never deleted: `SU_RB_OpenKeys` has
no node for its parent.

### RegistryFile

A tree is the set of processes whose settings are in it. The file is `head`,
what is written when the buffer of stdio is full, and `rest`, what `fclose`
writes; with `Big = FALSE` everything is `rest`'s. `at` is where a process is: `fopen`
for reading and writing (`OpenExisting`), or that fails (`OpenMissing`) and it
makes the file (`Create`); `flock` (`LockFound`, `LockMade`, `LockFails`);
the load of a file that is whole (`LoadWhole`), torn (`LoadTorn`: a part of it is
read, or a length that is none kills the process) or was made and never written
(`LoadEmpty`); `Set`; and the close with `Write`, `Unlock`, `Fclose` in the order of
registry.c:1220-1228. After a failed lock the closed FILE is kept ("failed"), after an
empty file the root has no name and the lock is held ("unnamed"): the next open or
close of such a process is its end (`DieFailed`), in a closed FILE or in the
`strlen(NULL)` of registry.c:1160. So a file whose maker died before it wrote is never
loaded again. `Crash` is the end of a process anywhere: the system takes its lock away. `excuse` is history: the three things that can lose a
setting. `Registry` has what one process sees of the tree between two calls;
`RegistryFile` has the file between two processes. They share `OpenRegistry` and
`CloseRegistry`: `LockFails` here is `OpenNoLock` there.

### DebugLink and DebugViewer

A thread that has called `SU_DBG_PrintDebug` goes through `run[t].at`: connect and
store when it is the first (`SU_DBG_Init`; the flag is set at its end), the
file, the slots, and for each used slot the parts of the frame. In front of each part
`select` waits, ten seconds at most, for room for anything (`Select`); the send behind
it puts word after word (`Send`), and waits without a limit when there is no room left
(`Stalled`) until the console reads, is gone, or a signal makes the send come back
short (`ShortSend`). `DropLink` is the failure of either, `LostLink` what a thread does
whose slot another one has emptied.
The environment variables of `SU_DBG_Init` are represented by what
`FileSetOptions` and `SocketSetOptions` do. A stream is a sequence of 4-byte
words: the length (`LenWords`, a `size_t`), the type (two words) and the text (two).
The console reads a length of four bytes, a type in one `recv` and a text, from one
program at a time; after `Restart` all its links are gone. A word that is taken for a
length and is none leads to `lost`.

`LenWords` is 1 for a build whose `size_t` has 32 bits, and `WholeUnlessMixed` is checked and
proved for that build. It is 2 on a build of 64 bits, where the console reads a `SU_u32` and is
out of step at the first message: the run `channel_64` shows it. `LinksInSlots` and the types are
proved for both. A port of 0 means the default according to
debug.c:304, and the code uses the value as it is; ports are left out.

In `DebugViewer` the listener and the thread of each program take the semaphore,
append to the list and post; the timer of the window holds it while it shows one
message after the other. `NbConns` is read and written in two steps. What a
viewer receives is framed as in `DebugLink`, and here a message as a whole.
`StartFails` is the failure of `NewThread`: the entry and the count are taken by then,
the socket stays open, and the listener ends, so that nobody is let in any more.

### Threads

`at`, `until` and `since` are the wait a thread is in, the time it gave to
`sem_timedwait` and (history) when it called; `Carried` is the arithmetic of
threads.c:207-217 with a second of `Sec` ticks: it carries above a second and not at it, so
that an end that falls exactly on a second is no valid time, and is refused (`Refused`). `NeverEarly` is what
the header says of -1, and fails there (`timeout_early`); `TimeoutNotEarly` says it of all other ends. `Interrupted` is EINTR: the wait begins again with the
same end. `pthread_kill` sends its signals to a thread, but a stop or a
kill is obeyed by the whole process (`process`), as POSIX has it. A thread of the
client posts only what it took (`holds`).

### TcpTransfer and Endpoints

In `TcpTransfer` bytes are numbered, so that order, loss and doubling show.
`send` and `recv` move any part; the loops are the actions of one turn each. The
reader may be blocking, timed, and ask for a full buffer or for what there is.
`Endpoints` has the structures a program holds and the descriptors in them;
`SU_SelectMultiSocketForRead` calls back for each ready socket, and the callback
may close, open and delete any of them before the loop goes on (`pass`).
Descriptors are given out lowest first, as the system does, so that a number can
come back.

### HttpClient and WebPages

`frames` are the actions that are left of a run and of the redirections inside
it: the recursion of `SU_ExecuteActions`. `at` is where the innermost one is. A
header line, the end of the header and a byte of the body are one item each of
`wire`; `Recv` takes any number of them, and `Header` and `Data` are what
`ParseBuffer` makes of them. A path is a sequence of segments; `Begins` says which segments begin with
the text of which others, since the path of a cookie is compared as the beginning of a text (`IsPath`): a cookie of
`/d` goes to `/de`, too. `latest` is history: the value each
cookie was given last. The built-in client has no SSL, so that an action with SSL
is refused.

`WebPages` has the functions on pages and addresses. A page is a sequence of tags,
an URL a sequence of segments. Each function is called with all the small
inputs, and its answer compared with a definition that does not share its loops. `Shifted` and `Outside` are what
base64 makes of bytes from 128 on: they are signed, are shifted as negative numbers, and lead to places in front of
the alphabet.

### Words, LinkedList, AlignedAlloc, Archive

`Words` calls each function of string.c with all texts up to `MaxWord` letters.
`Undefined` is the answer where the code reads outside of a string; where the
client cannot know (a `strcat` of an empty text, a trim of blanks only) the
property allows it and names it. The searches do not go back after a mismatch, and the properties say as much of
them as is true: a wild word that is said to match does (`WildMatches`), a place that `SU_nocasestrstr` tells has
the word there or right in front (`BuffersKept`). `SU_strparse` keeps its cursor in a global;
`PiecesAreOwn` (in `TextsTold`) is about one user of it or any users of `SU_strparse_r`.
A match that steps over the end of its text (`nocasestrwcmp`) is `Undefined`, too.

`LinkedList` has cells with a next pointer and `malloc` and `free` of them; `op` is
the last call. `NoCellLost` says that the list reaches what was allocated for it
and nothing else; `SurvivorsKeepOrder` says what each removal takes out, that a
removal by value leaves the one behind a removed element included. Positions are
of the chain, which is what a walk from the first cell meets.

`AlignedAlloc` has addresses as numbers: `LibcPlaces` is where libc may put a
block, at a multiple of `Grain`. The header in front of a pointer is destroyed
when a copy reaches it (`Copied`). `SU_realloc` copies the size of the old block: if that goes past the end of the
new one, or libc has answered NULL, `broken` says so and nothing follows. `shrunk` is history, the
most a call has taken off a block: there is no overrun before it is more than `Slack`, the bytes behind every block.

`Archive` writes and reads items in the order of the code: signature, count, headers,
contents, and behind a program the offset. `cut` is a file that lost its end: in a close when the disk is full,
which is noticed in a write (`WriteFails`) or only in `fclose`, where nobody looks (`EndFlush`), or since then
(`LoseEnd`). No compression library is built in; a file with a type that is none is an error at close.

### WinRegistry, Daemon, SharedFile

`WinRegistry` walks a path key by key, one API call per step, while other
programs create and delete keys and access may be refused. `client` are the
handles the program was given; every other handle has to be closed when a call
returns.

`Daemon` forks twice and reopens the standard descriptors, lowest number
first; the father's unwritten output is printed by each process that calls `exit`.
`SharedFile` splits `SU_OpenFile` and `SU_CreateFile` between their calls of
`fopen`; somebody may remove the file between any two steps (`Remove`), and a program that has it open goes on
with a file that is on no path (`linked`). `there` is whether the file has been there since the call began, `refused` whether
the call was not let open it at first.

## 3. Runs

Deadlock is not checked in the runs of `MemTrace`: a call of `abort` stops the
program, and a section that is never left stops every thread; both are in the
code.

| run | instance | shows |
|---|---|---|
| `memory` | the buffer: two byte values, default sizes 1 and 2, requests of up to 2 bytes, up to 3 in the buffer, sizes up to 4; or the tracing allocator: two threads, one block, records that do not fail | `TypeOK`, `WithinAllocation`, `NoForeignByte`, `NeverShrinks`, `RequestReturns`, `ImplementsQueue` of the buffer; `LockReleased` of the allocator |
| `trace` | two threads, two blocks, two sizes, any mode, walks that only hold the section, records that may fail | `TypeOK`, `MutualExclusion`, `OneRecordPerBlock`, `NoDanglingRead`, `RecordStaysFound`, `Quarantine`, `LegalCallNotReported` |
| `trace_leak` | two threads, one block, records that may fail | `LockReleased` is violated |
| `trace_total` | two threads, two blocks | `TotalMatches` is violated |
| `registry_ints` | two keys, two ints, a program that sets them as it likes | `SetIsSeen` is violated |
| `registry_retry` | two keys, a program that opens again after a failed open | `NeverUndefined` is violated |
| `trace_alarm` | two threads, two blocks, `SU_check_memory` | `LegalCallNotReported` is violated |
| `channel_64` | a thread, a slot, a link, lengths of two words | `WholeUnlessMixed` is violated |
| `timeout_early` | two threads, a semaphore of 0, seconds of two ticks, waits of one second | `NeverEarly` is violated |
| `registry_shared` | two processes, a file that was written before, a tree that fits into the buffer of stdio, no crash and no full disk | `WritingsKept` is violated |
| `channels` | see below | `PartsTyped`, `WholeUnlessMixed`, `LinksInSlots`, `NoTokenLost`, `TimeoutNotEarly`, `BytesInOrder`, `KeptUnlessExcused`, `CallsReturn` |
| `services` | see below | `ServicesTyped`, `StructuresTyped`, `NothingLost`, `NoCellLost`, `SurvivorsKeepOrder`, `TextsTold`, `PagesTold`, `HeldBlocksAreWhole`, `ArchiveKeepsAll`, `NoMessageLost`, `DataIsTheBody`, `CommandsAsTold`, `DaemonAsAsked`, `NotEmptiedUnasked`; `TypeOK`, `NothingDetached`, `NoShadowedValue`, `ImplementsStore` of the unix registry |

Bounds. In the buffer of `memory`, a request can be larger than the block, so that one
request grows it twice; the delegate can answer less than the request, less than
the block, and more; two reservations can live next to each other with bytes
before, between and after them; consumption can take nothing, a part, all and
more than all. In `trace`, two blocks are what a growing realloc
needs, one to take and one to give back; two threads are the most that one list
operation and one unlocked step involve; two sizes make growing, shrinking and
keeping different; the counter has a width of 1 bit in `trace`, where no
property reads it, and 3 bits in `trace_total`, where it never wraps. Blocks and
nodes are symmetric in `trace`, which has no liveness property.

In the unix registry of `services`, three keys in a chain are what a recursive deletion needs: the key
that is deleted, one that goes with it and one that stays; values of both types let a set
change the type. One name is enough for the search order, in which
only values of the same name matter.

The runs `memory`, `channels` and `services` each check several modules that share no
state: which one is chosen in the initial state (`part` in `MCMemory` and `MCChannels`, `service`
or `structure` in `MCServices`), the variables of the others have the value
`Off` (`Out`) or, for the module that is extended, an initial value, and no step
of another part is taken. So the states are those of the modules one by one, added
and not multiplied: 700,000 in `services`. A conjunct that begins with `part = "..." =>` is the
property of that module; the model would be no other with a run for each. Deadlock is not checked in the last two, since parts end: a
list of actions is done, a daemon runs, a bound is reached.

| part | instance | why it is enough |
|---|---|---|
| `debug` | two threads, one slot, two links, two calls, two words on the way | a full slot, a part for which there is only half the room, none, or enough, a link that is replaced, two first calls at a time |
| `sem` | a semaphore of one, two threads, seconds of two ticks, waits of one and two ticks or for ever | a post at the end of a wait, an end on a second, before and behind it |
| `tcp` | four bytes, three on the way, buffers of one and three, packets of two or all | a buffer sent and read in parts, parts of two buffers in one read, a read that ends in the middle |
| `reg` | two processes, a tree larger than the buffer, crashes, a full disk | each of the three ways to lose a setting, and none of them |
| `list` | three cells, two data | an equal neighbour, the ends, a full heap |
| `words` | two letters, texts of up to four, buffers of three, two users | a star that has to be retried, a text that just fits and one that does not |
| `block` | addresses up to 136 on multiples of 8, sizes 8, 16 and 24 | both paddings, neighbours on each side, a resize in place of another block, a copy that just fits and one that does not |
| `arch` | two contents, two indexes, two names, two resources | equal indexes and names, an archive behind a program, a cut in each item, a disk that is full in each step |
| `key` | a key and one below it, two handles, two types | a key deleted in the middle of a walk, no handle left |
| `window` | two programs, a table of two, a message each | a program that comes while another goes, messages while the timer shows, a thread that cannot be made |
| `ends` | two descriptors, two structures, two packets | a number that is given out again inside a pass |
| `http` | four lists of actions, six answers, two hosts, one redirection inside another run | all commands, a body in packets, a cookie set twice, directories whose names begin alike, redirections up, to the root, to another host |
| `page` | the addresses, links and forms of the module, bytes up to 200 | each form of an address and of a tag, bytes whose sign is set |
| `unix` | a key, one below it and one below that, one name, a string and an int, locks that may fail | a deletion in the middle, at the end and of all; a set that changes the type |
| `daemon` | every set of open descriptors, every failure | one standard descriptor missing; each step failing |
| `file` | two programs, two writes | every order of the steps of two calls, a file removed and made again between any two of them |

Fairness. In `SkyBuffer` the turns of a call that has started are weakly fair:
nothing but the caller's own thread is involved. In `MemTrace` every thread
that can take a step of a function it has called takes one; entering the section
is only weakly fair, since a pthread mutex promises no order. No client is ever
obliged to make a call. `Registry` has no liveness property and no fairness.
In `channels` each thread that is inside the debug channel goes on as far as it can: the
end of `select`'s ten seconds is one of its steps, a signal that ends a send is not. The
console need not read. So a thread can stay in the send behind a `select` for ever, and
`CallsReturn` is about the calls that do not (`Stalled`). Time passes, and the system wakes who
waits for the semaphore once it can be had or the time is over; who has the
semaphore need not post it. In `TcpTransfer` `select` returns when its time is
over; the sender need not send. Every fairness condition is restricted to the
part that is checked.

### What the code does otherwise

* memory.c:284-287: when there is no memory for a record, `SU_malloc_trace`
  returns without leaving the section (`trace_leak`).
* memory.c:267, 368, 370: the byte count loses updates (`trace_total`).
* memory.c:369-371: `SU_check_memory` can see a shrinking block with its new
  size and not yet its new bound, report it and abort (`trace_alarm`).
* registry.c:1316: an int that is set again is appended behind the one that a
  search finds (`registry_ints`).
* registry.c:1066, 1076: a registry file that cannot be locked is closed and kept as the
  open one; the next open uses it (`registry_retry`).
* su_dbg_console.c:57, debug.c:500: a console reads four bytes of a length that has eight on a
  64-bit build (`channel_64`).
* threads.c:213: a wait whose end falls exactly on a second is told at once that its time is
  over (`timeout_early`; threads.c:185, skyutils.h:816).
* registry.c:1227, 1058: the lock of the registry file is given back before the
  file is written, and a file that another process has made is emptied before the
  lock is asked for: a setting whose close answered true can be lost
  (`registry_shared`; skyutils.h:987).

Each is a finding in `PROJECT.json` with the line of the documentation it
disagrees with. The mutants listed there are the plausible bugs that each
property catches.

What these runs show by itself, the runs that pass name in their properties: `WholeUnlessMixed`
is checked with `LenWords = 1`, `TimeoutNotEarly` leaves out the ends on a second,
`KeptUnlessExcused` the race. The same goes for the following, where the code does not do what
a comment says, or does something no comment speaks of: the property says exactly how far the code keeps it,
and its comment names the rest.

* string.c:126 "True if wild equals s": `SU_strwcmp` does not go back to an earlier star, and
  says that "aba" does not equal "*a". `WildMatches` has the half that is true.
* string.c:104 "like strstr(), but nocase": `SU_nocasestrstr` does not go back either; it misses places, and
  tells 3 for "ab" in "aab" (`BuffersKept`).
* string.c:83 "Returns -1 if string truncated": `SU_snprintf` cuts one byte more than it has to, and answers -1 for
  buffers of one byte only (`BuffersKept`).
* skyutils.h:505 "If 'CreateIfNotPresent' and file does not exist then create the file": a file that exists and may not
  be opened just now is emptied, if it may be made. skyutils.h:504 "If 'FailIsExists' and file already exists, returns
  NULL": a file that may not be read, or that another program makes between the two opens, is emptied.
  `NotEmptiedUnasked` says that nothing else empties one.
* skyutils.h:533 of `SU_realloc`: to a block more than eight bytes smaller it copies beyond the new one, depending on where
  libc has put it, and to NULL when libc has refused (`HeldBlocksAreWhole`).
* arch.c:880: `SU_AR_CloseArchive` answers true when the disk was full in `fclose` (`ArchiveKeepsAll`).
* web.c:875-887: bytes from 128 on are encoded with places in front of the base64 alphabet (`EncodingTold`);
  web.c:1056-1061: a cookie of `/d` goes to `/de` (`CommandsAsTold`); web.c:645: a packet that ends inside a header line makes
  `ParseBuffer` search for its end in what an earlier packet left (`RecvCut`), one that ends right
  behind the header leaves the line end in the data (`DataIsTheBody`); a redirection without a
  location is a use of a null pointer (`Moved`); after a send of a file, or a failure of a command, a
  socket may stay open (`lost => failed`).
* debug.c: two threads in the channel at a time mix their frames, use a file that was
  closed and leak a link: `WholeUnlessMixed` and `LinksInSlots` speak of what was done before (`mixed`).
* socks.c:195: a read that times out forgets what it has read (`told.cut`); socks.c:539: a connect that fails late leaves
  its socket open (`lost`).
* su_dbg_win.c:1410: the table of the viewer and its count are changed by several threads without a lock (`raced`);
  su_dbg_win.c:1474: a thread that cannot be made leaves its entry, its count and its socket, and ends the listener
  (`EntryPerLink`).

## 4. Proofs

For all values of the constants that satisfy the named assumptions of the
modules:

`SkyBufferProofs`
: The inductive invariant `IInv` has the type invariant, the bounds of `pos`,
  reservations and holes inside the block, the disjointness of reservations, and
  that cells below `pos` are bytes of the client or holes. Each property alone
  is not inductive: that consumption shows no junk needs the bounds, and that
  filling in a reservation touches no other needs the disjointness. `TypeCorrect`,
  `StaysWithinAllocation` and `NeverExposesForeignBytes` follow. `ImplementsByteQueue` is the
  refinement: each action maps to the operation of the queue or, for growing,
  resizing and requesting, to a stutter. `ImplementsClientsQueue` says the same of the
  queue whose inputs are those of the buffer's client, which is the property TLC
  checks; it needs `Bounded` besides `IInv`, that a request in progress fits what the
  client keeps. `RoomIsNeverTakenBack` is the action property `NeverShrinks`: a turn of a
  loop asks for more than the block holds (`NoRoom`), a forced resize for what it
  holds, and `SU_BF_Realloc` raises any smaller answer of the delegate to that.

`MemTraceProofs`
: `TypeCorrect` is proved with `LocalsOK`, which says what the place of a thread in a
  function tells of its local variables (the node it goes on with exists, the
  block it frees is a block). `SectionIsExclusive` is proved with `SectionInv`: until
  the section has been made only `First` has left the client's code, so that nobody is
  inside when it is made; after that only `Enter` and `Leave` touch it. All
  other actions are shown `Quiet` once, and `Quiet` steps keep the invariant.
  The properties of records and quarantine are proved with one invariant, `IInv`. Its
  heart is `ClaimInv`, which says of each block who has it: the clients, the
  quarantine, a call that has its record in the list (`Holds`), a call that has none yet (`Raw`),
  or a call that gave it back and has its record still to unlink (`Unlinking`), at which time
  another call may have been given the same block. `OneRecordPerBlock` alone is not
  inductive, since it says nothing of the blocks between malloc and the section; nor
  is `NoDanglingRead`, which needs that a record behind a scan is not of a block
  somebody is about to free. That the list has no other records when no call is on is where `RecordsMatch` is needed. `BoundInv` adds that the tail bound is where the record says
  but for a call that is just moving it. From these `RecordsAreOfBlocks`,
  `ScansReadLiveBlocks`, `FoundRecordIsKept` and `QuarantineIsKept` follow, and
  `ReportsAreOfMisuse` for clients that do not call `SU_check_memory` while
  others work: with it the property is false (`trace_alarm`). Assumed: `First \in Threads`.

`RegistryProofs`
: A tree keeps its parents (`Attached`) under each change of it, and, where no int is
  set over an int, its names single (`Unshadowed`); `IInv` says both of the
  tree in memory and of the one in the file, since an open brings the one to the place
  of the other, next to the types (`Shape`, `LastOK`). `TypeCorrect`, `KeysHaveParents` and
  `NamesHaveOneValue` follow. For `ImplementsKeyStore` the second half of the module says of each
  change of a tree which entries of the map it changes (`SetEntry`, `DelEntry`, `DelKeyEntries`), and
  then maps each step to the call of `KeyStore` it was, or to a stutter. That a search finds
  the value that was set is where single names are needed. `CarefulSetIsSeen` is
  the property that `registry_ints` refutes, for a program that keeps to the rule.
  Assumed: `Careful`, for the last three; that no value is `None`, what a get answers that finds
  nothing, is an assumption of `Registry` itself.

`ChannelsProofs`
: `TransfersInOrder` needs to know where each byte is (`InOrder`) and how many there are
  (`Counted`) as long as no read has lost a part of its buffer, and what the two
  calls know in the middle of their loops (`CallsKnow`).
  The steps of a thread in the debug channel are first told apart by what they do to slots
  and links (`Does`: it connects, stores, begins a message, sends a part, drops a link, or
  does none of these); each part of `DebugInv` is then looked at once per kind of step.
  `LinkInv` holds whoever is in the channel: the console serves the link it reads, the
  others it has not accepted wait once each, a link nobody has used is empty. While one thread at a
  time is in the channel, `SlotInv` says that slots hold open links, no link twice, and that a
  link which is about to be stored is in no slot: `LinksInSlots` is what that comes to.
  `StreamInv` says that what is on a link continues the messages begun on it exactly
  where the console has stopped reading (`Continues`), and how many words are missing at its end
  while a thread sends, in the middle of a part or between two; so the console never takes a text for a length, and
  `WholeUnlessMixed` follows. `MessagesAreWholeOn32Bits` has `LenWords = 1` for a hypothesis: with two the
  property is false (`channel_64`). `LinksInSlots` and the types hold for both builds. `SettingsAreKeptUnlessExcused` and
  `PartsKeepTypes` take the invariants of `RegistryFileProofs` and `ThreadsProofs` over to
  the parts. Assumed (`DebugAssumptions`, `TcpAssumptions`): at least one slot,
  sizes that are natural numbers, `NoSock` is no link; the assumptions of the other proof modules.

`RegistryFileProofs`
: `IInv` says that who holds the lock is where the lock is held, and, as long as
  nothing excuses a loss, that one process at a time is busy with the file, that its tree
  has what was closed, and that the file has it, too, but while it is being written. A process that was
  refused the lock is not busy; one that found the file empty is, as it holds the lock until its end; and a file that is not
  written has no settings, whoever made it.
  `KeptUnlessExcused` alone is not inductive: it only speaks of moments without
  an open registry. `SettingsAreKept` holds for any number of processes, trees
  that fit into the buffer or not, and any faults. Assumed: `Nobody` is no process.

`ThreadsProofs`
: `TokensAreKept` needs that a thread that waits has not got the semaphore.
  `TimeoutsComeInTime` needs `DeadlineInv`: the end given to `sem_timedwait` is the
  time of the call and the timeout, in whole seconds and the rest, or falls exactly on a
  second, where the theorem says nothing; `CarriedKeepsTheEnd` is the lemma about the arithmetic, for any second
  and timeout. Assumed: finitely many threads, a positive length of a second.

`ServicesProofs`
: Each of the six parts has an inductive invariant of its own; `ServicesInv` says it of
  the part that was chosen.
  `KeyInv`: while a walk through the Windows registry is on, it holds the handle of the key
  it has come to, which the program has not, and no other handle. `WindowInv`: what was sent and not yet
  shown is the list in order, and who shows it has the semaphore; as long as no two threads changed
  the table at once (`raced`), each entry has one owner by the place its thread is at
  (`EntriesOwned`; that of a program whose thread could not be made is the listener's, which has ended), and the count is that of the entries but for the thread about to
  write it (`EntriesCounted`). `EndsInv`: a descriptor is open iff it was lost or is in
  one structure, never both and never in two (`EndsOwned`).
  `HttpInv` has the frames, the sockets (open exactly between
  connecting and the answer), and, for an answer in packets, that what has come is the
  beginning of what the server sends (`AnswerKept`): before the end of the header no data
  is there, behind it the data and what is on the way are the body, but for a line end in
  front. `DataIsTheBody` alone is not inductive, since it speaks of complete answers only.
  The lemmas are about where the header of a part of an answer ends, what its lines tell,
  and parts of parts of sequences. `CommandsInv` is about the commands: a run within another has one action at most, that of its redirection,
  and the answer being read is one the server gives; and the jar has at most one cookie of a name, domain and path, with the value given last
  (`JarKept`). What is recursive over lines, cookies and segments of a path is written as a function whose
  row i + 1 is made of row i, and `RowsThere` takes the least row for which such a function would not
  be one. So `AllDueIsChosen` (what goes along is what is due, each cookie once) and `LeadsWhereTold` (a way up
  ends in the directory told) hold for jars and paths of any length. `DaemonInv`: which of the three processes can be there with
  which other (`Family`), what the grandson has done by the place it is at (`Progress`), what its fathers
  have printed (`PrintedByFathers`), and whose ids it has (`IdsAsAsked`).
  `FileInv` needs that a call knows whether the file has been there all the time, also when others remove it and make it again, and that
  one that was not to empty it comes to `fopen` with "wb" only if it was missing or refused. From these
  follow `EverythingIsReached`, `MessagesReachTheWindow`, `AnswersAreBodies`, `CommandsGoAsTold`, `OneDaemonComesBack`,
  `NoFileIsEmptiedUnasked` and `ServicesKeepTypes`, for any number of handles, programs,
  messages, descriptors, packets, requests and redirections. Assumed:
  `ServicesAssumption` (bounds are natural numbers, marks like `Nil` are none of the values
  they stand beside, paths are sequences of names), `RequestsAssumption` (requests are lists of
  actions) and `AnswersAssumption` (answers are sequences of lines and of bytes, where a length is told it is that
  of the body, and a place without a host is a path of at least one segment).

`StructuresProofs`
: Blocks: `Well` says of any set of blocks, headers and pointers that blocks are apart,
  and that each pointer has its own block with the header as written; `NewBlockKeeps` and
  `ReleaseKeeps` are about one block more and one less, so that `SU_realloc`, which
  has both in the middle of its one step, is the two of them. `BlocksStayWhole` holds
  for any arena and sizes, until a copy of `SU_realloc` goes past its block or to NULL; that the first of these
  needs a block made smaller by more than `Slack` is part of it. Assumed: libc aligns to a multiple of eight.
  Lists: `NoCellLost` speaks of the walk along the list, and is not inductive, since the
  walk says nothing of a cell it does not meet. `ListInv` says that numbers can be given to the used cells so that
  the list begins with the lowest and each cell is linked to the one with the next higher
  number (`Chained`). `AddKeeps` doubles the numbers and puts the new cell in
  between, `UnlinkKeeps` leaves them as they are, so both keep the order of what stays (`ChainKept`). That the
  walk then meets all used cells in this order (`ChainHasAll`) is where induction is needed: over
  the steps a walk may take, by the least number of steps for which it would fail
  (`WalkByRows`, `WalkGoesOn`). `ListsKeepTheirCells` and the action property `ListsKeepTheirOrder` follow
  for a heap of any size and any data. Assumed (`StructuresAssumption`): the heap is finite, NULL is no cell.
  Archives: `ArchiveKeepsAll` speaks of archives that are closed, and of what a reader gets. `ArchInv` says where
  things lie. While a close goes on and has not failed (`Written`), the resources it has passed lie in the file, one
  behind the other, each a header and as many bytes as the header tells (`LaidSoFar`), though
  the file of the next one may have another length than when its header was made. After it (`Kept`), what was promised lies
  in the file from some place on as far as the file goes, no other item of the file is a signature, and the
  last item leads to that place, unless the end was lost, in the close itself (a full disk) or since. Numbers and names are those of one resource each (`Unique`), which is where
  the checks of `SU_AR_AddRes` are needed. `KeptBehindProgram` and `KeptWithoutEnd`
  move and cut such a file. That a reader finds what lies there is the other half: `Headers` reads k headers by k - 1
  of them (`HeadersByRows`), and `ReaderFinds` takes the least number of headers for which it would
  find something else; `StartsWhereLaid` says that `SU_AR_OpenArchive` begins there. `ArchivesKeepAll` follows
  for any number of resources, contents and programs. Assumed (`StructuresAssumption`):
  contents are sequences, `MaxRes` is a natural number.
  Types: `StructuresKeepTypes` is about all five parts; for a page it needs that what `InputsOf` finds, recursive
  over the tags, are inputs with the tags behind them (`InputsOfTyped`), for a string's users that each has a cursor.

The theorems of the last five modules state properties the runs `channels` and `services`
check: those of `ChannelsProofs`, `ServicesProofs` and `StructuresProofs` in the words of the run, of the specification
with all its parts, the others of the module in question. The assumptions are
those of the modules or hypotheses of the theorems, named in each proof module. The invariants the runs `memory`,
`trace` and `channels` check are all proved.

Only model-checked: liveness (`RequestReturns`, `LockReleased`, `CallsReturn`), which needs
`ENABLED`; and of `services`, `TextsTold` and `PagesTold`, whose functions are recursive over texts and pages and are compared with
reference definitions. The properties of
the violation runs are false in the instances of those runs. `ImplementsQueue` and `ImplementsStore` are both checked and
proved.

## 5. Not modelled

* The Windows branches of threads, memory and debug, the Windows dialog, the
  widgets of the viewers, and text formatting.
* Vendored code: minilzo. The archives are those of a build without compression
  libraries.
* Aligned allocator: what a program does after a copy past a block or to NULL.
* Failure of `malloc` where the code tests no result (`buffer.c`, lists,
  strings). Sizes that overflow `size_t`.
* Registry, unix: the byte format of the file, write errors other than a full disk,
  threads, handles kept over a deletion, enumeration, a `NULL` string, and the
  functions that abort with "TO DO". Registry, Windows: enumeration and access modes.
* Debug channel: the outputs printf, popup and OutputDebugString, which are single
  calls; the parsing of the environment.
* Sockets: TCP to several receivers (`SU_SendTCPBufferToMultiSocket`), names of hosts
  and networks. HTTP: SSL, proxies (`SU_SendProxySSLConnect`), images, the text of a
  page (`SU_GetStringFromHtml`), sizes of buffers.
* Utilities that are one call of the system or pure formatting: log file
  (`DebugLink` has it as the channel uses it), parameters, temporary files, time,
  directories.

## 6. Plan

1. Theorems about what is recursive over texts and pages: wild words, the edits of
   a string, the links of a page.
2. The streams of a 64-bit build behind the first message, which the console reads out of step.
3. The registry, part two: handles and enumeration, and the file with two trees.
