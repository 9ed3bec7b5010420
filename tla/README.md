# A TLA+ model of python-systemd

The modules in this directory model python-systemd, the Python interface to
libsystemd, together with the forward-secure generator and the hash that this
tree adds to it. TLC checks the models on small instances; TLAPS proves the
theorems listed below for every value of the constants. `PROJECT.json` ties
every definition to the lines it stands for, every property to a mutated
definition that breaks it, and every hazard to the properties that guard it.

All paths below are relative to `src/systemd/`.

## 1. The system

| part | files | state | operations |
|---|---|---|---|
| Reader | `_reader.c`, class `Reader` in `journal.py` | `self->j`, a raw pointer to a libsystemd handle, which holds the location, the matches, the files it knows and its watch | open, close, destructor, `_next`/`_previous`, `get_next`, `_get_all`, `_get_realtime`, `_get_monotonic`, `_get_cursor`, the `seek_*` calls, `add_match` and its relatives, `log_level`, `query_unique`, `get`, `test_cursor`, `get_catalog`, `enumerate_fields`, `get_usage`, `fileno`, `get_events`, `get_timeout_ms`, `process`, `wait` |
| Sending | `_journal.c`, `send`, `stream`, `JournalHandler` in `journal.py` | the fields of each handler | `send`, `sendv`, `stream_fd`, `emit`, `map_priority` |
| Generator | `fsprg.c`, binding `_fsprg.c` | none of its own: the caller keeps keys and states | `GenMK`, `GenState0`, `Evolve`, `Seek`, `GetKey`, `GetEpoch`; `setup_key`, `evolve`, `seek` |
| SipHash | `siphash24.c`, binding `_siphash24.c` | four words, the padding and the length | `init`, `compress`, `finalize` |
| Service manager interface | `_daemon.c`, `daemon.py` | the environment of the process, its descriptors | `listen_fds`, `listen_fds_with_names`, `notify`, `booted`, `is_*` |
| Login monitor | `login.c` | a raw pointer to an `sd_login_monitor` | open, close, `__exit__`, destructor, `fileno`, `get_events`, `get_timeout`, `flush`; lists of seats, sessions, users and machines |
| Poll timeouts, error mapping | `pyutil.c` | none | `absolute_timeout`, `set_error`, `Unicode_FSConverter` |
| Helpers | `util.c`, `strv.c` | none | `parse_sockaddr`, `safe_atou`, `loop_read`, `ppoll_usec`, `safe_close` |
| Identifiers | `id128.c` | none | one library call each |

How they interact. The classes in `journal.py` call the extension modules, which
call libsystemd. An extension call keeps the interpreter's lock (GIL) from its
first line to its last, or releases it around the library's work
(`Py_BEGIN_ALLOW_THREADS`): then another thread runs, and may make calls on the
same object. A Python method is several extension calls, between any two of
which the interpreter may switch threads or run a signal handler. journald
writes, rotates and vacuums journal files at any time. A signer evolves the
generator's state once per epoch; a verifier has the verification key only and
seeks. A service inherits descriptors and a notification socket through its
environment, and passes both on to what it forks and executes; it finds the
descriptor it wants by the address it is bound to, which `_daemon.c` has `util.c`
parse. A Reader and a Monitor are file objects for `select.poll()`: a client sleeps
there until the descriptor is readable, makes the object take the events in
(`process()`, `flush()`) and looks again.

What is hard here:

* *Lifetime.* `self->j` is a raw pointer. `close()` frees what it points to under
  the GIL, while a call of another thread may be inside libsystemd with it.
  Opening stores into `self->j` (and into a Monitor's `self->monitor`) without the
  GIL, also between the two statements of a `close()`.
* *Atomicity.* `get_next()` is five extension calls that each ask the handle for
  its current entry. What makes the result one entry is only that nothing moves
  the handle in between.
* *Ordering.* A follower reads to the end, waits and reads again; what is written
  between the two must wake it. Files appear and vanish under it.
* *Waking.* What makes a descriptor readable must be taken away, or the client
  spins, and not before it was seen, or the client sleeps. A deadline on the
  monotonic clock becomes an int of milliseconds.
* *Partial failure.* `add_match()` with several matches, `seek_monotonic()`, which
  asks for the boot id first, and `_get_all()`, which takes an error for the end.
* *Numbers.* The epoch is a `uint64_t` that is shifted against; squares are
  recomputed by a power of two modulo two primes and put together by the Chinese
  remainder theorem; seven bytes may wait in SipHash's padding; a port is read as an
  `unsigned long` and stored as a `uint16_t` in network byte order.
* *Merging.* An entry that a handler sends is put together from four places, of
  which each may name the same field.
* *Forgetting.* `unset_environment` decides who is told of descriptors later.

`PROJECT.json` lists each hazard at its line, with the properties that would
catch it going wrong, or why none covers it yet.

What makes each part correct:

* Reader: no handle is used after it was freed, `close()` loses none that it was
  to free, an entry comes from one record, every method looks atomic to its
  caller, a follower gets every entry and comes to rest after it,
  `query_unique()` gives all values of its field.
* Generator: whoever seeks with the seed holds the state that evolving reaches,
  for every pair of primes and epoch, and seeking ends.
* SipHash: the hash does not depend on how the input is cut.
* Sending: an entry has its own record's fields, in the documented order of
  precedence, and nothing of the records before it.
* Service manager interface: descriptors reach the process they were passed to,
  once, under their own names.
* Login monitor and poll timeouts: like the Reader's lifetime; a client's list is
  current whenever it sleeps; a poll ends when its deadline has passed, and not
  much later.
* Addresses: a text is read as the address it denotes in the notation it is
  written in, or refused.

## 2. Modules

```
SdJournal            libsystemd's journal and its handles (external)
  JournalReader      the Reader of journal.py and _reader.c
  AtomicReader       what a Reader promises; JournalReader implements it
    MCJournalReader  instances for TLC
    JournalReaderProofs
PollTimeout          absolute_timeout() of pyutil.c
  JournalFollow      JournalReader and PollTimeout: clients that follow the journal
    MCJournalFollow, FollowProofs
LoginMonitor         login.c
  LoginClient        a client that keeps a list up to date with a Monitor
    MCLoginClient, LoginProofs
FsprgMath            the arithmetic of fsprg.c
  Fsprg              signer, verifier and the binding
  KeyChain           what the generator promises; Fsprg implements it
    MCFsprg, FsprgProofs
SipHash              siphash24.c
  MCSipHash, SipHashProofs
JournalHandler       send(), sendv() and JournalHandler
  MCJournalHandler, HandlerProofs
Daemon               daemon.py and _daemon.c: descriptors and notifications
  MCDaemon, DaemonProofs
SockAddr             parse_sockaddr() of util.c and the notations it reads
  IsSocket           is_socket_sockaddr() and is_socket_inet() of _daemon.c
    MCIsSocket, IsSocketProofs
```

Definitions whose comment begins with "Fault:" are never part of a
specification. Each is the definition after it with one plausible bug; putting
it in that definition's place makes TLC report the property that `PROJECT.json`
names beside it.

### SdJournal

What libsystemd and journald do, as the code uses them. `log` is the sequence of
entries written so far; an entry has a content, a file and, when vacuumed, is
gone. `disk` is the set of files. A handle is a record: whether it is open, its
location (head, tail, sought or at an entry), its filter, the files it knows
and whether it watches the directory. A filter is a conjunction of
disjunctions of sets of matches, as `sd_journal_add_match()` builds it. `Write`,
`Rotate` and `Vacuum` are journald's steps. An entry's data is "whole", "cut" (an
error after the first fields), "none" (an error before the first), "broken" (a
field without "=", for which `extract()` raises) or "odd" (a value for which a
converter raises something else than `ValueError`). A handle also holds the field
of the last `sd_journal_query_unique()`, from where it is enumerated.

### JournalReader

`j` is `self->j`; `lib` the handles; `pc` and `call` where each actor is in its
call and what it captured; `part` the dictionary being built; `ret` what the last
call gave; `ub` and `got` record the use of freed handles and the entries handed
out. A handle's pointer is captured in the step that begins a call, under the
GIL, and used in the step that ends it. A call that keeps the GIL is one step,
with one exception. `close()` is the two statements that it is in the code:
`CloseFrees` and `CloseClears`. Nobody else has the GIL between them, but
`sd_journal_open()` does not need it: `__init__()` is `Open`, `OpenStores`, which may
come there, and `OpenReturns`. `Runs` says who has the GIL, `Alone` what the
interpreter lets run at all.

What a call raises is what `set_error()` makes of the errno: `ValueError` for `-EINVAL`
where the call has a message for it, `MemoryError` for `-ENOMEM`, `OSError` otherwise.
`-ENOMEM` is left out of the questions about one entry inside `get_next()` and of
`add_match()`: the abstract step is settled before them.

`get_next()` is `GetNext`, `NextMoves` (or `NextEnds`, or an error), `GetAll`,
`GetRealtime`, `GetMonotonic`, `GetCursor`: `_next()` and the four calls that fill
the dictionary. An entry is abstracted to its number, so that a dictionary shows
which entry each of its parts was read from. `add_match()` and `log_level()` are
one step for each match. `query_unique()` is `QueryUnique`, `UniqueReturns`, which
leaves the field in the handle, and `UniqueValues`, with the GIL again;
`get_catalog()` asks for the `MESSAGE_ID` likewise when there is no text. `Asks` is a
question that keeps the GIL. `Reader.__exit__` is `close()`. `Overlap` tells threads,
which run while another is inside libsystemd, from signal handlers, which do not.

`ReturnsFreed` is the undefined behaviour: a call that comes back to a handle
which was freed under it. What it does then is not modelled further; it is
recorded in `ub` and ends with an error.

### AtomicReader

One handle, one step for each method. `JournalReader!AtomicSpec` maps `j` and `lib`
to the handle; the abstract step of `get_next()` is the move inside libsystemd,
which settles what the calls after it return, and that of `add_match()` its beginning,
which settles the matches that come before one that is refused. The mapping looks ahead from there
only to the entry the handle is at, so that a rotation or a vacuum between the
calls must not change the outcome. The abstract `Open` takes a closed Reader: a client
that runs `__init__` on an open one ("reinit") is outside this promise, and is in
`reader_threads`. So is a Reader that a signal handler or another thread moves, too.

### PollTimeout and JournalFollow

`AbsoluteTimeout` is `absolute_timeout()` with the resolution of the clock (`PerMs`)
and the width of the int (`IntMax`) as constants. `JournalFollow` is a client, alone
in its process, in one of three modes: `wait()`; `poll()` on a local journal, whose
descriptor becomes readable with every change; and `poll()` on a journal of another
host, about which no event tells and for which libsystemd gives a deadline. Its
steps are those of `JournalReader`: `Reads` is `__next__`, `Waits` is `wait()`,
`Registers` is `p.register(j, j.get_events())`, `Polls` is `p.poll(j.get_timeout_ms())`,
`Wakes` and `Processes` are `process()`. `clock` is the time since the handle last
processed its events, `nap` what is left of the sleep; `Tick` advances both.

### LoginMonitor and LoginClient

`monitor` is `self->monitor`, `lib` libsystemd's monitors, `world` what logind and
machined keep. `New` and `Flush` begin the two calls that release the GIL, `NewStores` is
the store of `sd_login_monitor_new()`, and `NewReturns`, `NewFails`, `FlushReturns`,
`FlushFails` and `FlushFreed` end them. `close()` is `Closes` and `CloseClears`, as for the
Reader; a monitor that is stored between the two is marked `crossed`. `Exit` is `__exit__`, which hands its arguments to `Monitor_close()`: with assertions it
aborts the interpreter, without them it closes. `host` says which build it is and
whether threads overlap; both are open. `Lists` is one of `seats()`, `sessions()`,
`machine_names()` and `uids()`, which fail as a whole for a name that is not UTF-8.

`LoginClient` is the client of the example in `docs/login.rst`, continued: open,
register, list, poll, `flush()`, list again; when its calls raise it starts over.
Other actors close the Monitor at any time. `get_timeout_ms()` is always -1 for a
Monitor, so that the client sleeps without a deadline. There is no abstract
specification: what a client is promised is `SleeperIsCurrent`.

### SockAddr and IsSocket

A text is a sequence of pieces, each a bracket, a colon, two colons, an address, a
name or a number, and `ParseSockaddr` follows `parse_sockaddr()` over them: what `strchr`,
`inet_pton`, `strtoul` and `if_nametoindex` make of the pieces is all that it tells
apart. `InetPton6` is a dictionary of the texts that are IPv6 addresses, in full or
with "::", whose groups are themselves names and numbers; `TooLong` are the words that
do not fit `IF_NAMESIZE`. Numbers keep their widths (`ULongMax`, `UIntMax`, a port of two
bytes).
`Denoted` is the reference: the notations that the comments of `util.c` list, with
the addresses they stand for. `IsSocket` puts texts together and asks about
descriptors; the kernel's support for IPv6 and flowinfo vary, and
`HaveIsSocketSockaddr` is the build.

### FsprgMath, Fsprg and KeyChain

Numbers are natural numbers, as gcrypt's are; the epoch has `Width` bits. Which
primes and which square root a seed gives is SHA-256 and a prime search: any
function from seeds is allowed (`keyOf`, `rootOf`). `twopowmodphi`'s loop that counts
bits is a step for each bit, with the shift undefined from the type's width on:
the result is what the shift instruction gives or nothing. `PySeek` is the
binding's `seek()` with a well-formed verification key, of which only the first
byte reaches the seed. A call of the binding that raises for its arguments makes no
new state: it is a step that changes nothing. `KeyChain` is a sequence of states, fixed when the key is
set up, along which the signer walks and to any place of which a verifier jumps.

### SipHash

The rounds are a bijection of the state for each word: instead of `v0` to `v3` the
model keeps the sequence of words mixed in. A word is its eight bytes, each the
set of the bytes or-ed into it, so that an or into a byte that is not clear
shows. `Compress` is the whole of `siphash24_compress`. `PiecesHashAsWhole` compares
with `HashOf`, which cuts the finished message into words.

### JournalHandler

A field is its name, a value the place it comes from. `Construct` is `__init__`,
`Emit` is `emit` with its outcomes (the message cannot be formatted, a keyword
is given twice, a value or libsystemd refuses, the entry is sent), `Send` a direct
call, which raises for a value or when libsystemd refuses. A record may have an
exception's text, its information, or both. `logging.Handler.handle()` holds the handler's lock around `emit()` and
`sendv()` keeps the GIL, so each is a step. The attributes of a record whose names
are lower case are sent too, and journald drops them: they are left out.

### Daemon

For each process its environment, its open descriptors and those marked
close-on-exec. `Start`, `Fork`, `Exec` and `CloseFd` are the manager's, the kernel's and
the client's; `sd_listen_fds` and its relatives are modelled from how `_daemon.c`
uses them, including that they unset the environment whatever the outcome. An int
has `2 * IntMax + 2` values, so that a descriptor which does not fit is cut to
another one. `HavePidNotify` and `HavePidNotifyWithFds` are the build: without them
`notify()` raises for what it would need them for. `given`, `took` and `hushed` remember
what was passed and asked.

## 3. Runs

| run | instance | checks |
|---|---|---|
| `reader_atomic` | one thread that opens a Reader once and closes it; 2 entries, 2 files, skips 0 to 2, entries whole, unreadable or broken; three matches in one call, of which the second is refused, levels 0 and 8 | `TypeOK`, `AtomicSpec` |
| `reader_handler` | a thread that filters and queries, and a signal handler that closes or queries; 2 fields of 2 values each, an odd entry, 2 entries, 2 files, 2 handles | `NoUseAfterFree`, `UniqueIsComplete` |
| `reader_threads` | two threads, one of which closes and reopens, the other of which opens, also over an open Reader; 2 entries, 2 handles | `NoStaleUse`, `EntryFromOneRecord`, `NoHandleLeak` |
| `reader_follow` | a client in each of three modes, 3 entries over 2 files, some of which make `get_next()` raise; 2 clock units to a millisecond, an int up to 3, a deadline of 3 units | `DeadlineKept`, `FollowerGetsAll`, `FollowInOrder`, `PollerRests` |
| `fsprg` | width 4, three pairs of primes, three roots, two seeds, six epochs and one with its highest bit set | `TypeOK`, `SeekFindsSigner`, `SeekEnds`, `ChainSpec` |
| `siphash` | up to 23 bytes in pieces of 0, 1, 3, 5, 7, 8, 9, 16 and 17 | `TypeOK`, `PiecesHashAsWhole` |
| `handler` | two handlers, records at each of the levels 10 to 50 and at those next to it, seven kinds of records that carry more, three direct calls; two entries or refusals | `TypeOK`, `OwnFieldsOnly`, `RecordBeforeHandler`, `OneLocation`, `PrioritiesOrdered` |
| `daemon` | a service and a child, up to 2 descriptors and 2 names, one datagram, a build with all calls | `TypeOK`, `OnlyAddressee`, `TakenOnce`, `NamesInOrder`, `SentAsAsked` |
| `monitor` | a client and an actor that closes or leaves the Monitor; 2 kinds, 2 names, one of them not UTF-8, 2 monitors, 2 changes; both builds, with and without overlap | `TypeOK`, `NoStaleMonitor`, `NoUseAfterFree`, `NoMonitorLeak`, `SleeperIsCurrent`, `ClientRests` |
| `address` | texts of up to 5 pieces out of 16, IPv6 addresses in full and with `::` of up to three pieces; bytes of 2 values, ports of two bytes, unsigned of 3 and long of 4 bits; 3 sockets and a closed descriptor; a build with the call | `TypeOK`, `ParsesAsWritten`, `AnswersForTheSocket` |
| `v_unreadable` | as `reader_follow`, with `wait()` and entries that cannot be read | `FollowerGetsAll` fails |
| `v_seek_binding` | as `fsprg`, through the binding | `BindingFindsSigner` fails |

Why the bounds are enough. Two entries give a reader something behind it or ahead
of it, and a skip that reaches beyond both; a follower has three, to lose or repeat
the middle one; two files let one appear and the other vanish while it
is read. Two handles are what it takes for one to be lost or stale, and a Reader to be
reopened; `reader_atomic` has one, so that reopening is in `reader_handler` and
`reader_threads` only. Two terms hold a disjunction of conjunctions; the calls that no run
of `AtomicSpec` makes (`add_conjunction`, `process`, questions) are covered by the theorem
`ReaderIsAtomic`. Both orders of the primes occur, primes whose
inverses differ, epochs 0, powers of two and others, and one beyond the highest
bit. Pieces shorter than, equal to and longer than a word meet every filling of
the padding. Two entries show a field of the first record in the second, and a
higher level before and after a lower one. A deadline that
is not a multiple of a millisecond tells rounding up from rounding down, and the
clock runs beyond it. Two monitors are one that was closed and its successor; two
changes are one that is seen and one that comes while the client is at work. Five
pieces are the longest notation, `[`, address, `]`, `:`, port, where the address is one
piece, and `[fe80::2]` where it is three; ports from 0 to beyond
two bytes and numbers around the width of each type occur, and two numbers are
names of interfaces too. The runs that
check deadlock are those in which a step is always possible; in the others a
bound on what is written, opened or sent stops the model, not the code.

Fairness. `FollowSpec` assumes that the follower goes on with its loop (weak
fairness of each extension call that is one step) and that a call inside
libsystemd returns when again and again it can (strong fairness: `OSError` is
always another way to return, and a follower that is refused for ever is not
what is asked about). Nothing is assumed of journald; time passes (weak fairness of `Tick`). `ClientSpec`
assumes the same of its client: it goes on, and opening, flushing and listing do
not fail for ever. Nothing is assumed of logind, of the other actors or of the
number of monitors: a client that has used up the bound has stopped
(`Exhausted`), as has an aborted interpreter. `FairSpec` of `Fsprg` assumes
that a seek in progress goes on. It does not assume that anyone calls anything.

The two violations.

* `v_unreadable`: an entry whose first field cannot be read is an empty dictionary,
  which is also the end of the journal; a follower waits with an entry ahead.
* `v_seek_binding`: `_fsprg.c:176` assigns the first byte of the parsed seed; the
  other bytes of the array are what the stack holds.

More places where the code surprises, or its text differs, are part of the models and
have no run of their own:

* `emit()` gives `send()` a keyword twice when a record carries `PRIORITY` or another
  field that `emit()` sets; the call raises `TypeError` and the record is dropped
  (`Refuse`). The comment at `journal.py:597` calls those fields "highest priority".
* `log_level(0)` after `log_level(1)` leaves the matches of the first (`LogLevel`), since
  matches of one field widen each other. `journal.py:337`: "Set maximum log
  `level`".
* `safe_atou()` takes a blank and a great negative number for a small positive one
  (`SafeAtou`, `Wraps`). `util.c:102-108`: "We want a clean error".
* a handle that another thread's `__init__()` stores between the two statements of
  a `close()` is lost, and so is one that `__init__()` or a second thread opens over;
  likewise for a Monitor (`NoHandleLeak` and `NoMonitorLeak` name these cases, and say
  that there are no others). No text promises that objects may be shared so.
* leaving a `with` block aborts the interpreter when assertions are compiled in
  (`Exit`).
* `fsprg.py:1` imports `setup_keys` from `_fsprg`, which defines `setup_key`: the module
  cannot be imported. It has no other content that could be modelled.

## 4. Theorems

| theorem | statement |
|---|---|
| `JournalReaderProofs!TypeCorrect` | `Spec => []TypeOK` |
| `JournalReaderProofs!NeverStale` | `Spec => []NoStaleUse`, for any number of threads |
| `JournalReaderProofs!NeverFreedInOneThread` | without `Overlap`, `Spec => []NoUseAfterFree` |
| `JournalReaderProofs!NeverLeaks` | `Spec => NoHandleLeak`, for any number of threads that do anything |
| `JournalReaderProofs!EntryIsWhole` | when one actor alone moves the Reader, `Spec => []EntryFromOneRecord` |
| `JournalReaderProofs!UniqueAlwaysComplete` | without `Overlap`, `Spec => UniqueIsComplete` |
| `JournalReaderProofs!ReaderIsAtomic` | for one actor, without `Overlap` and "reinit", `Spec => AtomicSpec` |
| `FollowProofs!DeadlineAlwaysKept` | `FollowSpec => []DeadlineKept` |
| `FollowProofs!FollowedInOrder` | `FollowSpec => FollowInOrder`, for any number of entries |
| `LoginProofs!MonitorNeverStale` | `LoginSpec => []NoStaleMonitor`, for any number of actors that do anything |
| `LoginProofs!MonitorNeverFreedInUse` | `LoginSpec => []NoUseAfterFree`: without overlap |
| `LoginProofs!ClientTypeCorrect` | `ClientSpec => []TypeOK` |
| `LoginProofs!SleeperNeverStale` | `ClientSpec => []SleeperIsCurrent` |
| `LoginProofs!MonitorNeverLeaks` | `ClientSpec => []NoMonitorLeak` |
| `SipHashProofs!CutDoesNotMatter` | `Spec => []PiecesHashAsWhole` |
| `SipHashProofs!NoByteTwice` | `Spec => []TypeOK` |
| `DaemonProofs!DaemonTypeOK` | `Spec => []TypeOK` |
| `DaemonProofs!DaemonOnlyAddressee` | `Spec => OnlyAddressee` |
| `DaemonProofs!DaemonTakenOnce` | `Spec => TakenOnce` |
| `DaemonProofs!DaemonNamesInOrder` | `Spec => NamesInOrder` |
| `DaemonProofs!DaemonSentAsAsked` | `Spec => SentAsAsked` |
| `HandlerProofs!HandlerTypeOK` | `Spec => []TypeOK` |
| `HandlerProofs!HandlerOwnFieldsOnly` | `Spec => []OwnFieldsOnly` |
| `HandlerProofs!HandlerRecordBeforeHandler` | `Spec => []RecordBeforeHandler` |
| `HandlerProofs!HandlerOneLocation` | `Spec => []OneLocation` |
| `HandlerProofs!HandlerPrioritiesOrdered` | `Spec => []PrioritiesOrdered` |
| `IsSocketProofs!IsSocketTypeOK` | `Spec => []TypeOK` |
| `IsSocketProofs!AddressParsesAsWritten` | `Spec => []ParsesAsWritten`, for texts of any length over any vocabulary and any dictionary of IPv6 addresses |
| `IsSocketProofs!AddressAnswersForTheSocket` | `Spec => []AnswersForTheSocket` |
| `FsprgProofs!FsprgTypeOK` | `Spec => []TypeOK` |
| `FsprgProofs!SeekFinds` | `Spec => []SeekFindsSigner`, for all primes, roots, widths and epochs |
| `FsprgProofs!GeneratorIsChain` | `Spec => ChainSpec` |
| `FsprgProofs!HighEpochsAreNotFound` | no seek to an epoch whose highest bit is set returns |
| `FsprgProofs!SoughtIsStateAt` | FSPRG_Seek computes the state that as many evolutions reach |
| `FsprgProofs!TwoPowIs` | `twopowmodphi` computes 2^m modulo p - 1 |
| `FsprgProofs!CrtRestores` | `CRT_compose` undoes `CRT_decompose` |

They rest on the assumptions that the modules state on their constants, and on
nothing else: every leaf is checked.

*TypeInv* adds to `TypeOK` that a dictionary whose timestamps are being read has
its fields (`FieldsFirst`), without which the type of the finished entry does not
follow. One lemma for each group of actions, by group of the code.

*PointerInv* says that `self->j`, when it is not NULL, is an open handle
(`PointerOpen`), but for the time that a `close()` is between its two statements: then it
may also be the one that was freed (`CloserFreed`). One actor at most is there
(`OneCloser`), and the object is gone for all actors at once (`GoneTogether`). It is
inductive because a `close()` keeps the GIL until it has cleared the pointer: nobody
else can follow it, and whoever stores a new handle in between has it cleared away
and not freed. `NeverLeaks` follows: a step that changes `self->j` is one that opens or
one that clears.

*ThreadInv* adds, without `Overlap`, that one actor at most is inside libsystemd or a
`close()` (`OneInside`) and that the handle it captured is the one the Reader refers to
(`HeldIsCurrent`): then none is freed under a call.

*OpenInv* adds that a client which opens does so on a closed Reader
(`OpensWhenClosed`), for the refinement.

*EntryInv* relates the dictionary under construction to the handle's location:
while the only actor that moves the Reader is between the five calls, the parts
it has read are of the entry the handle is at, or the handle has none. The others
may close and reopen: a new handle is at no entry, and the remaining calls raise.

*UniqueInv* relates the two phases of `query_unique()`: without `Overlap`, from the
first to the second the handle keeps the field that the call asked for (`FieldAsked`,
`FieldNoted`). `OthersUndisturbed` says that a step of one actor leaves the calls of the
others alone, and that nobody else can return to "idle" in its place.

*AtomicInv* is what the refinement rests on: *OpenInv*, *EntryInv*, *UniqueInv*, that a move
under way skips as it was asked to (`SkipAsked`), and that between the five calls of
`get_next()` the Reader stays at a readable entry of which the parts so far are
(`InPlace`), and that nothing open is to be seen in the middle of a `close()` (`Shut`).
`ReaderIsAtomic` maps each step: `Unseen` steps of a call (it begins, or reads one
part of the entry) to a stutter, the move inside libsystemd to the step of
`AtomicReader` that takes the entry, the first step of `add_match()` to all of its matches
but those from a refused one on (`BeforeFirst`, `AddedTogether`), and the return of the call, which gives what the
mapping has looked ahead to, to a stutter. The copies of `SdJournal`'s operators inside
the instance are shown equal to the operators first (`SameJournal` to `SameMoves`).

*NapInv* of `FollowProofs` bounds the clock and the sleep and says that their sum
reaches the deadline and exceeds it by less than a millisecond. A tick takes from
the one what it adds to the other; that going to sleep establishes it is
`TimeoutRounds`, arithmetic about `AbsoluteTimeout`. It needs the deadline to be one
that the int can hold: without the bound of `FollowAssumption` the cast would make it
negative.

*OrderInv* of `FollowProofs` says that a client's one handle stays open and that each call
captures it (`HandleStays`), and that what was handed out is behind the handle's
location: strictly while an entry is being read, whose parts so far are of the
entry at that location (`Behindhand`). A move lands ahead of the location (`MoveOrder`);
handing an entry out makes it the last that was (`CursorOrder`); bringing a handle
up to date after a rotation or a vacuum leaves it where it is (`UpToDate`). What
`get_next()` raises gives an entry up, so none is handed out twice. That the
variables keep their types is taken from the theorems about the Reader
(`FollowKeepsTypes`): a client does nothing that a Reader does not.

*PointerInv* of `LoginProofs` is for the Monitor what *PointerInv* and *ThreadInv* are for
the Reader, and adds that a monitor which is open and not referred to was stored in
the middle of a `close()`.
*ClientInv* of the client adds `Follows`, which says for each of its calls what is
known then: between the list and `poll()`, and while it sleeps, either the list is
what logind has or an event is pending that will wake it. The step that needs it
is `flush()`, which discards the event: it holds because the client lists afterwards.

*HashInv* says that after every call `mixed` holds the whole words of the message so
far and `padding` the word that is not full yet. `FilledWord` is the step that fills
the padding up, `ChunkWord` the words read from the piece itself, `OldWord` that
words which are full stay what they are. The number of words mixed follows from
the division of lengths by eight (`EightParts`, `EightUnique`, `BlockStart`).

*DaemonInv* adds the shapes of environments and datagrams (`Shapes`), that whoever
`LISTEN_PID` names was given as many descriptors as `LISTEN_FDS` says (`Addressed`) and that
what was unset stays unset (`Forgotten`). `fork()` copies an environment
that goes on naming the parent, and `execve()` keeps the process id: that makes
`Addressed` inductive, and `OnlyAddressee` is the step of `listen_fds()` under it.

*HandlerInv* says of `extra` that it is what the handler was constructed with (`ExtraInv`),
and of the journal that each entry is one that `emit()` makes of its record and its
handler, or one that a direct call makes (`EntryInv`). The first is what keeps the
entries apart: `emit()` must not leave a record's fields in the handler's dictionary.
`MapPriority` is ordered because its cases are.

*IsSocketInv* is `TypeOK` and that the text is a sequence of pieces. The work is in
the lemmas about `ParseSockaddr`: `NotationsAreRead` computes it for each notation,
`OnlyNotationsAreRead` goes the other way, from what is read without an error
to the notation that the text has. Between them, no text has two meanings.
`BracketedRead` and `OnlyBracketed` need of `InetPton6` only that its texts have no
brackets. `AtouAccepts` is where numbers that wrap are left out; `ByteOrder` says that changing the
order of the bytes loses nothing, so that ports can be compared in network byte
order.

*FsprgInv* says that the signer's state is the one its evolutions lead to
(`SignerOnChain`), that a seek in progress is about a seed and an epoch (`SeekIsOpen`), that
the loop of `twopowmodphi` ended with all the bits of the epoch counted (`BitsCounted`),
which it only does when the highest is clear (`LowEpoch`), and that a seek which has returned
gave the state that its seed and epoch stand for (`FoundOnChain`). `FoundOnChain` is about
whatever seed was sought with: `SeekFindsSigner` is the case of the signer's own, and
`v_seek_binding` the case of another. `CountEndsBelow` is why undefined shifts do no more harm
than keeping the loop going: past the width they give 0 or a power of two that was there
before. The step of the proof is `SoughtIsStateAt`, which is number theory, from the ground up:

* `PowRec`, `PowAdd`, `PowBase`, `PowInto`: the powers that `PowMod` tabulates, by induction over
  the exponent. The library's induction theorem is about predicates;
  `NatInductionOnSet` gets the same from the well-foundedness of `<`, for sets.
* `Fermat`: multiplying with a permutes the units in orbits that all have the order of a
  for their size (`OrbitSize`, `ClosedSize`), so the order divides p - 1. With it,
  exponents may be reduced modulo p - 1 (`PowPeriod`).
* `PhiDividesNoPower`: a reduced exponent is 0 only if p - 1 divides a power of two, and
  for a prime that is 3 (mod 4) and not 3 it has an odd factor. This is what makes the
  shortcut right for a square that p divides, too; `FsprgAssumption` asks for `k.p > 3`
  because of it.
* `TurnDoubles`, `TwoPowIs`: the loop takes the exponent's bits in from the highest.
* `Euclid`, `InverseIs`, `CrtRestores`: two different primes, and the number below p * q with
  two given remainders.

Model-checked only: liveness (`FollowerGetsAll`, `PollerRests`, `ClientRests`, `SeekEnds`), which
the provers do not reach. Every invariant and every action property that a passing
run checks, and both refinements, are theorems.

## 5. What is not modelled

* The Reader's `data_threshold`, which cuts the values libsystemd returns, and what
  each field's value is converted to; that a conversion raises is modelled.
  `has_runtime_files`, `has_persistent_files` and `reliable_fd` have the shape of
  `get_usage`.
* Two threads, or a thread and a signal handler, that both move the Reader: their
  entries mix. `query_unique()` by two threads at once is part of the model, and no
  property: the second changes the field of the first.
* The byte layout of master keys and states, and the search for primes.
* `stream()`, `booted()`, `is_fifo`, `is_socket`, `is_socket_unix` and `is_mq`, one library
  call each. `is_socket_sockaddr` and `is_socket_inet` leave family, type and listening
  state open.
* `loop_read`, `safe_close`, `fd_wait_for_event`, `ppoll_usec` and `timespec_store`: nothing in
  the package calls them any more (`_fsprg.c` has the calls commented out).
* Characters: `strtoul` and `if_nametoindex` are the kinds of `SockAddr`'s pieces, and
  `inet_pton` is those and the dictionary `InetPton6`.
* Identifiers, string vectors, macros, build files, the experiments in `rocksdb/`:
  no state and no decision.

Assumed of the environment: state lists given to the generator have their full
length; the two primes differ and are above 3 (they have hundreds of bits); a
signer does not evolve 2^64 times; descriptors passed to a service are taken
before it opens files under the same numbers; process ids are not reused;
memory does not run short in the questions about one entry that `get_next()` asks, nor
in `add_match()`; no interface has a bracket, a colon or a blank in its name;
libsystemd gives no deadline further away than an int of milliseconds can say;
a client of `docs/login.rst` does not run `__init__` on an open Monitor.

## 6. Plan

What is left:

* `FsprgLayout`: offsets and lengths of keys and states, `store_secpar` and the
  64-bit round trips, as lemmas for every security parameter.
